---------------------------- MODULE Esp32Sockets ----------------------------
(***************************************************************************)
(* The sockets the ESP32 keeps for the K210: the slots of                  *)
(* CommandHandler.cpp, the clients and the server of the WiFi library in   *)
(* them, and the descriptors of lwIP below.  The ESP32 has one task, so a  *)
(* command is one step; the network acts between any two of them.          *)
(*                                                                         *)
(* The K210 knows a connection by its slot number only.  It uses the       *)
(* numbers that open and accept have given it, until it closes them.  The  *)
(* link executes a command once at most (RemoteCall) and may lose it or its *)
(* answer: the K210 then takes an open or an accept for failed, and a      *)
(* close for done.  An answer that is not lost but late is not in here: it *)
(* is taken for that of the next command, and all is lost (Esp32Link).     *)
(*                                                                         *)
(* lwIP is external: connect, accept, recv and send either work, would     *)
(* block or fail with another errno, and a recv that returns 0 sets errno. *)
(* So is mbedtls, which tells the end of a TLS connection by an error only *)
(* if the peer has said farewell (close_notify) or has reset it.           *)
(***************************************************************************)
EXTENDS Integers, FiniteSets

CONSTANTS
  MaxSockets,   \* MAX_SOCKETS, which is also lwIP's number of descriptors
  MaxConns,     \* bound: connections in one behaviour
  MaxUnread,    \* bound: bytes waiting to be read on a connection
  MaxLost       \* bound: commands and answers the link loses

ASSUME BoundsAssumption ==
  /\ MaxSockets \in Nat \ {0}
  /\ MaxConns \in Nat
  /\ MaxUnread \in Nat
  /\ MaxLost \in Nat

Slots == 0 .. MaxSockets - 1
Fds == 1 .. MaxSockets
Conns == 1 .. MaxConns
NoFd == 0              \* -1 in the code
NoConn == 0            \* also a descriptor that is not in use
Listening == MaxConns + 1

\* "closed": by the peer, with a close_notify first if it is TLS.  "cut": by the
\* peer of a TLS connection, with nothing but the FIN of TCP.  "gone": given up
\* by the ESP32.
ConnStates == {"none", "backlog", "up", "closed", "cut", "reset", "gone"}

VARIABLES
  socketTypes,   \* what each slot is
  tcpClients,    \* descriptor of the WiFiClient of each slot
  tlsClients,    \* descriptor of the WiFiSSLClient of each slot
  tcpServer,     \* descriptor of the WiFiServer
  \* lwIP and the network
  fds,           \* what each descriptor is
  conn,          \* state of each connection
  unread,        \* bytes received on it and not read
  \* the K210
  held,          \* slot numbers it was given and has not closed
  owner,         \* history: the connection each of them was given for
  misled,        \* history: it was given the number of an empty slot
  lost           \* history: commands and answers about a slot that were lost

slots == <<socketTypes, tcpClients, tlsClients>>
net == <<fds, conn, unread>>
client == <<held, owner, misled, lost>>
vars == <<slots, tcpServer, net, client>>

Init ==
  /\ socketTypes = [s \in Slots |-> "Empty"]
  /\ tcpClients = [s \in Slots |-> NoFd]
  /\ tlsClients = [s \in Slots |-> NoFd]
  /\ tcpServer = NoFd
  /\ fds = [f \in Fds |-> NoConn]
  /\ conn = [c \in Conns |-> "none"]
  /\ unread = [c \in Conns |-> 0]
  /\ held = {}
  /\ owner = [s \in Slots |-> NoConn]
  /\ misled = FALSE
  /\ lost = 0

\* The lowest member of a set of numbers.
Lowest(S) == CHOOSE x \in S : \A y \in S : x <= y

EmptySlots == {s \in Slots : socketTypes[s] = "Empty"}
FreeFds == {f \in Fds : fds[f] = NoConn}
NewConns == {c \in Conns : conn[c] = "none"}
Backlog == {c \in Conns : conn[c] = "backlog"}

freeSocket == Lowest(EmptySlots)

\* The descriptor the commands on slot s use.
FdOf(s) ==
  CASE socketTypes[s] = "TCP" -> tcpClients[s]
    [] socketTypes[s] = "TLS" -> tlsClients[s]
    [] OTHER                  -> NoFd

ConnOf(s) == IF FdOf(s) = NoFd THEN NoConn ELSE fds[FdOf(s)]

\* A transfer fails that the ESP32 has carried out, or has not seen.
TransferFails ==
  /\ lost < MaxLost
  /\ lost' = lost + 1

\* The K210 is told the number of slot s, given for connection c; or the
\* transfer fails and it believes that there is no socket.
Answer(s, c) ==
  \/ /\ held' = held \union {s}
     /\ owner' = [owner EXCEPT ![s] = c]
     /\ UNCHANGED lost
  \/ /\ TransferFails
     /\ UNCHANGED <<held, owner>>

\* The slot whose number it is told is empty.
Misleads(s) == misled' = (misled \/ s \in held')

-----------------------------------------------------------------------------
(* startSocketClient *)

\* The connection is made.
OpenSucceeds(type) ==
  LET s == freeSocket
      f == Lowest(FreeFds)
      c == Lowest(NewConns)
  IN  /\ EmptySlots # {}
      /\ FreeFds # {}
      /\ NewConns # {}
      /\ type \in {"TCP", "TLS"}
      /\ fds' = [fds EXCEPT ![f] = c]
      /\ conn' = [conn EXCEPT ![c] = "up"]
      /\ tcpClients' = IF type = "TCP" THEN [tcpClients EXCEPT ![s] = f] ELSE tcpClients
      /\ tlsClients' = IF type = "TLS" THEN [tlsClients EXCEPT ![s] = f] ELSE tlsClients
      /\ socketTypes' = [socketTypes EXCEPT ![s] = type]
      /\ Answer(s, c)
      /\ UNCHANGED <<tcpServer, unread, misled>>

\* Mutant: the descriptor of a failed connect is not closed.
OpenFailsLeaks(type) ==
  LET s == freeSocket
  IN  /\ EmptySlots # {}
      /\ FreeFds # {}
      /\ NewConns # {}
      /\ fds' = [fds EXCEPT ![Lowest(FreeFds)] = Lowest(NewConns)]
      /\ tcpClients' = [tcpClients EXCEPT ![s] = NoFd]
      /\ Answer(s, NoConn)
      /\ Misleads(s)
      /\ UNCHANGED <<socketTypes, tlsClients, tcpServer, conn, unread>>

\* No name, no descriptor, no answer; or the type is UDP, for which nothing is
\* done.  The slot stays empty, and its number is the response all the same.
OpenFails(type) ==
  LET s == freeSocket
  IN  /\ EmptySlots # {}
      /\ tcpClients' = IF type = "TCP" THEN [tcpClients EXCEPT ![s] = NoFd] ELSE tcpClients
      /\ tlsClients' = IF type = "TLS" THEN [tlsClients EXCEPT ![s] = NoFd] ELSE tlsClients
      /\ Answer(s, NoConn)
      /\ Misleads(s)
      /\ UNCHANGED <<socketTypes, tcpServer, net>>

\* The TLS handshake runs out of time or the certificate is not good: connect
\* returns -1, which counts as success.  The slot is TLS without a connection.
OpenHandshakeFails ==
  LET s == freeSocket
  IN  /\ EmptySlots # {}
      /\ FreeFds # {}
      /\ tlsClients' = [tlsClients EXCEPT ![s] = NoFd]
      /\ socketTypes' = [socketTypes EXCEPT ![s] = "TLS"]
      /\ Answer(s, NoConn)
      /\ UNCHANGED <<tcpClients, tcpServer, net, misled>>

-----------------------------------------------------------------------------
(* The commands on a slot *)

\* stop, or the close in read, peek and write: the descriptor, if there is
\* one, is given back.
StopClient(s) ==
  /\ fds' = [f \in Fds |-> IF f = FdOf(s) THEN NoConn ELSE fds[f]]
  /\ conn' = [c \in Conns |-> IF c = ConnOf(s) THEN "gone" ELSE conn[c]]
  /\ tcpClients' = IF socketTypes[s] = "TCP" THEN [tcpClients EXCEPT ![s] = NoFd]
                   ELSE tcpClients
  /\ tlsClients' = IF socketTypes[s] = "TLS" THEN [tlsClients EXCEPT ![s] = NoFd]
                   ELSE tlsClients

\* Mutant: the slot of a connection that is gone is set free at once.
DropEmpties(s) ==
  /\ StopClient(s)
  /\ socketTypes' = [socketTypes EXCEPT ![s] = "Empty"]

\* The client finds its connection gone.  The type of the slot is not touched.
Drop(s) ==
  /\ StopClient(s)
  /\ UNCHANGED socketTypes

\* readSocketData with bytes to read.
ReadBytes(s) ==
  /\ s \in held
  /\ ConnOf(s) # NoConn
  /\ unread[ConnOf(s)] > 0
  /\ \E n \in 1 .. unread[ConnOf(s)] : unread' = [unread EXCEPT ![ConnOf(s)] = @ - n]
  /\ UNCHANGED <<slots, tcpServer, fds, conn, client>>

\* Mutant: recv's 0 is not taken for the end.
PeerGoneReset(s) == ConnOf(s) # NoConn /\ conn[ConnOf(s)] = "reset"

\* Mutant: the end is seen before what was received is read.
PeerGoneUnread(s) == ConnOf(s) # NoConn /\ conn[ConnOf(s)] \in {"closed", "reset"}

\* There is nothing to read and nothing will come: recv returns 0, or -1 with
\* an errno other than EWOULDBLOCK.  Of a TLS connection that was cut
\* mbedtls_ssl_read returns 0, for which available does nothing.
PeerGone(s) ==
  /\ ConnOf(s) # NoConn
  /\ unread[ConnOf(s)] = 0
  /\ conn[ConnOf(s)] \in {"closed", "reset"}

\* readSocketData, getSocketState (peek, or available of TLS) or, with TLS,
\* availSocketData find that the peer is gone.
NoticeGone(s) ==
  /\ s \in held
  /\ PeerGone(s)
  /\ Drop(s)
  /\ UNCHANGED <<tcpServer, unread, client>>

\* sendSocketData on a connection that was reset.
WriteFails(s) ==
  /\ s \in held
  /\ socketTypes[s] = "TCP"
  /\ ConnOf(s) # NoConn
  /\ conn[ConnOf(s)] = "reset"
  /\ Drop(s)
  /\ UNCHANGED <<tcpServer, unread, client>>

\* The K210 closes the number it holds, and forgets it whatever is answered.
Forget(s) ==
  /\ s \in held
  /\ held' = held \ {s}
  /\ owner' = [owner EXCEPT ![s] = NoConn]
  /\ UNCHANGED misled

\* Mutant: the slot is not set free.
CloseKeepsType(s) ==
  /\ Forget(s)
  /\ Drop(s)
  /\ UNCHANGED <<tcpServer, unread, lost>>

\* closeSocket: stop and set the slot free; an empty slot is left alone.
Close(s) ==
  /\ Forget(s)
  /\ StopClient(s)
  /\ socketTypes' = [socketTypes EXCEPT ![s] = "Empty"]
  /\ UNCHANGED <<tcpServer, unread, lost>>

\* The command does not get there.  (When only its answer is lost nothing
\* differs from Close: no caller looks at the result.)
CloseUnheard(s) ==
  /\ Forget(s)
  /\ TransferFails
  /\ UNCHANGED <<slots, tcpServer, net>>

-----------------------------------------------------------------------------
(* The server *)

\* The listening descriptor is closed; connections not accepted are dropped.
CloseServer ==
  /\ fds' = [f \in Fds |-> IF f = tcpServer THEN NoConn ELSE fds[f]]
  /\ conn' = [c \in Conns |-> IF c \in Backlog THEN "gone" ELSE conn[c]]
  /\ tcpServer' = NoFd

\* tcpServerCreate: the old server is stopped first, so there is a descriptor
\* when it was listening.
ServerCreate ==
  LET freed == FreeFds \union ({tcpServer} \ {NoFd})
      f     == Lowest(freed)
  IN  /\ freed # {}
      /\ fds' = [g \in Fds |-> IF g = f THEN Listening
                               ELSE IF g = tcpServer THEN NoConn ELSE fds[g]]
      /\ conn' = [c \in Conns |-> IF c \in Backlog THEN "gone" ELSE conn[c]]
      /\ tcpServer' = f
      /\ UNCHANGED <<slots, unread, client>>

\* tcpServerStop, or a tcpServerCreate that cannot get a descriptor or bind.
ServerStop ==
  /\ CloseServer
  /\ UNCHANGED <<slots, unread, client>>

\* lwip_accept without a result and with any errno but EWOULDBLOCK: there is no
\* descriptor or no memory, the connection that waited was aborted, ...  The
\* server closes.  (With EWOULDBLOCK nothing changes.)
AcceptFailed ==
  /\ CloseServer
  /\ UNCHANGED <<slots, held, owner, lost>>

\* client.stop() when all slots are taken; 255 is the response.
NoSlot(f, c) ==
  /\ conn' = [conn EXCEPT ![c] = "gone"]
  /\ UNCHANGED <<fds, slots, held, owner, lost>>

\* The accepted client is copied into the slot.
IntoSlot(s, f, c) ==
  /\ fds' = [fds EXCEPT ![f] = c]
  /\ conn' = [conn EXCEPT ![c] = "up"]
  /\ tcpClients' = [tcpClients EXCEPT ![s] = f]
  /\ socketTypes' = [socketTypes EXCEPT ![s] = "TCP"]
  /\ Answer(s, c)
  /\ UNCHANGED tlsClients

\* lwip_accept with a result.
Accepted ==
  LET f == Lowest(FreeFds)
      c == Lowest(Backlog)
  IN  /\ Backlog # {}
      /\ FreeFds # {}
      /\ IF EmptySlots = {} THEN NoSlot(f, c) ELSE IntoSlot(freeSocket, f, c)
      /\ UNCHANGED tcpServer

\* tcpServerAccept
ServerAccept ==
  /\ tcpServer # NoFd
  /\ AcceptFailed \/ Accepted
  /\ UNCHANGED <<unread, misled>>

-----------------------------------------------------------------------------
(* The network *)

\* A client of the server; listen has a backlog of 1.
PeerConnects ==
  /\ tcpServer # NoFd
  /\ Backlog = {}
  /\ NewConns # {}
  /\ conn' = [conn EXCEPT ![Lowest(NewConns)] = "backlog"]
  /\ UNCHANGED <<slots, tcpServer, fds, unread, client>>

PeerSends(c) ==
  /\ conn[c] = "up"
  /\ unread[c] < MaxUnread
  /\ unread' = [unread EXCEPT ![c] = @ + 1]
  /\ UNCHANGED <<slots, tcpServer, fds, conn, client>>

PeerCloses(c) ==
  /\ conn[c] = "up"
  /\ conn' = [conn EXCEPT ![c] = "closed"]
  /\ UNCHANGED <<slots, tcpServer, fds, unread, client>>

\* The peer of a TLS connection ends without a close_notify.
PeerCuts(c) ==
  /\ conn[c] = "up"
  /\ \E s \in Slots : socketTypes[s] = "TLS" /\ ConnOf(s) = c
  /\ conn' = [conn EXCEPT ![c] = "cut"]
  /\ UNCHANGED <<slots, tcpServer, fds, unread, client>>

\* Also what a lost WiFi connection comes to, or an error of lwIP on it.
PeerResets(c) ==
  /\ conn[c] \in {"up", "closed", "cut"}
  /\ conn' = [conn EXCEPT ![c] = "reset"]
  /\ unread' = [unread EXCEPT ![c] = 0]
  /\ UNCHANGED <<slots, tcpServer, fds, client>>

Poll(s) == ReadBytes(s) \/ NoticeGone(s)

Next ==
  \/ \E type \in {"TCP", "TLS"} : OpenSucceeds(type)
  \/ \E type \in {"TCP", "UDP", "TLS"} : OpenFails(type)
  \/ OpenHandshakeFails
  \/ \E s \in Slots : Poll(s) \/ WriteFails(s) \/ Close(s) \/ CloseUnheard(s)
  \/ ServerCreate
  \/ ServerStop
  \/ ServerAccept
  \/ PeerConnects
  \/ \E c \in Conns : PeerSends(c) \/ PeerCloses(c) \/ PeerCuts(c) \/ PeerResets(c)

Spec == Init /\ [][Next]_vars

\* The K210 goes on reading a socket until it is told that the peer is gone
\* (read_many_from_socket) or closes it.
FairSpec == Spec /\ \A s \in Slots : WF_vars(Poll(s))

-----------------------------------------------------------------------------
(* Properties *)

TypeOK ==
  /\ socketTypes \in [Slots -> {"Empty", "TCP", "TLS"}]
  /\ tcpClients \in [Slots -> Fds \union {NoFd}]
  /\ tlsClients \in [Slots -> Fds \union {NoFd}]
  /\ tcpServer \in Fds \union {NoFd}
  /\ fds \in [Fds -> Conns \union {NoConn, Listening}]
  /\ conn \in [Conns -> ConnStates]
  /\ unread \in [Conns -> 0 .. MaxUnread]
  /\ held \subseteq Slots
  /\ owner \in [Slots -> Conns \union {NoConn}]
  /\ misled \in BOOLEAN
  /\ lost \in 0 .. MaxLost

\* Everything that keeps descriptor f.
Keepers(f) ==
  {<<"TCP", s>> : s \in {t \in Slots : tcpClients[t] = f}}
    \union {<<"TLS", s>> : s \in {t \in Slots : tlsClients[t] = f}}
    \union (IF tcpServer = f THEN {<<"server", 0>>} ELSE {})

\* No descriptor is lost and none is closed twice: one in use is kept by
\* exactly one client or the server, a free one by nobody, although the code
\* copies WiFiClients and closes descriptors in six places.
FdsOwned ==
  \A f \in Fds : Cardinality(Keepers(f)) = IF fds[f] = NoConn THEN 0 ELSE 1

Orphans == {s \in Slots \ held : socketTypes[s] # "Empty"}

\* An empty slot keeps no descriptor, and an occupied one is known to the
\* K210, which can close it.  Only a transfer that fails can take a slot away
\* (until the ESP32 is reset), and no more than one: an open that is retried
\* after each failure uses up the slots no faster than that.
SlotsAccountedFor ==
  /\ \A s \in EmptySlots : tcpClients[s] = NoFd /\ tlsClients[s] = NoFd
  /\ Cardinality(Orphans) <= lost

\* freeSocket's comment: sockets must not be closed behind the K210's back,
\* or they are reused unexpectedly.  While the K210 has not closed a number it
\* was given, the slot is that connection or dead, never another one.
HandleKeepsItsConnection ==
  ~ misled =>
     \A s \in held : socketTypes[s] # "Empty" /\ ConnOf(s) \in {owner[s], NoConn}

\* There is something to be had of a connection: it is up, or not all of what was
\* received on it has been read.
Live(c) == conn[c] = "up" \/ unread[c] > 0

\* While the K210 holds a number, its connection goes on and nothing received is
\* thrown away, whatever else is opened, accepted, closed or fails: only its own
\* close ends a live connection.  (The commands share the slots, the descriptors
\* and the lowest free number, clients are copied, and the server closes itself.)
LiveConnectionsStay ==
  [][\A s \in held :
       (ConnOf(s) # NoConn /\ Live(ConnOf(s))) =>
          (ConnOf(s)' = ConnOf(s) \/ s \notin held')]_vars

HeldFor(c) == \E s \in held : ConnOf(s) = c

\* A connection that the peer has closed or reset does not keep its descriptor
\* while the K210 reads on.  Not so one that is cut: a TLS peer that leaves without
\* a close_notify keeps slot and descriptor until the K210 closes the number.
GoneIsNoticed ==
  \A c \in Conns :
    (conn[c] \in {"closed", "reset"} /\ HeldFor(c)) ~> ~ HeldFor(c)

\* esp32_spi.cpp: open returns the socket number, or 255 if it fails.  So a
\* number the K210 has been given is never that of an empty slot.
OpenReportsFailure == \A s \in held : socketTypes[s] # "Empty"
=============================================================================
