------------------------------ MODULE WifiConn ------------------------------
(***************************************************************************)
(* The ESP32 as a WiFi station (arduino/WiFi/WiFi.cpp) and the K210 calls  *)
(* that drive it (drivers/esp32/esp32_spi.cpp).                            *)
(*                                                                         *)
(* Two tasks of the ESP32 write _status and the event bits and take no     *)
(* lock: the command task (pinned to core 1, sketch.ino.cpp) and the event *)
(* task on core 0 that runs the handlers.  They run in parallel, so each   *)
(* store of one to what the other reads is a step.  The WiFi driver (link, *)
(* mode, scan) is external: it takes requests at once and posts an event   *)
(* for what becomes of them.                                               *)
(*                                                                         *)
(* A network is a member of Networks, an address the number of the         *)
(* connection it was given for; 0 is no address and AP that of the ESP32   *)
(* as an access point.                                                     *)
(***************************************************************************)
EXTENDS Naturals, Sequences

CONSTANTS
  Networks,      \* networks the K210 asks for
  RetryTimes,    \* retry_times of connect_AP
  MaxCalls,      \* bound: calls of the K210
  MaxLinks       \* bound: connections that come up

ASSUME WifiAssumption ==
  /\ RetryTimes \in Nat /\ MaxCalls \in Nat /\ MaxLinks \in Nat
  /\ "none" \notin Networks

VARIABLES
  \* class WiFiClass
  status,        \* _status
  bits,          \* _wifi_event_group
  ipInfo,        \* _ipInfo
  \* the command task: which command, and where in it
  cmd, epc,
  \* the event task: events posted, and the one being handled with its step
  events, handler, step,
  \* the driver
  mode, config, link, scanning,
  \* the K210
  kpc, tries, result,
  \* history: the last request for a connection, and the connection the K210
  \* was told of
  asked, seen, calls

shared == <<status, bits, ipInfo>>
command == <<cmd, epc>>
eventTask == <<events, handler, step>>
driver == <<mode, config, link, scanning>>
k210 == <<kpc, tries, result>>
history == <<asked, seen, calls>>
vars == <<shared, command, eventTask, driver, k210, history>>

AP == MaxLinks + 1
Down == [state |-> "down", net |-> "none", no |-> 0]

Init ==
  /\ status = "IDLE" /\ bits = {} /\ ipInfo = 0
  /\ cmd = "none" /\ epc = "idle"
  /\ events = <<>> /\ handler = "none" /\ step = 0
  /\ mode = "NULL" /\ config = "none" /\ link = Down /\ scanning = FALSE
  /\ kpc = "idle" /\ tries = 0 /\ result = "none"
  /\ asked = [net |-> "none", calm |-> TRUE, from |-> 0]
  /\ seen = 0 /\ calls = 0

-----------------------------------------------------------------------------
(* The driver *)

\* The station loses what it has, or gives up what it tries, and says so.
LoseLink ==
  IF link.state = "down"
  THEN UNCHANGED <<link, events>>
  ELSE /\ link' = [link EXCEPT !.state = "down"]
       /\ events' = Append(events, "disconnected")

LinkComesUp ==
  /\ link.state = "trying"
  /\ link.no < MaxLinks
  /\ link' = [link EXCEPT !.state = "up", !.no = @ + 1]
  /\ events' = Append(events, "got_ip")
  /\ UNCHANGED <<shared, command, handler, step, mode, config, scanning,
                 k210, history>>

\* The network refuses, or the connection is lost.
LinkGoesDown ==
  /\ link.state # "down"
  /\ LoseLink
  /\ UNCHANGED <<shared, command, handler, step, mode, config, scanning,
                 k210, history>>

ScanEnds ==
  /\ scanning
  /\ scanning' = FALSE
  /\ events' = Append(events, "scan_done")
  /\ UNCHANGED <<shared, command, handler, step, mode, config, link,
                 k210, history>>

-----------------------------------------------------------------------------
(* The event task: the handlers, one store at a time *)

TakeEvent ==
  /\ handler = "none"
  /\ events # <<>>
  /\ handler' = Head(events)
  /\ events' = Tail(events)
  /\ step' = 1
  /\ UNCHANGED <<shared, command, driver, k210, history>>

\* Mutant: the status is stored before the bits.
GotIpStatusFirst ==
  /\ handler = "got_ip"
  /\ \/ step = 1 /\ status' = "CONNECTED" /\ UNCHANGED bits
     \/ step = 2 /\ bits' = bits \ {"DISCONNECTED"} /\ UNCHANGED status
     \/ step = 3 /\ bits' = bits \union {"CONNECTED"} /\ UNCHANGED status

\* got_ip_handler
GotIp ==
  /\ handler = "got_ip"
  /\ \/ step = 1 /\ bits' = bits \ {"DISCONNECTED"} /\ UNCHANGED status
     \/ step = 2 /\ bits' = bits \union {"CONNECTED"} /\ UNCHANGED status
     \/ step = 3 /\ status' = "CONNECTED" /\ UNCHANGED bits

\* disconnect_handler
Disconnected ==
  /\ handler = "disconnected"
  /\ \/ step = 1 /\ bits' = bits \ {"CONNECTED"} /\ UNCHANGED status
     \/ step = 2 /\ bits' = bits \union {"DISCONNECTED"} /\ UNCHANGED status
     \/ step = 3 /\ status' = "DISCONNECTED" /\ UNCHANGED bits

\* scan_done_handler
ScanDone ==
  /\ handler = "scan_done"
  /\ bits' = bits \union {"SCAN_DONE"}
  /\ UNCHANGED status

\* One step of the running handler; after the last one it returns.
Handle ==
  /\ GotIp \/ Disconnected \/ ScanDone
  /\ IF step = 3 \/ handler = "scan_done"
     THEN handler' = "none" /\ step' = 0
     ELSE handler' = handler /\ step' = step + 1
  /\ UNCHANGED <<ipInfo, command, events, driver, k210, history>>

EventTask == TakeEvent \/ Handle

-----------------------------------------------------------------------------
(* The command task: begin and beginAP *)

Goto(from, to) == epc = from /\ epc' = to

\* Both start by giving up the present connection, if the bit shows one.
SeeBit ==
  /\ epc = "bit"
  /\ epc' = IF "CONNECTED" \in bits THEN "clear"
            ELSE IF cmd = "begin" THEN "mode" ELSE "ap"
  /\ UNCHANGED <<shared, cmd, eventTask, driver, k210, history>>

ClearBit ==
  /\ Goto("clear", "drop")
  /\ bits' = bits \ {"CONNECTED"}
  /\ UNCHANGED <<status, ipInfo, cmd, eventTask, driver, k210, history>>

\* Mutant: the old connection is kept; the driver then ignores the connect.
DropLinkForgotten ==
  /\ epc = "drop"
  /\ epc' = IF cmd = "begin" THEN "mode" ELSE "ap"
  /\ UNCHANGED <<shared, cmd, eventTask, driver, k210, history>>

\* esp_wifi_disconnect, then a wait for DISCONNECTED_BIT of one tick whose
\* outcome nobody looks at.
DropLink ==
  /\ epc = "drop"
  /\ epc' = IF cmd = "begin" THEN "mode" ELSE "ap"
  /\ LoseLink
  /\ UNCHANGED <<shared, cmd, handler, step, mode, config, scanning,
                 k210, history>>

\* Mutant: the status of the old connection is left in place.
StartStationQuiet ==
  /\ Goto("mode", "config")
  /\ mode' = "STA"
  /\ UNCHANGED <<shared, cmd, eventTask, config, link, scanning,
                 k210, history>>

StartStation ==
  /\ Goto("mode", "config")
  /\ mode' = "STA"
  /\ status' = "CONNECTING"
  /\ UNCHANGED <<bits, ipInfo, cmd, eventTask, config, link, scanning,
                 k210, history>>

\* esp_wifi_set_config; the driver may refuse it, as it does while the station
\* is connecting.
Configure ==
  \/ /\ Goto("config", "connect")
     /\ config' = asked.net
     /\ UNCHANGED <<shared, cmd, eventTask, mode, link, scanning,
                    k210, history>>
  \/ /\ Goto("config", "reply")
     /\ status' = "DISCONNECTED"
     /\ UNCHANGED <<bits, ipInfo, cmd, eventTask, driver, k210, history>>

\* esp_wifi_connect, result ignored: a station that has or tries a connection
\* keeps it, and the call may fail for other reasons.
StartConnect ==
  /\ Goto("connect", "reply")
  /\ \/ /\ link.state = "down"
        /\ link' = [link EXCEPT !.state = "trying", !.net = config]
     \/ UNCHANGED link
  /\ UNCHANGED <<shared, cmd, eventTask, mode, config, scanning,
                 k210, history>>

StartAP ==
  /\ Goto("ap", "apmode")
  /\ status' = "CONNECTING"
  /\ UNCHANGED <<bits, ipInfo, cmd, eventTask, driver, k210, history>>

\* set_mode and set_config of the access point; each may fail.  Leaving the
\* station mode ends a connection.  Nothing sets the status any more.
EnterAP ==
  /\ Goto("apmode", "reply")
  /\ \/ /\ status' = "DISCONNECTED"
        /\ UNCHANGED <<mode, link, events>>
     \/ /\ status' \in {status, "DISCONNECTED"}
        /\ mode' = "AP"
        /\ LoseLink
  /\ UNCHANGED <<bits, ipInfo, cmd, handler, step, config, scanning,
                 k210, history>>

-----------------------------------------------------------------------------
(* The command task: scan, address, disconnect *)

\* Mutant: the bit is cleared after the scan has been started.
ScanWithLateClear ==
  \/ /\ Goto("scan", "started")
     /\ mode' = "STA"
     /\ scanning' = TRUE
     /\ UNCHANGED <<shared, cmd, eventTask, config, link, k210, history>>
  \/ /\ Goto("started", "scanned")
     /\ bits' = bits \ {"SCAN_DONE"}
     /\ UNCHANGED <<status, ipInfo, cmd, eventTask, driver, k210, history>>
  \/ /\ Goto("scanned", "reply")
     /\ "SCAN_DONE" \in bits
     /\ UNCHANGED <<shared, cmd, eventTask, driver, k210, history>>

\* scanNetworks: clear the bit, start (or fail and answer the old list), and
\* wait for the bit as long as it takes.
Scan ==
  \/ /\ Goto("scan", "started")
     /\ mode' = "STA"
     /\ bits' = bits \ {"SCAN_DONE"}
     /\ UNCHANGED <<status, ipInfo, cmd, eventTask, config, link, scanning,
                    k210, history>>
  \/ /\ Goto("started", "scanned")
     /\ scanning' = TRUE
     /\ UNCHANGED <<shared, cmd, eventTask, mode, config, link,
                    k210, history>>
  \/ /\ Goto("started", "reply")
     /\ UNCHANGED <<shared, cmd, eventTask, driver, k210, history>>
  \/ /\ Goto("scanned", "reply")
     /\ "SCAN_DONE" \in bits
     /\ UNCHANGED <<shared, cmd, eventTask, driver, k210, history>>

\* The address the network interface has now; lwIP may keep that of a lost
\* connection for some time.
InterfaceAddress ==
  IF mode # "STA" THEN {AP}
  ELSE IF link.state = "up" THEN {link.no} ELSE {0, link.no}

\* updateIpInfo: a station without the bit keeps the address it had.
UpdateIpInfo ==
  \/ /\ epc = "ip"
     /\ epc' = IF mode = "STA" /\ "CONNECTED" \notin bits THEN "reply"
               ELSE "netif"
     /\ UNCHANGED <<shared, cmd, eventTask, driver, k210, history>>
  \/ /\ Goto("netif", "reply")
     /\ ipInfo' \in InterfaceAddress
     /\ UNCHANGED <<status, bits, cmd, eventTask, driver, k210, history>>

\* disconnectWiFi
Leave ==
  /\ Goto("leave", "reply")
  /\ LoseLink
  /\ UNCHANGED <<shared, cmd, handler, step, mode, config, scanning,
                 k210, history>>

CommandTask ==
  \/ SeeBit \/ ClearBit \/ DropLink
  \/ StartStation \/ Configure \/ StartConnect
  \/ StartAP \/ EnterAP
  \/ Scan \/ UpdateIpInfo \/ Leave

-----------------------------------------------------------------------------
(* The K210.  It sends one command and waits for the answer; the answer may  *)
(* be lost, and then the call fails.                                         *)

\* No event is on its way and the driver is not trying to connect.
Calm == events = <<>> /\ handler = "none" /\ link.state # "trying"

Send(c, place) ==
  /\ kpc = "idle" /\ epc = "idle"
  /\ calls < MaxCalls
  /\ calls' = calls + 1
  /\ kpc' = "asked"
  /\ cmd' = c
  /\ epc' = place
  /\ result' = "none"
  /\ UNCHANGED <<shared, eventTask, driver, tries>>

\* esp32_spi_connect_AP and esp32_spi_wifi_starting_ap
AskConnection(c, n) ==
  /\ Send(c, "bit")
  /\ asked' = [net |-> n, calm |-> Calm, from |-> link.no]
  /\ seen' = 0

AskScan == Send("scan", "scan") /\ UNCHANGED <<asked, seen>>
AskAddress == Send("ip", "ip") /\ UNCHANGED <<asked, seen>>

\* A command of the protocol that the present driver has no function for.
AskLeave == Send("leave", "leave") /\ UNCHANGED <<asked, seen>>

Call ==
  \/ \E n \in Networks : AskConnection("begin", n)
  \/ AskConnection("beginAP", "none")
  \/ AskScan \/ AskAddress \/ AskLeave

\* The answer arrives or is lost; connect_AP goes on to poll.
Answer ==
  /\ kpc = "asked" /\ epc = "reply"
  /\ epc' = "idle"
  /\ cmd' = "none"
  /\ \/ kpc' = "idle" /\ result' = "failed" /\ UNCHANGED tries
     \/ /\ cmd # "begin"
        /\ kpc' = "idle"
        /\ result' = IF cmd = "ip" THEN "address" ELSE "ok"
        /\ UNCHANGED tries
     \/ cmd = "begin" /\ kpc' = "poll" /\ tries' = RetryTimes /\ UNCHANGED result
  /\ UNCHANGED <<shared, eventTask, driver, history>>

\* One round of connect_AP: esp32_spi_status, which answers WL_IDLE_STATUS when
\* the transfer fails.  The last round only chooses what to print.
Poll ==
  /\ kpc = "poll"
  /\ \/ /\ tries > 0 /\ status = "CONNECTED"
        /\ kpc' = "idle"
        /\ result' = "connected"
        /\ seen' = link.no
        /\ UNCHANGED tries
     \/ /\ tries > 0
        /\ tries' = tries - 1
        /\ UNCHANGED <<kpc, result, seen>>
     \/ /\ tries = 0
        /\ kpc' = "idle"
        /\ result' = "failed"
        /\ UNCHANGED <<tries, seen>>
  /\ UNCHANGED <<shared, command, eventTask, driver, asked, calls>>

\* esp32_spi_reset: the ESP32 starts afresh (WiFiClass::init).
Reset ==
  /\ kpc = "idle" /\ epc = "idle"
  /\ calls < MaxCalls
  /\ calls' = calls + 1
  /\ status' = "IDLE" /\ bits' = {} /\ ipInfo' = 0
  /\ events' = <<>> /\ handler' = "none" /\ step' = 0
  /\ mode' = "NULL" /\ config' = "none" /\ scanning' = FALSE
  /\ link' = [link EXCEPT !.state = "down", !.net = "none"]
  /\ result' = "none" /\ seen' = 0
  /\ asked' = [net |-> "none", calm |-> TRUE, from |-> link.no]
  /\ UNCHANGED <<command, kpc, tries>>

K210 == Call \/ Answer \/ Poll \/ Reset
Driver == LinkComesUp \/ LinkGoesDown \/ ScanEnds

Next == EventTask \/ CommandTask \/ Driver \/ K210

Spec == Init /\ [][Next]_vars

\* Both tasks of the ESP32 and the K210's call go on, and a scan ends.
\* Nothing is said about connections.
Fairness ==
  /\ WF_vars(EventTask)
  /\ WF_vars(CommandTask)
  /\ WF_vars(Answer \/ Poll)
  /\ WF_vars(ScanEnds)

FairSpec == Spec /\ Fairness

-----------------------------------------------------------------------------
(* Properties *)

TypeOK ==
  /\ status \in {"IDLE", "CONNECTING", "CONNECTED", "DISCONNECTED"}
  /\ bits \subseteq {"CONNECTED", "DISCONNECTED", "SCAN_DONE"}
  /\ ipInfo \in 0 .. AP
  /\ cmd \in {"none", "begin", "beginAP", "scan", "ip", "leave"}
  /\ epc \in {"idle", "bit", "clear", "drop", "mode", "config", "connect",
              "ap", "apmode", "scan", "started", "scanned", "ip", "netif",
              "leave", "reply"}
  /\ events \in Seq({"got_ip", "disconnected", "scan_done"})
  /\ handler \in {"none", "got_ip", "disconnected", "scan_done"}
  /\ step \in 0 .. 3
  /\ mode \in {"NULL", "STA", "AP"}
  /\ config \in Networks \union {"none"}
  /\ link \in [state : {"down", "trying", "up"},
               net : Networks \union {"none"}, no : 0 .. MaxLinks]
  /\ scanning \in BOOLEAN
  /\ kpc \in {"idle", "asked", "poll"}
  /\ tries \in 0 .. RetryTimes
  /\ result \in {"none", "ok", "failed", "connected", "address"}
  /\ asked \in [net : Networks \union {"none"}, calm : BOOLEAN,
                from : 0 .. MaxLinks]
  /\ seen \in 0 .. MaxLinks
  /\ calls \in 0 .. MaxCalls

\* A connect_AP that returns true has a new connection to the network it asked
\* for, although _status is written by the events of the old connection too.
\* It must have been called with no event and no attempt pending: the events
\* of an earlier, unfinished attempt are taken for those of this one.
ConnectSound ==
  (result = "connected" /\ asked.calm) =>
    link.net = asked.net /\ link.no > asked.from

AtRest == events = <<>> /\ handler = "none" /\ epc = "idle" /\ link.state # "trying"

\* When both tasks have nothing left to do, the event bits tell whether there
\* is a connection, however their stores were interleaved, and _status does
\* not claim one that is gone.  It knows of the one there is, unless the
\* command that made it ran while the events of an earlier one were handled:
\* its store of WL_CONNECTING may then come last.
StatusSettles ==
  AtRest =>
    /\ ("CONNECTED" \in bits) <=> (link.state = "up")
    /\ ("DISCONNECTED" \in bits) => (link.state = "down")
    /\ status = "CONNECTED" => link.state = "up"
    /\ (link.state = "up" /\ asked.calm) => status = "CONNECTED"

\* After connect_AP has returned true and while that connection lasts, the
\* address answered is that connection's and not one kept from an earlier one.
AddressIsOfThisLink ==
  (result = "address" /\ asked.calm /\ seen = link.no /\ link.state = "up") =>
    ipInfo = link.no

\* Every call of the K210 returns; scanNetworks waits without a time limit, so
\* this needs the bit of its own scan never to be lost.
EveryCallReturns == (kpc # "idle") ~> (kpc = "idle")
=============================================================================
