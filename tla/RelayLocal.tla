----------------------------- MODULE RelayLocal -----------------------------
(***************************************************************************)
(* xRelayLocalBindingService (lib_component/relay_local_device_service):   *)
(* the relay service that makes its connections itself, from addresses of  *)
(* the local machine.  The proxy asks for a connection to a target by name *)
(* or by address and gets the answer through a future; a name goes to the  *)
(* dns service first, through a future of the relay's own.                 *)
(*                                                                         *)
(* The proxy is there in the little the relay sees of it: its connections  *)
(* (live, marked, gone), the futures they wait with and the ids they were  *)
(* told.  It asks for one connection at most for each of its own           *)
(* (LocalProxy!RelaySeesProxy), so a connection of the relay is named      *)
(* by the proxy connection it is for, and no id is used twice.             *)
(*                                                                         *)
(* phase = "io" between Ticks, or the loop of Tick that is running.        *)
(***************************************************************************)
EXTENDS Naturals, FiniteSets

CONSTANTS
    Client,        \* proxy side connection ids
    Channel,       \* udp channel ids of the relay
    MaxDns,        \* MAX_DNS_FUTURE_COUNT
    MaxConnection, \* size of LocalConnectionPool
    IdleTimeout,   \* IDLE_CONNECTION_TIMEOUT_MS, in clock steps
    Assertions     \* FALSE: built with NDEBUG

ASSUME RelayAssumption ==
    /\ Client \cap Channel = {}
    /\ Assertions \in BOOLEAN
    /\ MaxDns \in Nat /\ MaxConnection \in Nat /\ IdleTimeout \in Nat \ {0}

VARIABLES
    phase,
    proxy,      \* the proxy's connection: "live", "marked" or "gone"
    request,    \* the future it asks for a connection with, as in Question
    known,      \* clients that were told the id of their relay connection
    dns,        \* the relay's dns futures
    connection, \* LocalConnectionPool
    channel,    \* LocalUdpChannelPool
    place, ahead, age   \* the timeout lists

INSTANCE TimeoutList WITH
    Node <- Client \cup Channel, MaxAge <- IdleTimeout,
    ListName <- {"idle", "kill", "udpIdle", "udpKill"}

listVars == <<place, ahead, age>>
vars == <<phase, proxy, request, known, dns, connection, channel, listVars>>

\* A place of the pool before a connection, when one was just started, and after it;
\* waits: CreateConnectionFutureHandle is set.
ConnectionAs(s) == [state |-> s, connected |-> FALSE, open |-> s = "live",
                    waits |-> s = "live", DeleteMark |-> FALSE]

Init ==
    /\ phase = "io"
    /\ proxy = [c \in Client |-> "live"]
    /\ request = [c \in Client |-> "unasked"]
    /\ known = {}
    /\ dns = [c \in Client |-> "none"]
    /\ connection = [c \in Client |-> ConnectionAs("unused")]
    /\ channel = [h \in Channel |-> [state |-> "unused", DeleteMark |-> FALSE]]
    /\ ListInit

\* The assertion of OnData failed.
Aborted == phase = "aborted"

Live(c) == connection[c].state = "live"

\* CreateConnectionFutureHandle.Get: the future, if who asked still waits for it.
Waiting(c) == request[c] = "pending"

-----------------------------------------------------------------------------
(* Effects.                                                                *)

\* LocalConnectionPool.Acquire and Connection.Init: on no list, no timeout runs.
ConnectStarted(c) ==
    /\ Cardinality({d \in Client : Live(d)}) < MaxConnection
    /\ connection' = [connection EXCEPT ![c] = ConnectionAs("live")]

\* KeepAlive of a connection or of a udp channel.
KeepAlive(n, marked, list) ==
    IF marked THEN UNCHANGED listVars ELSE StampAndGrabTail(n, list)

\* Mutant: the future is forgotten.
DestroyedSilently(c, closed) ==
    /\ connection' = [connection EXCEPT ![c].DeleteMark = TRUE, ![c].waits = FALSE,
                                        ![c].open = @ /\ ~closed]
    /\ UNCHANGED request
    /\ IF connection[c].DeleteMark THEN UNCHANGED listVars ELSE GrabTail(c, "kill")

\* DeferDestroyConnection: a question that is still open fails.
DeferDestroyConnection(c, closed) ==
    /\ connection' = [connection EXCEPT ![c].DeleteMark = TRUE, ![c].waits = FALSE,
                                        ![c].open = @ /\ ~closed]
    /\ request' = IF ~connection[c].DeleteMark /\ connection[c].waits /\ Waiting(c)
                  THEN [request EXCEPT ![c] = "fail"] ELSE request
    /\ IF connection[c].DeleteMark THEN UNCHANGED listVars ELSE GrabTail(c, "kill")

DeferDestroyUdpChannel(h) ==
    /\ channel' = [channel EXCEPT ![h].DeleteMark = TRUE]
    /\ GrabTail(h, "udpKill")

-----------------------------------------------------------------------------
(* Calls of the proxy.                                                     *)

Asks(c) == phase = "io" /\ proxy[c] # "gone" /\ request[c] = "unasked"

\* CreateConnection by name.  No free dns future, or a query that the dns service
\* refuses, fails at once; a cached name is ready at once.
QueryStarted(c, answer) ==
    /\ \/ /\ Cardinality({d \in Client : dns[d] # "none"}) < MaxDns
          /\ dns' = [dns EXCEPT ![c] = answer]
          /\ request' = [request EXCEPT ![c] = "pending"]
       \/ request' = [request EXCEPT ![c] = "fail"] /\ UNCHANGED dns
    /\ UNCHANGED <<phase, proxy, known, connection, channel, listVars>>

CreateConnectionByName(c, answer) == Asks(c) /\ QueryStarted(c, answer)

\* CreateConnection by address: no such device, a full pool, a socket error fail.
ConnectStartedOrFailed(c) ==
    /\ \/ ConnectStarted(c) /\ request' = [request EXCEPT ![c] = "pending"]
       \/ request' = [request EXCEPT ![c] = "fail"] /\ UNCHANGED connection
    /\ UNCHANGED <<phase, proxy, known, dns, channel, listVars>>

CreateConnectionByAddress(c) == Asks(c) /\ ConnectStartedOrFailed(c)

\* The proxy's Tick picks the answer up and releases the future.
TakeResult(c) ==
    /\ phase = "io"
    /\ request[c] \in {"fail", "ok"}
    /\ request' = [request EXCEPT ![c] = "done"]
    /\ known' = IF request[c] = "ok" THEN known \cup {c} ELSE known
    /\ UNCHANGED <<phase, proxy, dns, connection, channel, listVars>>

\* The client closes: the proxy calls DestroyConnection if it knows the id, which
\* clears the handle before it destroys.
ProxyPeerClose(c) ==
    /\ phase = "io"
    /\ proxy[c] = "live"
    /\ proxy' = [proxy EXCEPT ![c] = "marked"]
    /\ IF c \in known /\ Live(c) THEN DeferDestroyConnection(c, FALSE)
                                 ELSE UNCHANGED <<connection, request, listVars>>
    /\ UNCHANGED <<phase, known, dns, channel>>

\* The proxy gives its connection up without a word to the relay: the client sent what
\* it may not, or the connection was idle for too long.
ProxyMarks(c) ==
    /\ phase = "io"
    /\ proxy[c] = "live"
    /\ proxy' = [proxy EXCEPT ![c] = "marked"]
    /\ UNCHANGED <<phase, request, known, dns, connection, channel, listVars>>

\* The proxy's connection ends, by whatever timeout or close; the relay is not told.
ProxyDestroyed(c) ==
    /\ phase = "io"
    /\ proxy[c] # "gone"
    /\ proxy' = [proxy EXCEPT ![c] = "gone"]
    /\ request' = [request EXCEPT ![c] = IF @ = "unasked" THEN @ ELSE "done"]
    /\ UNCHANGED <<phase, known, dns, connection, channel, listVars>>

\* Udp channels: made at once, never listed before KeepUdpChannelAlive or
\* DestroyUdpChannel.
CreateUdpChannel(h) ==
    /\ phase = "io"
    /\ channel[h].state = "unused"
    /\ channel' = [channel EXCEPT ![h].state = "live"]
    /\ UNCHANGED <<phase, proxy, request, known, dns, connection, listVars>>

DestroyUdpChannel(h) ==
    /\ phase = "io"
    /\ channel[h].state = "live"
    /\ DeferDestroyUdpChannel(h)
    /\ UNCHANGED <<phase, proxy, request, known, dns, connection>>

KeepUdpChannelAlive(h) ==
    /\ phase = "io"
    /\ channel[h].state = "live"
    /\ KeepAlive(h, channel[h].DeleteMark, "udpIdle")
    /\ UNCHANGED <<phase, proxy, request, known, dns, connection, channel>>

\* PostData for a relay connection: anything else than this is dropped without a
\* word, and data of the client keeps nothing alive.
TakesData(c) == Live(c) /\ ~connection[c].DeleteMark /\ connection[c].connected

\* AcquireDevice answers before it returns: a device of the local table or none.
\* The device it names is of relay server 0.
AcquireDevice == {"ok", "fail"}
LocalServerId == 0

-----------------------------------------------------------------------------
(* Events of the dns service and of the sockets.                           *)

DnsAnswered(c, answer) ==
    /\ phase = "io"
    /\ dns[c] = "pending"
    /\ dns' = [dns EXCEPT ![c] = answer]
    /\ UNCHANGED <<phase, proxy, request, known, connection, channel, listVars>>

SocketEvent(c) == phase = "io" /\ Live(c) /\ connection[c].open

\* Mutant: a connection nobody waits for is reported all the same.
ReportedAnyway(c) == [request EXCEPT ![c] = "ok"]

Reported(c) == IF Waiting(c) THEN [request EXCEPT ![c] = "ok"] ELSE request

\* Mutant: the connection that was reported is on no list.
OnConnectedUnlisted(c) ==
    /\ SocketEvent(c)
    /\ ~connection[c].connected
    /\ connection' = [connection EXCEPT ![c].connected = TRUE, ![c].waits = FALSE]
    /\ request' = IF connection[c].waits THEN Reported(c) ELSE request
    /\ UNCHANGED <<phase, proxy, known, dns, channel, listVars>>

\* If nobody waits any more the connection stays, on no list.
OnConnected(c) ==
    /\ SocketEvent(c)
    /\ ~connection[c].connected
    /\ connection' = [connection EXCEPT ![c].connected = TRUE, ![c].waits = FALSE]
    /\ request' = IF connection[c].waits THEN Reported(c) ELSE request
    /\ IF connection[c].waits /\ Waiting(c)
       THEN KeepAlive(c, connection[c].DeleteMark, "idle") ELSE UNCHANGED listVars
    /\ UNCHANGED <<phase, proxy, known, dns, channel>>

\* The target closed, or the connect failed.  CloseConnection marks the proxy's
\* connection, if there is one.
OnPeerClose(c) ==
    /\ SocketEvent(c)
    /\ proxy' = [proxy EXCEPT ![c] = IF @ = "live" THEN "marked" ELSE @]
    /\ DeferDestroyConnection(c, TRUE)
    /\ UNCHANGED <<phase, known, dns, channel>>

\* ProxyService->PostData: the proxy asserts that the connection the data is for
\* no longer waits for the answer of CreateConnection.
OnData(c) ==
    /\ SocketEvent(c)
    /\ connection[c].connected
    /\ ~connection[c].DeleteMark
    /\ KeepAlive(c, FALSE, "idle")
    /\ phase' = IF Assertions /\ proxy[c] = "live" /\ request[c] \in {"pending", "ok"}
                THEN "aborted" ELSE phase
    /\ UNCHANGED <<proxy, request, known, dns, connection, channel>>

-----------------------------------------------------------------------------
(* Tick.                                                                   *)

TickBegin(d) ==
    /\ phase = "io"
    /\ Elapse(d)
    /\ phase' = "dns"
    /\ UNCHANGED <<proxy, request, known, dns, connection, channel>>

\* Mutant: a name that was not found is not an answer.
ResolvedOnly(c) ==
    \/ dns[c] = "ok" /\ ConnectStarted(c) /\ UNCHANGED request
    \/ UNCHANGED <<request, connection>>

\* CreateConnectionWithDnsResult: no address of the device's family, a full pool or
\* a socket error fail the question.
Resolved(c) ==
    \/ dns[c] = "ok" /\ ConnectStarted(c) /\ UNCHANGED request
    \/ request' = [request EXCEPT ![c] = "fail"] /\ UNCHANGED connection

ProcessDnsResult(c) ==
    /\ phase = "dns"
    /\ dns[c] \in {"ok", "fail"}
    /\ dns' = [dns EXCEPT ![c] = "none"]
    /\ IF Waiting(c) THEN Resolved(c) ELSE UNCHANGED <<request, connection>>
    /\ UNCHANGED <<phase, proxy, known, channel, listVars>>

Expired(n, list) == IsHead(n, list) /\ age[n] >= IdleTimeout

DeferDestroyIdleConnection(c) ==
    /\ phase = "idle"
    /\ Expired(c, "idle")
    /\ DeferDestroyConnection(c, FALSE)
    /\ UNCHANGED <<phase, proxy, known, dns, channel>>

DeferDestroyIdleUdpChannel(h) ==
    /\ phase = "udpIdle"
    /\ Expired(h, "udpIdle")
    /\ DeferDestroyUdpChannel(h)
    /\ UNCHANGED <<phase, proxy, request, known, dns, connection>>

CleanDyingConnection(c) ==
    /\ phase = "kill"
    /\ IsHead(c, "kill")
    /\ connection' = [connection EXCEPT ![c] = ConnectionAs("gone")]
    /\ Unlink(c)
    /\ UNCHANGED <<phase, proxy, request, known, dns, channel>>

CleanDyingUdpChannel(h) ==
    /\ phase = "udpKill"
    /\ IsHead(h, "udpKill")
    /\ channel' = [channel EXCEPT ![h] = [state |-> "gone", DeleteMark |-> FALSE]]
    /\ Unlink(h)
    /\ UNCHANGED <<phase, proxy, request, known, dns, connection>>

Loop == [dns |-> "idle", idle |-> "udpIdle", udpIdle |-> "kill", kill |-> "udpKill",
         udpKill |-> "io"]

Following(p) == Loop[p]

LoopDone ==
    CASE phase = "dns" -> \A c \in Client : dns[c] \notin {"ok", "fail"}
      [] phase \in {"kill", "udpKill"} -> Members(phase) = {}
      [] OTHER -> \A n \in Client \cup Channel : ~Expired(n, phase)

EndLoop ==
    /\ phase \notin {"io", "aborted"}
    /\ LoopDone
    /\ phase' = Following(phase)
    /\ UNCHANGED <<proxy, request, known, dns, connection, channel, listVars>>

-----------------------------------------------------------------------------

Proxy(c) ==
    \/ \E answer \in {"pending", "ok", "fail"} : CreateConnectionByName(c, answer)
    \/ CreateConnectionByAddress(c)
    \/ TakeResult(c) \/ ProxyPeerClose(c) \/ ProxyMarks(c) \/ ProxyDestroyed(c)

Udp(h) == CreateUdpChannel(h) \/ DestroyUdpChannel(h) \/ KeepUdpChannelAlive(h)

Event(c) ==
    \/ \E answer \in {"ok", "fail"} : DnsAnswered(c, answer)
    \/ OnConnected(c) \/ OnPeerClose(c) \/ OnData(c)

Tick ==
    \/ \E d \in {0, 1} : TickBegin(d)
    \/ \E c \in Client :
          ProcessDnsResult(c) \/ DeferDestroyIdleConnection(c) \/ CleanDyingConnection(c)
    \/ \E h \in Channel : DeferDestroyIdleUdpChannel(h) \/ CleanDyingUdpChannel(h)
    \/ EndLoop

Next ==
    \/ \E c \in Client : Proxy(c) \/ Event(c)
    \/ \E h \in Channel : Udp(h)
    \/ Tick

\* The event loop calls Tick again and again and the clock advances; the dns service
\* answers (DnsLocal!QuestionsAnswered) and the kernel ends every connect.
Fairness ==
    /\ SF_vars(TickBegin(1)) /\ WF_vars(phase # "io" /\ Tick)
    /\ \A c \in Client :
          /\ SF_vars(\E answer \in {"ok", "fail"} : DnsAnswered(c, answer))
          /\ SF_vars(~connection[c].connected /\ (OnConnected(c) \/ OnPeerClose(c)))

Spec == Init /\ [][Next]_vars
FairSpec == Spec /\ Fairness

-----------------------------------------------------------------------------
(* Properties.                                                             *)

\* No question is forgotten: while the proxy waits for a connection there is either a
\* dns query or a connect under way, whose end will answer it.
QuestionBacked ==
    \A c \in Client : Waiting(c) =>
        \/ dns[c] # "none"
        \/ Live(c) /\ connection[c].waits /\ ~connection[c].DeleteMark

\* A connection is unlisted, so that no timeout ends it, only while it connects, or
\* if nobody was left to be told when it did; a marked one waits for its end; and
\* one the proxy was told of is on a list until then.
RelayPlacement ==
    /\ \A c \in Client :
          /\ place[c] = "kill" <=> Live(c) /\ connection[c].DeleteMark
          /\ place[c] = "idle" => connection[c].connected
          /\ Live(c) /\ place[c] = "none" =>
                ~connection[c].connected \/ (request[c] = "done" /\ c \notin known)
    /\ \A h \in Channel : place[h] = "udpKill" <=> channel[h].DeleteMark

\* The relay keeps to the protocol of futures: each question is answered once, by
\* whichever of the dns query, the connect, the close and the pool comes first, and
\* an answer never reaches a proxy connection that is gone.
Futures == INSTANCE Question WITH Asker <- Client, question <- request
KeepsProtocol == Futures!Spec

\* Every question for a connection is answered, or its asker goes.
QuestionsAnswered ==
    \A c \in Client : request[c] = "pending" ~> request[c] # "pending" \/ Aborted

\* pa_service.cpp:1302 "SHOULD NOT HAPPEN: post data before
\* AcquireDeviceConnectionResult".
NoDataBeforeResult == ~Aborted
=============================================================================
