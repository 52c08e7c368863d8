-------------------------- MODULE RelayLocalProofs --------------------------
(***************************************************************************)
(* For any connections of the proxy, any udp channels and any pools: no    *)
(* question of the proxy is forgotten or answered twice, and a connection  *)
(* is on the list that its end depends on.                                 *)
(***************************************************************************)
EXTENDS RelayLocal, TLAPS

-----------------------------------------------------------------------------
(* The invariant.                                                          *)

ConnectionRecord == [state : {"unused", "live", "gone"}, connected : BOOLEAN,
                     open : BOOLEAN, waits : BOOLEAN, DeleteMark : BOOLEAN]

ChannelRecord == [state : {"unused", "live", "gone"}, DeleteMark : BOOLEAN]

TypeOK ==
    /\ request \in [Client -> {"unasked", "pending", "ok", "fail", "done"}]
    /\ known \in SUBSET Client
    /\ dns \in [Client -> {"none", "pending", "ok", "fail"}]
    /\ connection \in [Client -> ConnectionRecord]
    /\ channel \in [Channel -> ChannelRecord]
    /\ place \in [Client \cup Channel -> {"none", "idle", "kill", "udpIdle", "udpKill"}]

\* The way of one question: first a dns query, perhaps, then a connect, and only what
\* was connected is made known.
QuestionInOrder(c) ==
    /\ dns[c] # "none" => /\ connection[c].state = "unused"
                          /\ request[c] \in {"pending", "done"} /\ c \notin known
    /\ connection[c].state # "unused" => request[c] # "unasked"
    /\ connection[c].waits => /\ Live(c) /\ ~connection[c].connected /\ ~connection[c].DeleteMark
                              /\ request[c] \in {"pending", "done"} /\ c \notin known
    /\ Live(c) /\ ~connection[c].connected /\ ~connection[c].waits => connection[c].DeleteMark
    /\ c \in known => request[c] = "done"
    /\ ~Live(c) => place[c] = "none"

IInv == TypeOK /\ (\A c \in Client : QuestionInOrder(c)) /\ QuestionBacked /\ RelayPlacement

USE RelayAssumption

\* Nobody has asked for a connection yet.
LEMMA InitIInv == Init => IInv
  <1>1. /\ ConnectionAs("unused") \in ConnectionRecord
        /\ ConnectionAs("unused").state = "unused" /\ ~ConnectionAs("unused").waits
        /\ ~ConnectionAs("unused").DeleteMark
    BY DEF ConnectionAs, ConnectionRecord
  <1>2. Init => TypeOK
    <2>1. [state |-> "unused", DeleteMark |-> FALSE] \in ChannelRecord
      BY DEF ChannelRecord
    <2>2. QED BY <1>1, <2>1 DEF Init, ListInit, TypeOK
  <1> QED
    BY <1>1, <1>2
    DEF Init, ListInit, IInv, QuestionInOrder, QuestionBacked, RelayPlacement, Live, Waiting

\* A step that changes only what belongs to one connection of the proxy keeps the
\* invariant if it keeps it for that one.
LEMMA OneClient ==
  ASSUME IInv, TypeOK', NEW c \in Client,
         \A d \in Client \ {c} :
            /\ request'[d] = request[d] /\ dns'[d] = dns[d] /\ connection'[d] = connection[d]
            /\ place'[d] = place[d] /\ (d \in known' <=> d \in known),
         \A h \in Channel : channel'[h] = channel[h] /\ place'[h] = place[h],
         QuestionInOrder(c)',
         Waiting(c)' => \/ dns'[c] # "none"
                        \/ Live(c)' /\ connection'[c].waits /\ ~connection'[c].DeleteMark,
         place'[c] = "kill" <=> Live(c)' /\ connection'[c].DeleteMark,
         place'[c] = "idle" => connection'[c].connected,
         Live(c)' /\ place'[c] = "none" =>
            ~connection'[c].connected \/ (request'[c] = "done" /\ c \notin known')
  PROVE  IInv'
  <1>1. \A d \in Client : QuestionInOrder(d)'
    BY DEF IInv, QuestionInOrder, Live
  <1>2. QuestionBacked'
    BY DEF IInv, QuestionBacked, Waiting, Live
  <1>3. RelayPlacement'
    BY DEF IInv, RelayPlacement, Live
  <1> QED
    BY <1>1, <1>2, <1>3 DEF IInv

-----------------------------------------------------------------------------
(* The steps.                                                              *)

\* CreateConnection: a name is looked up, an address is connected, or the pool refuses.
LEMMA AskKeeps ==
  ASSUME IInv, NEW c \in Client,
         \/ \E answer \in {"pending", "ok", "fail"} : CreateConnectionByName(c, answer)
         \/ CreateConnectionByAddress(c)
  PROVE  IInv'
  <1>1. /\ request[c] = "unasked" /\ UNCHANGED <<known, channel, place>>
        /\ \/ /\ \E answer \in {"pending", "ok", "fail"} : dns' = [dns EXCEPT ![c] = answer]
              /\ request' = [request EXCEPT ![c] = "pending"] /\ UNCHANGED connection
           \/ /\ connection' = [connection EXCEPT ![c] = ConnectionAs("live")]
              /\ request' = [request EXCEPT ![c] = "pending"] /\ UNCHANGED dns
           \/ request' = [request EXCEPT ![c] = "fail"] /\ UNCHANGED <<connection, dns>>
    BY DEF CreateConnectionByName, CreateConnectionByAddress, Asks, QueryStarted,
           ConnectStartedOrFailed, ConnectStarted, listVars
  <1>2. /\ ConnectionAs("live") \in ConnectionRecord
        /\ ConnectionAs("live").state = "live" /\ ~ConnectionAs("live").connected
        /\ ConnectionAs("live").waits /\ ~ConnectionAs("live").DeleteMark
    BY DEF ConnectionAs, ConnectionRecord
  <1>3. TypeOK'
    BY <1>1, <1>2 DEF IInv, TypeOK
  <1>4. connection[c].state = "unused" /\ dns[c] = "none" /\ c \notin known /\ place[c] = "none"
        /\ ~connection[c].waits
    BY <1>1 DEF IInv, TypeOK, QuestionInOrder, Live
  <1> QED
    BY <1>1, <1>2, <1>3, <1>4, OneClient DEF IInv, TypeOK, QuestionInOrder, Live, Waiting

\* The proxy reads an answer, which is then no longer open.
LEMMA TakeResultKeeps == ASSUME IInv, NEW c \in Client, TakeResult(c) PROVE IInv'
  <1>1. TypeOK'
    BY DEF TakeResult, IInv, TypeOK, listVars
  <1> QED
    BY <1>1, OneClient
    DEF TakeResult, IInv, TypeOK, QuestionInOrder, RelayPlacement, Live, Waiting, listVars

\* The proxy's connection ends, and whatever it waited for is not waited for any more.
LEMMA ProxyDestroyedKeeps == ASSUME IInv, NEW c \in Client, ProxyDestroyed(c) PROVE IInv'
  <1>1. TypeOK'
    BY DEF ProxyDestroyed, IInv, TypeOK, listVars
  <1> QED
    BY <1>1, OneClient
    DEF ProxyDestroyed, IInv, TypeOK, QuestionInOrder, RelayPlacement, Live, Waiting, listVars

\* DeferDestroyConnection, by whomever it is called.
LEMMA DestroyKeeps ==
  ASSUME IInv, NEW c \in Client, NEW closed \in BOOLEAN, Live(c),
         DeferDestroyConnection(c, closed), UNCHANGED <<known, dns, channel>>
  PROVE  IInv'
  <1>1. /\ connection' = [connection EXCEPT ![c].DeleteMark = TRUE, ![c].waits = FALSE,
                                            ![c].open = @ /\ ~closed]
        /\ request' = IF ~connection[c].DeleteMark /\ connection[c].waits /\ Waiting(c)
                      THEN [request EXCEPT ![c] = "fail"] ELSE request
        /\ place' = [place EXCEPT ![c] = "kill"]
    BY DEF DeferDestroyConnection, GrabTail, listVars, IInv, TypeOK, RelayPlacement
  <1>2. TypeOK'
    <2>1. connection' \in [Client -> ConnectionRecord]
      <3>1. connection \in [Client -> ConnectionRecord] /\ connection[c] \in ConnectionRecord
        BY DEF IInv, TypeOK
      <3>2. connection' = [connection EXCEPT ![c] = [connection[c] EXCEPT !.DeleteMark = TRUE, !.waits = FALSE, !.open = @ /\ ~closed]]
        BY <1>1, <3>1
      <3>3. [connection[c] EXCEPT !.DeleteMark = TRUE, !.waits = FALSE, !.open = @ /\ ~closed]
              \in ConnectionRecord
        BY <3>1 DEF ConnectionRecord
      <3>4. QED BY <3>1, <3>2, <3>3
    <2>2. request' \in [Client -> {"unasked", "pending", "ok", "fail", "done"}]
      BY <1>1 DEF IInv, TypeOK
    <2>3. QED BY <1>1, <2>1, <2>2 DEF IInv, TypeOK
  <1>3. request'[c] # "pending"
    BY <1>1 DEF IInv, TypeOK, QuestionBacked, QuestionInOrder, Waiting, Live
  <1>4. connection'[c] = [connection[c] EXCEPT !.DeleteMark = TRUE, !.waits = FALSE,
                                               !.open = @ /\ ~closed]
    BY <1>1 DEF IInv, TypeOK
  <1> QED
    BY <1>1, <1>2, <1>3, <1>4, OneClient
    DEF IInv, TypeOK, QuestionInOrder, QuestionBacked, RelayPlacement, Live, Waiting

\* The socket is connected: who waits is answered, and it goes to the idle list.
LEMMA OnConnectedKeeps == ASSUME IInv, NEW c \in Client, OnConnected(c) PROVE IInv'
  <1>1. /\ Live(c) /\ ~connection[c].connected
        /\ connection' = [connection EXCEPT ![c].connected = TRUE, ![c].waits = FALSE]
        /\ request' = IF connection[c].waits /\ Waiting(c)
                      THEN [request EXCEPT ![c] = "ok"] ELSE request
        /\ place' = IF connection[c].waits /\ Waiting(c)
                    THEN [place EXCEPT ![c] = "idle"] ELSE place
        /\ UNCHANGED <<known, dns, channel>>
    BY DEF OnConnected, SocketEvent, Reported, KeepAlive, StampAndGrabTail, listVars,
           IInv, QuestionInOrder
  <1>2. TypeOK'
    <2>1. connection' \in [Client -> ConnectionRecord]
      <3>1. connection \in [Client -> ConnectionRecord] /\ connection[c] \in ConnectionRecord
        BY DEF IInv, TypeOK
      <3>2. connection' = [connection EXCEPT ![c] = [connection[c] EXCEPT !.connected = TRUE, !.waits = FALSE]]
        BY <1>1, <3>1
      <3>3. [connection[c] EXCEPT !.connected = TRUE, !.waits = FALSE]
              \in ConnectionRecord
        BY <3>1 DEF ConnectionRecord
      <3>4. QED BY <3>1, <3>2, <3>3
    <2>2. request' \in [Client -> {"unasked", "pending", "ok", "fail", "done"}]
      BY <1>1 DEF IInv, TypeOK
    <2>3. QED BY <1>1, <2>1, <2>2 DEF IInv, TypeOK
  <1>3. connection'[c] = [connection[c] EXCEPT !.connected = TRUE, !.waits = FALSE]
    BY <1>1 DEF IInv, TypeOK
  <1> QED
    BY <1>1, <1>2, <1>3, OneClient
    DEF IInv, TypeOK, QuestionInOrder, QuestionBacked, RelayPlacement, Live, Waiting

\* Data keeps a connection alive that is connected.
LEMMA OnDataKeeps == ASSUME IInv, NEW c \in Client, OnData(c) PROVE IInv'
  <1>1. /\ Live(c) /\ connection[c].connected /\ ~connection[c].DeleteMark
        /\ place' = [place EXCEPT ![c] = "idle"]
        /\ UNCHANGED <<request, known, dns, connection, channel>>
    BY DEF OnData, SocketEvent, KeepAlive, StampAndGrabTail
  <1>2. TypeOK'
    BY <1>1 DEF IInv, TypeOK
  <1> QED
    BY <1>1, <1>2, OneClient
    DEF IInv, TypeOK, QuestionInOrder, QuestionBacked, RelayPlacement, Live, Waiting

\* The relay reads what a name was resolved to, and connects if somebody still waits.
LEMMA ProcessDnsResultKeeps == ASSUME IInv, NEW c \in Client, ProcessDnsResult(c) PROVE IInv'
  <1>1. /\ dns[c] # "none" /\ dns' = [dns EXCEPT ![c] = "none"]
        /\ UNCHANGED <<known, channel, place>>
        /\ \/ /\ Waiting(c) /\ connection' = [connection EXCEPT ![c] = ConnectionAs("live")]
              /\ UNCHANGED request
           \/ /\ Waiting(c) /\ request' = [request EXCEPT ![c] = "fail"] /\ UNCHANGED connection
           \/ ~Waiting(c) /\ UNCHANGED <<request, connection>>
    BY DEF ProcessDnsResult, Resolved, ConnectStarted, listVars
  <1>2. /\ ConnectionAs("live") \in ConnectionRecord
        /\ ConnectionAs("live").state = "live" /\ ~ConnectionAs("live").connected
        /\ ConnectionAs("live").waits /\ ~ConnectionAs("live").DeleteMark
    BY DEF ConnectionAs, ConnectionRecord
  <1>3. TypeOK'
    BY <1>1, <1>2 DEF IInv, TypeOK
  <1> QED
    BY <1>1, <1>2, <1>3, OneClient
    DEF IInv, TypeOK, QuestionInOrder, QuestionBacked, RelayPlacement, Live, Waiting

\* The dns service answers a query.
LEMMA DnsAnsweredKeeps ==
  ASSUME IInv, NEW c \in Client, NEW answer \in {"ok", "fail"}, DnsAnswered(c, answer)
  PROVE  IInv'
  <1>1. TypeOK'
    BY DEF DnsAnswered, IInv, TypeOK, listVars
  <1> QED
    BY <1>1, OneClient
    DEF DnsAnswered, IInv, TypeOK, QuestionInOrder, QuestionBacked, RelayPlacement, Live, Waiting,
        listVars

\* A marked connection is destroyed.
LEMMA CleanDyingConnectionKeeps ==
  ASSUME IInv, NEW c \in Client, CleanDyingConnection(c)
  PROVE  IInv'
  <1>1. /\ connection' = [connection EXCEPT ![c] = ConnectionAs("gone")]
        /\ place[c] = "kill" /\ place' = [place EXCEPT ![c] = "none"]
        /\ UNCHANGED <<request, known, dns, channel>>
    BY DEF CleanDyingConnection, IsHead, Unlink
  <1>2. /\ ConnectionAs("gone") \in ConnectionRecord
        /\ ConnectionAs("gone").state = "gone" /\ ~ConnectionAs("gone").waits
        /\ ~ConnectionAs("gone").DeleteMark
    BY DEF ConnectionAs, ConnectionRecord
  <1>3. TypeOK'
    BY <1>1, <1>2 DEF IInv, TypeOK
  <1> QED
    BY <1>1, <1>2, <1>3, OneClient
    DEF IInv, TypeOK, QuestionInOrder, QuestionBacked, RelayPlacement, Live, Waiting

\* Nothing of the connections changes.
LEMMA UdpKeeps ==
  ASSUME IInv, NEW h \in Channel,
         Udp(h) \/ DeferDestroyIdleUdpChannel(h) \/ CleanDyingUdpChannel(h)
  PROVE  IInv'
  <1>1. /\ UNCHANGED <<request, known, dns, connection>>
        /\ \/ channel' = [channel EXCEPT ![h].state = "live"] /\ UNCHANGED place
           \/ /\ channel' = [channel EXCEPT ![h].DeleteMark = TRUE]
              /\ place' = [place EXCEPT ![h] = "udpKill"]
           \/ UNCHANGED <<channel, place>>
           \/ /\ ~channel[h].DeleteMark /\ place' = [place EXCEPT ![h] = "udpIdle"]
              /\ UNCHANGED channel
           \/ /\ channel' = [channel EXCEPT ![h] = [state |-> "gone", DeleteMark |-> FALSE]]
              /\ place' = [place EXCEPT ![h] = "none"]
    BY DEF Udp, CreateUdpChannel, DestroyUdpChannel, KeepUdpChannelAlive, KeepAlive,
           DeferDestroyIdleUdpChannel, CleanDyingUdpChannel, DeferDestroyUdpChannel,
           StampAndGrabTail, GrabTail, Unlink, listVars
  <1>2. /\ channel \in [Channel -> ChannelRecord] /\ channel[h] \in ChannelRecord
        /\ place \in [Client \cup Channel -> {"none", "idle", "kill", "udpIdle", "udpKill"}]
        /\ \A g \in Channel : place[g] = "udpKill" <=> channel[g].DeleteMark
    BY DEF IInv, TypeOK, RelayPlacement
  <1>3. \E r \in ChannelRecord :
           /\ channel' = [channel EXCEPT ![h] = r]
           /\ place'[h] = "udpKill" <=> r.DeleteMark
    <2>1. CASE channel' = [channel EXCEPT ![h].state = "live"] /\ UNCHANGED place
      <3>1. [channel[h] EXCEPT !.state = "live"] \in ChannelRecord
            /\ [channel[h] EXCEPT !.state = "live"].DeleteMark = channel[h].DeleteMark
        BY <1>2 DEF ChannelRecord
      <3>2. QED BY <1>2, <2>1, <3>1
    <2>2. CASE /\ channel' = [channel EXCEPT ![h].DeleteMark = TRUE]
               /\ place' = [place EXCEPT ![h] = "udpKill"]
      <3>1. [channel[h] EXCEPT !.DeleteMark = TRUE] \in ChannelRecord
            /\ [channel[h] EXCEPT !.DeleteMark = TRUE].DeleteMark
        BY <1>2 DEF ChannelRecord
      <3>2. place'[h] = "udpKill"
        BY <1>2, <2>2
      <3>3. QED BY <1>2, <2>2, <3>1, <3>2
    <2>3. CASE channel' = channel /\ (place'[h] = "udpKill" <=> place[h] = "udpKill")
      <3>1. channel' = [channel EXCEPT ![h] = channel[h]]
        BY <1>2, <2>3
      <3>2. QED BY <1>2, <2>3, <3>1
    <2>4. CASE /\ channel' = [channel EXCEPT ![h] = [state |-> "gone", DeleteMark |-> FALSE]]
               /\ place' = [place EXCEPT ![h] = "none"]
      <3>1. /\ [state |-> "gone", DeleteMark |-> FALSE] \in ChannelRecord
            /\ ~[state |-> "gone", DeleteMark |-> FALSE].DeleteMark
        BY DEF ChannelRecord
      <3>2. place'[h] = "none"
        BY <1>2, <2>4
      <3>3. QED BY <2>4, <3>1, <3>2
    <2>5. CASE /\ ~channel[h].DeleteMark /\ place' = [place EXCEPT ![h] = "udpIdle"]
               /\ UNCHANGED channel
      <3>1. place'[h] = "udpIdle" /\ place[h] # "udpKill"
        BY <1>2, <2>5
      <3>2. QED BY <2>3, <2>5, <3>1
    <2>6. QED BY <1>1, <2>1, <2>2, <2>3, <2>4, <2>5
  <1>4. /\ place' \in [Client \cup Channel -> {"none", "idle", "kill", "udpIdle", "udpKill"}]
        /\ \A n \in (Client \cup Channel) \ {h} : place'[n] = place[n]
    BY <1>1, <1>2
  <1>5. TypeOK'
    <2>1. channel' \in [Channel -> ChannelRecord]
      BY <1>3, <1>2
    <2>2. QED BY <1>1, <1>4, <2>1 DEF IInv, TypeOK
  <1>6. \A c \in Client : place'[c] = place[c]
    BY <1>4
  <1>7. \A g \in Channel : place'[g] = "udpKill" <=> channel'[g].DeleteMark
    BY <1>3, <1>4, <1>2
  <1> QED
    BY <1>1, <1>5, <1>6, <1>7
    DEF IInv, QuestionInOrder, QuestionBacked, RelayPlacement, Live, Waiting

\* Steps that touch no connection and no question.
LEMMA QuietKeeps ==
  ASSUME IInv, UNCHANGED <<request, known, dns, connection, channel, place>>
  PROVE  IInv'
  BY DEF IInv, TypeOK, QuestionInOrder, QuestionBacked, RelayPlacement, Live, Waiting

\* Every step keeps the invariant.
LEMMA NextIInv == ASSUME IInv, [Next]_vars PROVE IInv'
  <1>1. ASSUME NEW c \in Client, Proxy(c) PROVE IInv'
    <2>1. CASE ProxyPeerClose(c)
      <3>1. CASE c \in known /\ Live(c)
        BY <2>1, <3>1, DestroyKeeps DEF ProxyPeerClose
      <3>2. CASE ~(c \in known /\ Live(c))
        BY <2>1, <3>2, QuietKeeps DEF ProxyPeerClose, listVars
      <3> QED
        BY <3>1, <3>2
    <2>2. CASE ProxyMarks(c)
      BY <2>2, QuietKeeps DEF ProxyMarks, listVars
    <2> QED
      BY <1>1, <2>1, <2>2, AskKeeps, TakeResultKeeps, ProxyDestroyedKeeps DEF Proxy
  <1>2. ASSUME NEW c \in Client, Event(c) PROVE IInv'
    <2>1. CASE OnPeerClose(c)
      BY <2>1, DestroyKeeps DEF OnPeerClose, SocketEvent
    <2> QED
      BY <1>2, <2>1, DnsAnsweredKeeps, OnConnectedKeeps, OnDataKeeps DEF Event
  <1>3. CASE Tick
    <2>1. ASSUME NEW d \in {0, 1}, TickBegin(d) PROVE IInv'
      BY <2>1, QuietKeeps DEF TickBegin, Elapse
    <2>2. ASSUME NEW c \in Client, DeferDestroyIdleConnection(c) PROVE IInv'
      <3>1. Live(c)
        BY <2>2 DEF DeferDestroyIdleConnection, Expired, IsHead, IInv, QuestionInOrder
      <3> QED
        BY <2>2, <3>1, DestroyKeeps DEF DeferDestroyIdleConnection
    <2>3. CASE EndLoop
      BY <2>3, QuietKeeps DEF EndLoop, listVars
    <2> QED
      BY <1>3, <2>1, <2>2, <2>3, ProcessDnsResultKeeps, CleanDyingConnectionKeeps, UdpKeeps DEF Tick
  <1>4. CASE UNCHANGED vars
    BY <1>4, QuietKeeps DEF vars, listVars
  <1> QED
    BY <1>1, <1>2, <1>3, <1>4, UdpKeeps DEF Next

\* A relay connection that the proxy was told of takes data from the first moment or
\* never, and once it takes none it stays so: it is marked or gone.
LEMMA SilenceIsFinal ==
  ASSUME IInv, [Next]_vars, NEW c \in known, TakesData(c)'
  PROVE  TakesData(c)
  <1>1. /\ c \in Client /\ connection \in [Client -> ConnectionRecord]
        /\ request[c] = "done" /\ dns[c] = "none"
        /\ ~connection[c].waits
        /\ Live(c) /\ ~connection[c].connected => connection[c].DeleteMark
    BY DEF IInv, TypeOK, QuestionInOrder
  <1>2. CASE UNCHANGED connection
    BY <1>2 DEF TakesData, Live
  <1>3. ASSUME NEW d \in Client, ConnectStarted(d), request[d] # "done" PROVE TakesData(c)
    BY <1>1, <1>3 DEF ConnectStarted, TakesData, Live
  <1>4. ASSUME NEW d \in Client, NEW b \in BOOLEAN, DeferDestroyConnection(d, b) PROVE TakesData(c)
    <2>1. CASE d = c
      <3>1. connection'[c].DeleteMark
        BY <1>1, <1>4, <2>1 DEF DeferDestroyConnection, ConnectionRecord
      <3> QED
        BY <3>1 DEF TakesData
    <2>2. CASE d # c
      BY <1>1, <1>4, <2>2 DEF DeferDestroyConnection, TakesData, Live
    <2> QED
      BY <2>1, <2>2
  <1>5. ASSUME NEW d \in Client, OnConnected(d) PROVE TakesData(c)
    <2>1. CASE d = c
      <3>1. connection[c].DeleteMark /\ connection'[c].DeleteMark = connection[c].DeleteMark
        BY <1>1, <1>5, <2>1 DEF OnConnected, SocketEvent, ConnectionRecord
      <3> QED
        BY <3>1 DEF TakesData
    <2>2. CASE d # c
      BY <1>1, <1>5, <2>2 DEF OnConnected, TakesData, Live
    <2> QED
      BY <2>1, <2>2
  <1>6. ASSUME NEW d \in Client, CleanDyingConnection(d) PROVE TakesData(c)
    BY <1>1, <1>6 DEF CleanDyingConnection, ConnectionAs, TakesData, Live
  <1>7. ASSUME NEW d \in Client, Proxy(d) PROVE TakesData(c)
    BY <1>2, <1>3, <1>4, <1>7
    DEF Proxy, CreateConnectionByName, CreateConnectionByAddress, Asks, QueryStarted,
        ConnectStartedOrFailed, TakeResult, ProxyPeerClose, ProxyMarks, ProxyDestroyed
  <1>8. ASSUME NEW d \in Client, Event(d) PROVE TakesData(c)
    BY <1>2, <1>4, <1>5, <1>8 DEF Event, DnsAnswered, OnPeerClose, OnData
  <1>9. CASE Tick
    <2>1. ASSUME NEW d \in Client, ProcessDnsResult(d) PROVE TakesData(c)
      BY <1>2, <1>3, <2>1 DEF ProcessDnsResult, Resolved, Waiting
    <2>2. ASSUME NEW d \in Client, DeferDestroyIdleConnection(d) PROVE TakesData(c)
      BY <1>4, <2>2 DEF DeferDestroyIdleConnection
    <2> QED
      BY <1>2, <1>6, <1>9, <2>1, <2>2
      DEF Tick, TickBegin, DeferDestroyIdleUdpChannel, CleanDyingUdpChannel, EndLoop
  <1>10. ASSUME (\E h \in Channel : Udp(h)) \/ UNCHANGED vars PROVE TakesData(c)
    BY <1>2, <1>10 DEF Udp, CreateUdpChannel, DestroyUdpChannel, KeepUdpChannelAlive, vars
  <1> QED
    BY <1>7, <1>8, <1>9, <1>10 DEF Next

-----------------------------------------------------------------------------
(* The theorems.                                                           *)

\* The invariant is inductive: every reachable state of the relay has it.
THEOREM Invariance == Spec => []IInv
  BY InitIInv, NextIInv, PTL DEF Spec

\* While the proxy waits there is a dns query or a connect whose end answers it,
\* through every way out of CreateConnectionWithDnsResult and DeferDestroyConnection.
THEOREM QuestionsBacked == Spec => []QuestionBacked
  BY Invariance, PTL DEF IInv

\* KeepAlive and DeferDestroyConnection keep each connection on the list its end
\* depends on.
THEOREM ConnectionsPlaced == Spec => []RelayPlacement
  BY Invariance, PTL DEF IInv

\* Every step asks one question, answers one, reads or withdraws one, or none.
LEMMA StepIsQuestionStep == ASSUME IInv, [Next]_vars PROVE [Futures!Next]_request
  <1>1. ASSUME NEW c \in Client, NEW s \in {"ok", "fail"}, request[c] = "pending",
               request' = [request EXCEPT ![c] = s]
        PROVE  Futures!Next
    <2>1. request' = [d \in Client |-> IF d \in {c} THEN s ELSE request[d]]
      BY <1>1 DEF IInv, TypeOK
    <2>2. Futures!SetReady({c})
      BY <1>1, <2>1 DEF Futures!SetReady
    <2> QED
      BY <2>2 DEF Futures!Next
  <1>2. ASSUME NEW c \in Client, NEW closed \in BOOLEAN, DeferDestroyConnection(c, closed)
        PROVE  [Futures!Next]_request
    BY <1>1, <1>2 DEF DeferDestroyConnection, Waiting
  <1>3. ASSUME NEW c \in Client, Proxy(c) PROVE [Futures!Next]_request
    <2>1. CASE ProxyPeerClose(c)
      BY <1>2, <2>1 DEF ProxyPeerClose
    <2>2. CASE \/ \E answer \in {"pending", "ok", "fail"} : CreateConnectionByName(c, answer)
               \/ CreateConnectionByAddress(c)
      <3>1. Futures!Ask(c)
        BY <2>2 DEF CreateConnectionByName, CreateConnectionByAddress, Asks, QueryStarted,
                    ConnectStartedOrFailed, Futures!Ask, Futures!Set
      <3> QED
        BY <3>1 DEF Futures!Next
    <2>3. CASE TakeResult(c)
      <3>1. Futures!ReleaseFuture(c)
        BY <2>3 DEF TakeResult, Futures!ReleaseFuture, Futures!Set
      <3> QED
        BY <3>1 DEF Futures!Next
    <2>4. CASE ProxyDestroyed(c)
      <3>1. CASE request[c] \in {"unasked", "done"}
        <4>1. request' = request
          BY <2>4, <3>1 DEF ProxyDestroyed, IInv, TypeOK
        <4> QED
          BY <4>1
      <3>2. CASE request[c] \notin {"unasked", "done"}
        <4>1. Futures!ReleaseFuture(c)
          BY <2>4, <3>2 DEF ProxyDestroyed, IInv, TypeOK, Futures!ReleaseFuture, Futures!Set
        <4> QED
          BY <4>1 DEF Futures!Next
      <3> QED
        BY <3>1, <3>2
    <2>5. CASE ProxyMarks(c)
      BY <2>5 DEF ProxyMarks
    <2> QED
      BY <1>3, <2>1, <2>2, <2>3, <2>4, <2>5 DEF Proxy
  <1>4. ASSUME NEW c \in Client, Event(c) PROVE [Futures!Next]_request
    <2>1. CASE OnPeerClose(c)
      BY <1>2, <2>1 DEF OnPeerClose
    <2>2. CASE OnConnected(c)
      BY <1>1, <2>2 DEF OnConnected, Reported, Waiting
    <2> QED
      BY <1>4, <2>1, <2>2 DEF Event, DnsAnswered, OnData
  <1>5. CASE Tick
    <2>1. ASSUME NEW c \in Client, DeferDestroyIdleConnection(c) PROVE [Futures!Next]_request
      BY <1>2, <2>1 DEF DeferDestroyIdleConnection
    <2>2. ASSUME NEW c \in Client, ProcessDnsResult(c) PROVE [Futures!Next]_request
      BY <1>1, <2>2 DEF ProcessDnsResult, Resolved, Waiting
    <2>3. ASSUME \/ \E d \in {0, 1} : TickBegin(d)
                 \/ \E c \in Client : CleanDyingConnection(c)
                 \/ \E h \in Channel : DeferDestroyIdleUdpChannel(h) \/ CleanDyingUdpChannel(h)
                 \/ EndLoop
          PROVE  UNCHANGED request
      BY <2>3 DEF TickBegin, CleanDyingConnection, DeferDestroyIdleUdpChannel,
                  CleanDyingUdpChannel, EndLoop
    <2> QED
      BY <1>5, <2>1, <2>2, <2>3 DEF Tick
  <1>6. ASSUME (\E h \in Channel : Udp(h)) \/ UNCHANGED vars PROVE UNCHANGED request
    BY <1>6 DEF Udp, CreateUdpChannel, DestroyUdpChannel, KeepUdpChannelAlive, vars
  <1> QED
    BY <1>3, <1>4, <1>5, <1>6 DEF Next

\* Each question is answered once, by whichever of the dns query, the connect, the
\* close and the timeout comes first, and no answer reaches who is gone.
THEOREM ProtocolKept == Spec => KeepsProtocol
  <1>1. Init => Futures!Init
    BY DEF Init, Futures!Init
  <1> QED
    BY <1>1, StepIsQuestionStep, Invariance, PTL DEF Spec, KeepsProtocol, Futures!Spec
=============================================================================
