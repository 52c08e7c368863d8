----------------------------- MODULE LocalProxy -----------------------------
(***************************************************************************)
(* The proxy of one machine: xProxyAccessService (ProxyAccess) whose relay *)
(* service and device locator is xRelayLocalBindingService (RelayLocal),   *)
(* in one process and on one thread.  A call of one service by the other   *)
(* is a joint step of both; the Ticks come one after the other.            *)
(*                                                                         *)
(* RelayLocal has a part of its own for the little it sees of the proxy:   *)
(* the state of a client connection, the future that asks for a relay      *)
(* connection, and who was told an id.  Here that part is computed from    *)
(* the proxy.  Clients of udp are left out.                                *)
(***************************************************************************)
EXTENDS ProxyAccess

CONSTANTS
    MaxDns, MaxRelayConnection, RelayIdleTimeout, Assertions    \* as in RelayLocal

ASSUME LocalAssumption ==
    /\ "S5_UDP" \notin ClientKinds
    /\ Assertions \in BOOLEAN
    /\ MaxDns \in Nat /\ MaxRelayConnection \in Nat /\ RelayIdleTimeout \in Nat \ {0}

VARIABLES
    relayPhase, dns, connection,        \* RelayLocal's variables
    relayPlace, relayAhead, relayAge,
    told,           \* clients that were told the id of their relay connection
    delivered,      \* client data that was posted to the socket of the target
    failed          \* an assertion of the proxy failed

\* A client connection as the relay sees it.
ProxyState == [c \in Conn |->
    CASE conn[c].state = "gone" -> "gone"
      [] Live(c) /\ conn[c].DeleteMark -> "marked"
      [] OTHER -> "live"]

Relay == INSTANCE RelayLocal WITH
    Client <- Conn, Channel <- {}, MaxConnection <- MaxRelayConnection,
    IdleTimeout <- RelayIdleTimeout, phase <- relayPhase, channel <- <<>>,
    proxy <- ProxyState, request <- ConnectionQuestion, known <- told,
    place <- relayPlace, ahead <- relayAhead, age <- relayAge

relayVars == <<relayPhase, dns, connection, relayPlace, relayAhead, relayAge>>
linkVars == <<told, delivered, failed>>
allVars == <<vars, relayVars, linkVars>>

LocalInit ==
    /\ Init
    /\ told = {}
    /\ delivered = [c \in Conn |-> <<>>]
    /\ failed = FALSE
    /\ Relay!Init

\* Neither service runs its Tick.
Between == phase = "io" /\ relayPhase = "io" /\ ~failed

-----------------------------------------------------------------------------
(* The client and the proxy.                                               *)

\* What the relay is not told of.
ClientStep(c) ==
    /\ Between
    /\ \/ OnNewConnection(c) \/ OnFlush(c) \/ OnHttpChallenge(c)
       \/ \E w \in BOOLEAN :
             RefuseAndWait(c, w) \/ OnS5Challenge(c, w) \/ OnS5TargetRefused(c, w)
       \/ \E w \in BOOLEAN, a \in Immediate("auth") :
             \/ OnS5ChallengeNoAuth(c, a, w) \/ OnS5AuthInfo(c, a, w)
             \/ OnHttpRawHeaderProcessor(c, a, w) \/ OnHttpNormalHeaderProcessor(c, a, w)
       \/ conn[c].DeleteMark /\ (OnPeerClose(c) \/ KillConnectionOnData(c))
    /\ UNCHANGED <<relayVars, linkVars>>

\* RelayService->CreateConnection, if the pool had a future for it.
RelayAsked(c, byAddress) ==
    IF held["conn"][c] = held'["conn"][c] THEN UNCHANGED relayVars
    ELSE \/ \E answer \in {"pending", "ok", "fail"} : Relay!QueryStarted(c, answer)
         \/ byAddress /\ Relay!ConnectStartedOrFailed(c)

ClientNamesTarget(c) ==
    /\ Between
    /\ \E w \in BOOLEAN, a \in {"pending", "fail"} : OnS5TargetTcp(c, a, w)
    /\ UNCHANGED linkVars
    /\ RelayAsked(c, TRUE)

\* DestroyConnection, if the proxy knows the relay connection.
ClientCloses(c) ==
    /\ Between
    /\ ~conn[c].DeleteMark
    /\ OnPeerClose(c) \/ KillConnectionOnData(c)
    /\ UNCHANGED linkVars
    /\ Relay!ProxyPeerClose(c)

\* RelayService->PostData of what the proxy adds to the data it relayed.
DataPosted(c) ==
    LET old == stream[c].relayed
        new == stream'[c].relayed
    IN  delivered' = IF conn'[c].RelaySideConnectionId /\ Relay!TakesData(c)
                     THEN [delivered EXCEPT ![c] = @ \o SubSeq(new, Len(old) + 1, Len(new))]
                     ELSE delivered

\* The first assertion of OnHttpBody.
BodyHasServer(c) == stream[c].content # <<>> \/ Relay!LocalServerId # 0

ClientSendsData(c) ==
    /\ Between
    /\ \/ OnRawData(c) /\ failed' = FALSE
       \/ OnHttpBody(c) /\ failed' = (Assertions /\ ~BodyHasServer(c))
    /\ DataPosted(c)
    /\ UNCHANGED <<relayVars, told>>

-----------------------------------------------------------------------------
(* The proxy's other services and its Tick.                                *)

AuthAnswers(f, a) == Between /\ AnswerFuture("auth", f, a) /\ UNCHANGED <<relayVars, linkVars>>

ProxyTickBegin(d) == Between /\ TickBegin(d) /\ UNCHANGED <<relayVars, linkVars>>

DeviceAcquired(f, w) ==
    /\ \E a \in Relay!AcquireDevice : OnAuthResult(f, a, w)
    /\ UNCHANGED <<relayVars, linkVars>>

\* The target of an http request is a name.
DeviceTaken(f, w) ==
    /\ \E a \in {"pending", "fail"} : OnAcquireDeviceResult(f, a, w)
    /\ UNCHANGED linkVars
    /\ RelayAsked(future["device"][f].owner, FALSE)

ConnectionTaken(f, w) ==
    LET c == future["conn"][f].owner IN
    /\ OnAcquireDeviceConnectionResult(f, w)
    /\ DataPosted(c)
    /\ UNCHANGED failed
    /\ Relay!TakeResult(c)

ClientDestroyed(c) ==
    /\ ExcuteKillConnection(c)
    /\ UNCHANGED linkVars
    /\ Relay!ProxyDestroyed(c)

ProxyTick ==
    \/ \E d \in {0, 1} : ProxyTickBegin(d)
    \/ \E f \in Slot, w \in BOOLEAN :
          DeviceAcquired(f, w) \/ DeviceTaken(f, w) \/ ConnectionTaken(f, w)
    \/ \E c \in Conn : ClientDestroyed(c)
    \/ /\ EndLoop \/ \E c \in Conn : DeferKillTimeoutConnection(c)
       /\ UNCHANGED <<relayVars, linkVars>>

-----------------------------------------------------------------------------
(* The relay.  Its step decides whether the question of c is answered, and *)
(* how: the future of the proxy is one place of memory for both.           *)

FutureFollows(c) ==
    \E a \in {"none", "ok", "fail"} :
        future' = IF a = "none" THEN future
                  ELSE [future EXCEPT !["conn"] = [f \in Slot |->
                           IF f = held["conn"][c] THEN [@[f] EXCEPT !.answer = a] ELSE @[f]]]

DnsAnswered(c) ==
    /\ Between
    /\ UNCHANGED <<vars, linkVars>>
    /\ \E answer \in {"ok", "fail"} : Relay!DnsAnswered(c, answer)

TargetConnected(c) ==
    /\ Between
    /\ FutureFollows(c)
    /\ UNCHANGED <<phase, conn, listVars, held, chan, stream, requested, authRefs, linkVars>>
    /\ Relay!OnConnected(c)

\* ProxyService->CloseConnection, then the answer to a question still open.
TargetCloses(c) ==
    /\ Between
    /\ IF Live(c) /\ ~conn[c].DeleteMark THEN DeferGracefulKill(c) ELSE UNCHANGED <<conn, listVars>>
    /\ FutureFollows(c)
    /\ UNCHANGED <<phase, held, chan, stream, requested, authRefs, linkVars>>
    /\ Relay!OnPeerClose(c)

\* ProxyService->PostData.
TargetSendsData(c, w) ==
    /\ Between
    /\ IF Live(c) /\ ~conn[c].DeleteMark
       THEN KeepAlive(c) /\ conn' = [conn EXCEPT ![c].writes = @ \/ w]
       ELSE UNCHANGED <<conn, listVars>>
    /\ UNCHANGED <<phase, future, held, chan, stream, requested, authRefs, told, delivered, failed>>
    /\ Relay!OnData(c)

RelayTickBegin(d) == Between /\ UNCHANGED <<vars, linkVars>> /\ Relay!TickBegin(d)

QueryAnswerTaken(c) ==
    /\ FutureFollows(c)
    /\ UNCHANGED <<phase, conn, listVars, held, chan, stream, requested, authRefs, linkVars>>
    /\ Relay!ProcessDnsResult(c)

RelayTick ==
    \/ \E d \in {0, 1} : RelayTickBegin(d)
    \/ \E c \in Conn : QueryAnswerTaken(c)
    \/ /\ UNCHANGED <<vars, linkVars>>
       /\ \/ \E c \in Conn : Relay!DeferDestroyIdleConnection(c) \/ Relay!CleanDyingConnection(c)
          \/ Relay!EndLoop

-----------------------------------------------------------------------------

Target(c) == TargetConnected(c) \/ TargetCloses(c) \/ \E w \in BOOLEAN : TargetSendsData(c, w)

LocalNext ==
    \/ \E c \in Conn :
          \/ ClientStep(c) \/ ClientNamesTarget(c) \/ ClientCloses(c) \/ ClientSendsData(c)
          \/ DnsAnswered(c) \/ Target(c)
    \/ \E f \in Slot, a \in Answer : AuthAnswers(f, a)
    \/ ProxyTick \/ RelayTick

\* The event loop calls both Ticks again and again, their loops run to their end, and
\* the clock advances.  Nothing is assumed of clients, targets, the auth and the dns
\* service: they may stay silent for ever, or go on for ever.
LocalFairness ==
    /\ SF_allVars(ProxyTickBegin(1)) /\ WF_allVars(phase # "io" /\ ProxyTick)
    /\ SF_allVars(RelayTickBegin(1)) /\ WF_allVars(relayPhase # "io" /\ RelayTick)

LocalSpec == LocalInit /\ [][LocalNext]_allVars
LocalFairSpec == LocalSpec /\ LocalFairness

-----------------------------------------------------------------------------
(* Properties.                                                             *)

\* What RelayLocal assumes of the proxy is what ProxyAccess does: seen from the relay
\* the composition is RelayLocal.  The proxy asks once for each client, closes what
\* it was told of, reads each answer once, and a client is never revived.
RelaySeesProxy == Relay!Spec

\* Client data on its way through both services: as long as the relay connection
\* takes data the target was sent all that the proxy relayed, and later a part of
\* it from the beginning: what the relay drops without a word is the end.
DataReachesTarget ==
    \A c \in Conn : Live(c) =>
        /\ delivered[c] = SubSeq(stream[c].relayed, 1, Len(delivered[c]))
        /\ c \in told /\ Relay!TakesData(c) => delivered[c] = stream[c].relayed

\* Clients and targets may go on sending for ever, and each of their pieces may keep a
\* connection alive (KeepAlive).  The liveness properties are about those who do not.
ClientSendsForEver(c) == []<><<ClientSendsData(c)>>_allVars
TargetSendsForEver(c) == []<><<\E w \in BOOLEAN : TargetSendsData(c, w)>>_allVars

\* A relay connection that the proxy was told of ends, whoever goes first and
\* whether or not the relay is told: its own timeout ends it once the target is
\* silent, whatever the client sends.
RelayConnectionsEnd ==
    \A c \in Conn : TargetSendsForEver(c) \/ (c \in told ~> ~Relay!Live(c))

\* A client that is marked ends, whatever is sent.  So does one whose relay connection
\* is gone, once it is silent itself: the relay's timeout tells the proxy nothing,
\* and what the client goes on sending is dropped but keeps it alive.
ClientsLeave ==
    \A c \in Conn :
        /\ Live(c) /\ conn[c].DeleteMark ~> ~Live(c)
        /\ \/ ClientSendsForEver(c)
           \/ Live(c) /\ c \in told /\ ~Relay!Live(c) ~> ~Live(c)

\* The handshake ends: a client has its relay connection or is dropped in the end,
\* even if the services it asks never answer.  A plain http client leaves the list of
\* the handshake with its first piece of body, so it must be silent for that.
HandshakeEnds ==
    \A c \in Conn :
        \/ ClientSendsForEver(c)
        \/ Live(c) ~> conn[c].RelaySideConnectionId \/ ~Live(c)

\* pa_service.cpp:965 assert(Connection->DeviceReference.RelayServerId).
BodyFindsServer == ~failed
=============================================================================
