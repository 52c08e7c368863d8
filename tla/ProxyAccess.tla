---------------------------- MODULE ProxyAccess ----------------------------
(***************************************************************************)
(* xProxyAccessService (src_xapp/ppp/lib_component/pa_service.cpp): the    *)
(* client side of the proxy.  It accepts SOCKS5 and HTTP clients, asks the *)
(* authentication service who they are, the device locator for an exit     *)
(* device and the relay service for a connection or a udp channel, and     *)
(* then copies data both ways.  Each question is an xFuture taken from a   *)
(* bounded pool; its answer is picked up by the next Tick.                 *)
(*                                                                         *)
(* The service is single threaded.  phase = "io" between Ticks, when the   *)
(* callbacks of the event loop and of the other services run; otherwise it *)
(* names the loop of Tick that is running.  Every handler and every        *)
(* iteration of a loop of Tick is one action.                              *)
(*                                                                         *)
(* An id of xIndexedStorage is never issued twice, so an element of Conn   *)
(* is used once.  The elements of Slot and Chan are the places of the      *)
(* future pools and of the udp channel pool, which are reused.             *)
(***************************************************************************)
EXTENDS Naturals, Sequences, FiniteSets

CONSTANTS
    Conn,            \* client connection ids
    Slot,            \* places in each of the four future pools
    Chan,            \* places in the udp channel pool
    Null,            \* the null pointer and the zero id
    MaxConn,         \* PA_MAX_CLIENT_CONNECTION
    InitTimeout,     \* PA_CLIENT_AUTH_TIMEOUT_MS, in clock steps
    GracefulTimeout, \* PA_GRACEFUL_KILL_TIMEOUT_MS
    IdleTimeout,     \* CLIENT_CONNECTION_IDLE_TIMEOUT_MS
    MaxUnits,        \* bound: pieces of a client's data that stream records
    ClientKinds,     \* what clients speak: "S5_TCP", "S5_UDP", "HTTP_RAW", "HTTP_NORMAL"
    AddrTypes        \* address types of socks requests: "known", "unknown"

ASSUME ParameterAssumption ==
    /\ Null \notin Conn \cup Slot \cup Chan
    /\ MaxConn \in Nat /\ MaxUnits \in Nat
    /\ {InitTimeout, GracefulTimeout, IdleTimeout} \subseteq Nat \ {0}
    /\ InitTimeout <= IdleTimeout /\ GracefulTimeout <= IdleTimeout

VARIABLES
    phase,      \* "io", or the loop of Tick that is running
    conn,       \* the client connections
    place, ahead, age,  \* the four timeout lists (TimeoutList)
    future,     \* the four future pools: who asked, and the answer so far
    held,       \* the AuthFuture, AcquireDeviceFuture, ... pointers of each connection
    chan,       \* the udp channel pool
    stream,     \* client data: Http.Content, what went to the relay, what was consumed,
                \* and (a history) how often a header was appended and yet refused
    requested,  \* connections whose id the relay service was given
    authRefs    \* references the authentication service holds for each connection

ListName == {"init", "idle", "graceful", "kill"}
INSTANCE TimeoutList WITH Node <- Conn, MaxAge <- IdleTimeout

listVars == <<place, ahead, age>>
vars == <<phase, conn, listVars, future, held, chan, stream, requested, authRefs>>

Kind == {"auth", "device", "conn", "udp"}
Answer == {"pending", "fail", "ok", "okUdp"}
Type == {"UNDETERMINED", "S5_CHALLENGE", "S5_TCP", "S5_UDP", "HTTP_RAW", "HTTP_NORMAL"}
Processor == {"OnGuessProxyType", "OnS5AuthInfo", "OnS5Target", "OnHttpRawHeaderProcessor",
              "OnHttpNormalHeaderProcessor", "OnHttpBody", "OnRawData", "KillConnectionOnData"}
Phase == {"io", "init", "idle", "graceful", "kill", "aborted"} \cup Kind

ClientConnection ==
    [state : {"unused", "live", "gone"}, open : BOOLEAN, writes : BOOLEAN,
     Type : Type, DataProcessor : Processor, DeleteMark : BOOLEAN, EnableUdpTarget : BOOLEAN,
     LocalAuthId : BOOLEAN, DeviceReference : BOOLEAN, RelaySideConnectionId : BOOLEAN,
     BindUdpChannel : Chan \cup {Null}]

\* A connection as the pool hands it out.  state, open and writes stand for the
\* pool, the socket and HasPendingWrites(); an id is TRUE when it is not zero.
Blank(s) ==
    [state |-> s, open |-> s = "live", writes |-> FALSE,
     Type |-> "UNDETERMINED", DataProcessor |-> "OnGuessProxyType", DeleteMark |-> FALSE,
     EnableUdpTarget |-> FALSE, LocalAuthId |-> FALSE, DeviceReference |-> FALSE,
     RelaySideConnectionId |-> FALSE, BindUdpChannel |-> Null]

FreeFuture == [owner |-> Null, answer |-> "pending"]
FreeChannel == [parent |-> Null, relaySide |-> FALSE, clientSeen |-> FALSE]
NoData == [content |-> <<>>, relayed |-> <<>>, consumed |-> 0, refused |-> 0]

Init ==
    /\ phase = "io"
    /\ conn = [c \in Conn |-> Blank("unused")]
    /\ ListInit
    /\ future = [k \in Kind |-> [f \in Slot |-> FreeFuture]]
    /\ held = [k \in Kind |-> [c \in Conn |-> Null]]
    /\ chan = [h \in Chan |-> FreeChannel]
    /\ stream = [c \in Conn |-> NoData]
    /\ requested = {}
    /\ authRefs = [c \in Conn |-> 0]

Live(c) == conn[c].state = "live"

-----------------------------------------------------------------------------
(* Futures.                                                                *)

Ready(k) == {f \in Slot : future[k][f].owner # Null /\ future[k][f].answer # "pending"}

\* Null when the pool is empty.
AcquireFuture(k) ==
    IF \E f \in Slot : future[k][f].owner = Null
    THEN CHOOSE f \in Slot : future[k][f].owner = Null
    ELSE Null

\* The pool F after c's question took place f and the service answered a.
Filled(F, k, f, c, a) ==
    IF f = Null THEN F ELSE [F EXCEPT ![k][f] = [owner |-> c, answer |-> a]]

\* The pools after Release...Future(c) for kind k.
Released(k, c) ==
    [future EXCEPT ![k] = [f \in Slot |-> IF f = held[k][c] THEN FreeFuture ELSE @[f]]]

\* What a service may say before the call returns; "pending": nothing yet.
Immediate(k) ==
    CASE k = "auth"   -> {"pending", "fail", "ok", "okUdp"}
      [] k = "conn"   -> {"pending", "fail"}
      [] OTHER        -> {"pending", "fail", "ok"}

\* A successful AcquireAuthInfo counts one more holder of the account.
AuthAnswered(c, a) ==
    authRefs' = IF a \in {"ok", "okUdp"} THEN [authRefs EXCEPT ![c] = @ + 1] ELSE authRefs

\* Mutant: the account given back although none was counted.
AccountAlwaysReleased(c) == authRefs' = [authRefs EXCEPT ![c] = @ - 1]

\* AuthService->ReleaseAuthInfo, when the connection has an account.
AccountReleased(c) ==
    authRefs' = [authRefs EXCEPT ![c] = IF conn[c].LocalAuthId THEN @ - 1 ELSE @]

\* Mutant: the future of a device connection is forgotten.
FuturesReleasedButOne(c) ==
    /\ future' = [k \in Kind |-> IF k = "conn" THEN future[k] ELSE Released(k, c)[k]]
    /\ held' = [k \in Kind |-> [held[k] EXCEPT ![c] = Null]]

\* Each future the connection still waits for goes back to its pool.
FuturesReleased(c) ==
    /\ future' = [k \in Kind |-> Released(k, c)[k]]
    /\ held' = [k \in Kind |-> [held[k] EXCEPT ![c] = Null]]

\* Mutant: the channel outlives its connection.
ChannelForgotten(c) == UNCHANGED chan

\* The udp channel bound to the connection is closed and released.
ChannelReleased(c) ==
    chan' = [h \in Chan |-> IF h = conn[c].BindUdpChannel THEN FreeChannel ELSE chan[h]]

-----------------------------------------------------------------------------
(* Connection lifetime.                                                    *)

\* Mutants: a marked connection is revived; a connection is moved unstamped.
KeepAliveAnyway(c) == StampAndGrabTail(c, "idle")
KeepAliveUnstamped(c) ==
    IF conn[c].DeleteMark THEN UNCHANGED listVars ELSE GrabTail(c, "idle")

KeepAlive(c) ==
    IF conn[c].DeleteMark THEN UNCHANGED listVars ELSE StampAndGrabTail(c, "idle")

\* The relay side is told only by OnPeerClose, never from here.
DestroyConnection(c) ==
    /\ conn' = [conn EXCEPT ![c] = Blank("gone")]
    /\ AccountReleased(c)
    /\ FuturesReleased(c)
    /\ ChannelReleased(c)
    /\ stream' = [stream EXCEPT ![c] = NoData]
    /\ Unlink(c)
    /\ UNCHANGED requested

OnNewConnection(c) ==
    /\ phase = "io"
    /\ conn[c].state = "unused"
    /\ Cardinality({d \in Conn : Live(d)}) < MaxConn
    /\ conn' = [conn EXCEPT ![c] = Blank("live")]
    /\ StampAndGrabTail(c, "init")
    /\ UNCHANGED <<phase, future, held, chan, stream, requested, authRefs>>

ClientEvent(c) == phase = "io" /\ Live(c) /\ conn[c].open
DataFor(c, p) == ClientEvent(c) /\ conn[c].DataProcessor = p

\* Mutant: DeferKill without the mark.
PeerClosedUnmarked(c) ==
    /\ conn' = [conn EXCEPT ![c].open = FALSE]
    /\ IF conn[c].DeleteMark THEN UNCHANGED listVars ELSE GrabTail(c, "kill")
    /\ UNCHANGED <<phase, future, held, chan, stream, requested, authRefs>>

\* OnPeerClose: the client closed, or a processor returned InvalidDataSize and
\* the library closed.  No further event of this socket follows.
PeerClosed(c) ==
    /\ conn' = [conn EXCEPT ![c].open = FALSE, ![c].DeleteMark = TRUE]
    /\ IF conn[c].DeleteMark THEN UNCHANGED listVars ELSE GrabTail(c, "kill")
    /\ UNCHANGED <<phase, future, held, chan, stream, requested, authRefs>>

OnPeerClose(c) == ClientEvent(c) /\ PeerClosed(c)

KillConnectionOnData(c) == DataFor(c, "KillConnectionOnData") /\ PeerClosed(c)

OnFlush(c) ==
    /\ ClientEvent(c)
    /\ conn[c].writes
    /\ conn' = [conn EXCEPT ![c].writes = FALSE]
    /\ IF conn[c].DeleteMark THEN GrabTail(c, "kill") ELSE UNCHANGED listVars
    /\ UNCHANGED <<phase, future, held, chan, stream, requested, authRefs>>

-----------------------------------------------------------------------------
(* The data processors.  In each, a is what the service asked says before  *)
(* the call returns and w whether bytes posted to the client are still     *)
(* unsent when the handler ends.  Incomplete input changes nothing; input  *)
(* that a processor rejects with InvalidDataSize ends in OnPeerClose.      *)

\* A header, or lines of it, was appended to Http.Content and comes again.
HeaderRefused(c) == [stream EXCEPT ![c].content = Append(@, 2), ![c].refused = @ + 1]

\* Replies that leave the processor as it is and the input unconsumed: the
\* TLS alert, and Send404/Send407 for a malformed credentials line.  The lines of
\* a plain request before the malformed one were appended to Http.Content.  The
\* malformed line itself stays in Http.TempHeaderLine and spoils the next one; here
\* a later try may succeed all the same.
RefuseAndWait(c, w) ==
    /\ ClientEvent(c)
    /\ conn[c].DataProcessor \in {"OnGuessProxyType", "OnHttpRawHeaderProcessor",
                                  "OnHttpNormalHeaderProcessor"}
    /\ conn' = [conn EXCEPT ![c].writes = @ \/ w]
    /\ \/ UNCHANGED stream
       \/ /\ conn[c].DataProcessor = "OnHttpNormalHeaderProcessor"
          /\ Len(stream[c].content) < MaxUnits
          /\ stream' = HeaderRefused(c)
    /\ UNCHANGED <<phase, listVars, future, held, chan, requested, authRefs>>

\* The client offers user/password authentication.
OnS5Challenge(c, w) ==
    /\ DataFor(c, "OnGuessProxyType")
    /\ ClientKinds \cap {"S5_TCP", "S5_UDP"} # {}
    /\ conn' = [conn EXCEPT ![c].Type = "S5_CHALLENGE", ![c].DataProcessor = "OnS5AuthInfo",
                            ![c].writes = @ \/ w]
    /\ UNCHANGED <<phase, listVars, future, held, chan, stream, requested, authRefs>>

\* RequestAuthentication by a processor that sets newType and then newProc; a
\* refusal is posted when the pool of futures is empty.
RequestAuthenticationInPlace(c, newType, newProc, a, w) ==   \* mutant: neither is set
    LET f == AcquireFuture("auth") IN
    /\ future' = Filled(future, "auth", f, c, a)
    /\ held' = [held EXCEPT !["auth"][c] = f]
    /\ IF f = Null THEN UNCHANGED authRefs ELSE AuthAnswered(c, a)
    /\ conn' = [conn EXCEPT ![c].writes = @ \/ (f = Null /\ w)]

RequestAuthentication(c, newType, newProc, a, w) ==
    LET f == AcquireFuture("auth") IN
    /\ future' = Filled(future, "auth", f, c, a)
    /\ held' = [held EXCEPT !["auth"][c] = f]
    /\ IF f = Null THEN UNCHANGED authRefs ELSE AuthAnswered(c, a)
    /\ conn' = [conn EXCEPT ![c].Type = newType, ![c].DataProcessor = newProc,
                            ![c].writes = @ \/ (f = Null /\ w)]

\* Mutant: the target is read before the answer.
OnS5ChallengeHasty(c, a, w) ==
    /\ DataFor(c, "OnGuessProxyType")
    /\ ClientKinds \cap {"S5_TCP", "S5_UDP"} # {}
    /\ RequestAuthentication(c, "S5_CHALLENGE", "OnS5Target", a, w)
    /\ UNCHANGED <<phase, listVars, chan, stream, requested>>

\* No user/password method: the address of the client is its credential.
OnS5ChallengeNoAuth(c, a, w) ==
    /\ DataFor(c, "OnGuessProxyType")
    /\ ClientKinds \cap {"S5_TCP", "S5_UDP"} # {}
    /\ RequestAuthentication(c, "S5_CHALLENGE", "KillConnectionOnData", a, w)
    /\ UNCHANGED <<phase, listVars, chan, stream, requested>>

OnS5AuthInfo(c, a, w) ==
    /\ DataFor(c, "OnS5AuthInfo")
    /\ RequestAuthentication(c, conn[c].Type, "KillConnectionOnData", a, w)
    /\ UNCHANGED <<phase, listVars, chan, stream, requested>>

\* Udp is not enabled for the account, no local address of the asked family, no
\* free or no bindable udp channel, or an unknown operation.
OnS5TargetRefused(c, w) ==
    /\ DataFor(c, "OnS5Target")
    /\ conn' = [conn EXCEPT ![c].DataProcessor = "KillConnectionOnData", ![c].writes = @ \/ w]
    /\ UNCHANGED <<phase, listVars, future, held, chan, stream, requested, authRefs>>

\* Mutant: the processor that reads the target stays.
OnS5TargetTcpInPlace(c, a, w) ==
    LET f == AcquireFuture("conn") IN
    /\ DataFor(c, "OnS5Target")
    /\ "S5_TCP" \in ClientKinds /\ "known" \in AddrTypes
    /\ conn' = [conn EXCEPT ![c].Type = IF f = Null THEN @ ELSE "S5_TCP",
                            ![c].writes = @ \/ (f = Null /\ w)]
    /\ future' = Filled(future, "conn", f, c, a)
    /\ held' = [held EXCEPT !["conn"][c] = f]
    /\ requested' = IF f = Null THEN requested ELSE requested \cup {c}
    /\ UNCHANGED <<phase, listVars, chan, stream, authRefs>>

\* RequestDeviceConnection: the relay learns c's id if there is a future to answer.
OnS5TargetTcp(c, a, w) ==
    LET f == AcquireFuture("conn") IN
    /\ DataFor(c, "OnS5Target")
    /\ "S5_TCP" \in ClientKinds /\ "known" \in AddrTypes
    /\ conn' = [conn EXCEPT ![c].DataProcessor = "KillConnectionOnData",
                            ![c].Type = IF f = Null THEN @ ELSE "S5_TCP",
                            ![c].writes = @ \/ (f = Null /\ w)]
    /\ future' = Filled(future, "conn", f, c, a)
    /\ held' = [held EXCEPT !["conn"][c] = f]
    /\ requested' = IF f = Null THEN requested ELSE requested \cup {c}
    /\ UNCHANGED <<phase, listVars, chan, stream, authRefs>>

\* A connect request whose address type is none of the three known ones:
\* ReleaseAcquireDeviceConnectionFuture is called without a future, which
\* stops at the assertion of ReleaseFuture.
OnS5TargetUnknownAddress(c) ==
    /\ DataFor(c, "OnS5Target")
    /\ "unknown" \in AddrTypes
    /\ held["conn"][c] = Null
    /\ phase' = "aborted"
    /\ UNCHANGED <<conn, listVars, future, held, chan, stream, requested, authRefs>>

\* The local channel stays bound to the connection when no future is left.
OnS5TargetUdp(c, h, a, w) ==
    LET f == AcquireFuture("udp") IN
    /\ DataFor(c, "OnS5Target")
    /\ "S5_UDP" \in ClientKinds
    /\ conn[c].EnableUdpTarget
    /\ chan[h].parent = Null
    /\ chan' = [chan EXCEPT ![h] = [FreeChannel EXCEPT !.parent = c]]
    /\ conn' = [conn EXCEPT ![c].DataProcessor = "KillConnectionOnData",
                            ![c].BindUdpChannel = h,
                            ![c].Type = IF f = Null THEN @ ELSE "S5_UDP",
                            ![c].writes = @ \/ (f = Null /\ w)]
    /\ future' = Filled(future, "udp", f, c, a)
    /\ held' = [held EXCEPT !["udp"][c] = f]
    /\ UNCHANGED <<phase, listVars, stream, requested, authRefs>>

\* The request line: CONNECT, or a url whose line, rewritten, starts Http.Content.
OnHttpChallenge(c) ==
    /\ DataFor(c, "OnGuessProxyType")
    /\ \/ /\ "HTTP_RAW" \in ClientKinds
          /\ conn' = [conn EXCEPT ![c].Type = "HTTP_RAW",
                                  ![c].DataProcessor = "OnHttpRawHeaderProcessor"]
          /\ UNCHANGED stream
       \/ /\ "HTTP_NORMAL" \in ClientKinds
          /\ conn' = [conn EXCEPT ![c].Type = "HTTP_NORMAL",
                                  ![c].DataProcessor = "OnHttpNormalHeaderProcessor"]
          /\ stream' = [stream EXCEPT ![c].content = <<1>>, ![c].consumed = 1]
    /\ UNCHANGED <<phase, listVars, future, held, chan, requested, authRefs>>

\* The blank line of a CONNECT request.  The credentials are a local variable,
\* so without a credentials line in the same input there are none: Send407.
OnHttpRawHeaderProcessor(c, a, w) ==
    /\ DataFor(c, "OnHttpRawHeaderProcessor")
    /\ \/ RequestAuthentication(c, conn[c].Type, "KillConnectionOnData", a, w)
       \/ /\ conn' = [conn EXCEPT ![c].DataProcessor = "KillConnectionOnData",
                                  ![c].writes = @ \/ w]
          /\ UNCHANGED <<future, held, authRefs>>
    /\ UNCHANGED <<phase, listVars, chan, stream, requested>>

\* Mutant: the header is dropped.
HeaderDropped(c) == [stream EXCEPT ![c].consumed = 2]

HeaderConsumed(c) == [stream EXCEPT ![c].content = Append(@, 2), ![c].consumed = 2]

\* The blank line of a plain request.  Piece 2 is the header.  When no future is
\* left the header stays unconsumed after it was appended, and comes again.
OnHttpNormalHeaderProcessor(c, a, w) ==
    LET f == AcquireFuture("auth")
        next == IF f = Null THEN "OnHttpNormalHeaderProcessor" ELSE "OnHttpBody"
    IN  /\ DataFor(c, "OnHttpNormalHeaderProcessor")
        /\ Len(stream[c].content) < MaxUnits
        /\ RequestAuthentication(c, conn[c].Type, next, a, w)
        /\ stream' = IF f = Null THEN HeaderRefused(c) ELSE HeaderConsumed(c)
        /\ UNCHANGED <<phase, listVars, chan, requested>>

\* The next piece of client data is appended to Http.Content, or goes to the relay
\* connection.  A client may go on for ever; what it sends beyond MaxUnits is not
\* recorded.
Recorded(c) == stream[c].consumed < MaxUnits

Buffered(c) ==
    IF Recorded(c)
    THEN [stream EXCEPT ![c].content = Append(@, stream[c].consumed + 1), ![c].consumed = @ + 1]
    ELSE stream

Relayed(c) ==
    IF Recorded(c)
    THEN [stream EXCEPT ![c].relayed = Append(@, stream[c].consumed + 1), ![c].consumed = @ + 1]
    ELSE stream

\* Mutant: the body does not wait for the relay connection.
OnHttpBodyUnbuffered(c) ==
    /\ DataFor(c, "OnHttpBody")
    /\ ~conn[c].DeleteMark
    /\ KeepAlive(c)
    /\ stream' = Relayed(c)
    /\ UNCHANGED <<phase, conn, future, held, chan, requested, authRefs>>

OnHttpBody(c) ==
    /\ DataFor(c, "OnHttpBody")
    /\ ~conn[c].DeleteMark
    /\ KeepAlive(c)
    /\ stream' = IF stream[c].content # <<>> THEN Buffered(c) ELSE Relayed(c)
    /\ UNCHANGED <<phase, conn, future, held, chan, requested, authRefs>>

OnRawData(c) ==
    /\ DataFor(c, "OnRawData")
    /\ ~conn[c].DeleteMark
    /\ KeepAlive(c)
    /\ stream' = Relayed(c)
    /\ UNCHANGED <<phase, conn, future, held, chan, requested, authRefs>>

\* A datagram of the client.  Its connection is kept alive only if not marked,
\* the datagram goes to the relay either way.
OnUdpData(h) ==
    /\ phase = "io"
    /\ chan[h].parent # Null
    /\ chan[h].relaySide
    /\ chan' = [chan EXCEPT ![h].clientSeen = TRUE]
    /\ KeepAlive(chan[h].parent)
    /\ UNCHANGED <<phase, conn, future, held, stream, requested, authRefs>>

-----------------------------------------------------------------------------
(* The other services, between Ticks.                                      *)

\* A service answers later: SetReady on a future that is still in its pool.
AnswerFuture(k, f, a) ==
    /\ phase = "io"
    /\ future[k][f].owner # Null
    /\ future[k][f].answer = "pending"
    /\ a # "pending" /\ (a = "okUdp" => k = "auth")
    /\ future' = [future EXCEPT ![k][f].answer = a]
    /\ IF k = "auth" THEN AuthAnswered(future[k][f].owner, a) ELSE UNCHANGED authRefs
    /\ UNCHANGED <<phase, conn, listVars, held, chan, stream, requested>>

\* PostData from the relay service: data of the target for the client.  The
\* assertion of the handler is taken as the relay's obligation here.
PostData(c, w) ==
    /\ phase = "io"
    /\ Live(c) /\ c \in requested
    /\ held["conn"][c] = Null
    /\ ~conn[c].DeleteMark
    /\ KeepAlive(c)
    /\ conn' = [conn EXCEPT ![c].writes = @ \/ w]
    /\ UNCHANGED <<phase, future, held, chan, stream, requested, authRefs>>

\* PostData for a udp channel: dropped unless the client was heard before.
PostDataUdp(h) ==
    /\ phase = "io"
    /\ chan[h].parent # Null
    /\ chan[h].clientSeen
    /\ KeepAlive(chan[h].parent)
    /\ UNCHANGED <<phase, conn, future, held, chan, stream, requested, authRefs>>

\* A connection with nothing left to write stays on the list it is on.
DeferGracefulKill(c) ==
    /\ conn' = [conn EXCEPT ![c].DeleteMark = TRUE]
    /\ IF conn[c].writes THEN StampAndGrabTail(c, "graceful") ELSE UNCHANGED listVars

\* CloseConnection from the relay service.
CloseConnection(c) ==
    /\ phase = "io"
    /\ Live(c) /\ c \in requested
    /\ ~conn[c].DeleteMark
    /\ DeferGracefulKill(c)
    /\ UNCHANGED <<phase, future, held, chan, stream, requested, authRefs>>

-----------------------------------------------------------------------------
(* Tick.                                                                   *)

\* The order of the loops.
Loop == [auth |-> "device", device |-> "conn", conn |-> "udp", udp |-> "init", init |-> "idle",
         idle |-> "graceful", graceful |-> "kill", kill |-> "io"]

\* Mutants: the timeout of the handshake, of the graceful kill, is not checked.
FollowingUntimed(p) == [Loop EXCEPT !.udp = "idle"][p]
FollowingUngraceful(p) == [Loop EXCEPT !.idle = "kill"][p]

Following(p) == Loop[p]

\* Mutant: timeouts run before the answers are picked up.
TickBeginWithTimeouts(d) ==
    /\ phase = "io"
    /\ Elapse(d)
    /\ phase' = "init"
    /\ UNCHANGED <<conn, future, held, chan, stream, requested, authRefs>>

TickBegin(d) ==
    /\ phase = "io"
    /\ Elapse(d)
    /\ phase' = "auth"
    /\ UNCHANGED <<conn, future, held, chan, stream, requested, authRefs>>

OnAuthResult(f, a, w) ==
    LET c == future["auth"][f].owner
        granted == future["auth"][f].answer # "fail"
        g == AcquireFuture("device")
        asked == granted /\ g # Null
    IN  /\ phase = "auth"
        /\ f \in Ready("auth")
        /\ conn' = [conn EXCEPT
              ![c].LocalAuthId = @ \/ granted,
              ![c].EnableUdpTarget = @ \/ (/\ future["auth"][f].answer = "okUdp"
                                           /\ conn[c].Type = "S5_CHALLENGE"),
              ![c].writes = @ \/ (~asked /\ w)]
        /\ future' = Filled(Released("auth", c), "device", IF asked THEN g ELSE Null, c, a)
        /\ held' = [held EXCEPT !["auth"][c] = Null, !["device"][c] = IF granted THEN g ELSE @]
        /\ UNCHANGED <<phase, listVars, chan, stream, requested, authRefs>>

\* An http client's connection is requested at once, a socks client is told to
\* name its target.
OnAcquireDeviceResult(f, a, w) ==
    LET c == future["device"][f].owner
        found == future["device"][f].answer # "fail"
        http == conn[c].Type \in {"HTTP_RAW", "HTTP_NORMAL"}
        g == AcquireFuture("conn")
        asked == found /\ http /\ g # Null
    IN  /\ phase = "device"
        /\ f \in Ready("device")
        /\ conn' = [conn EXCEPT
              ![c].DeviceReference = @ \/ found,
              ![c].DataProcessor = IF found /\ ~http THEN "OnS5Target" ELSE @,
              ![c].writes = @ \/ (~asked /\ w)]
        /\ future' = Filled(Released("device", c), "conn", IF asked THEN g ELSE Null, c, a)
        /\ held' = [held EXCEPT !["device"][c] = Null,
                                !["conn"][c] = IF found /\ http THEN g ELSE @]
        /\ requested' = IF asked THEN requested \cup {c} ELSE requested
        /\ UNCHANGED <<phase, listVars, chan, stream, authRefs>>

\* Mutant: Http.Content is posted and kept.
ContentPostedTwice(c) == [stream EXCEPT ![c].relayed = @ \o stream[c].content]

\* Http.Content goes to the new relay connection and is reset.
ContentPosted(c) ==
    [stream EXCEPT ![c].relayed = @ \o stream[c].content, ![c].content = <<>>]

OnAcquireDeviceConnectionResult(f, w) ==
    LET c == future["conn"][f].owner
        made == future["conn"][f].answer # "fail"
        plain == conn[c].Type = "HTTP_NORMAL"
    IN  /\ phase = "conn"
        /\ f \in Ready("conn")
        /\ conn' = [conn EXCEPT
              ![c].RelaySideConnectionId = @ \/ made,
              ![c].DataProcessor = IF made /\ ~plain THEN "OnRawData" ELSE @,
              ![c].writes = @ \/ ((~made \/ ~plain) /\ w)]
        /\ stream' = IF made /\ plain THEN ContentPosted(c) ELSE stream
        /\ future' = Released("conn", c)
        /\ held' = [held EXCEPT !["conn"][c] = Null]
        /\ UNCHANGED <<phase, listVars, chan, requested, authRefs>>

OnAcquireDeviceUdpChannelResult(f, w) ==
    LET c == future["udp"][f].owner
        made == future["udp"][f].answer # "fail"
    IN  /\ phase = "udp"
        /\ f \in Ready("udp")
        /\ chan' = [h \in Chan |-> IF made /\ h = conn[c].BindUdpChannel
                                   THEN [chan[h] EXCEPT !.relaySide = TRUE] ELSE chan[h]]
        /\ conn' = [conn EXCEPT ![c].writes = @ \/ w]
        /\ IF made THEN KeepAlive(c) ELSE UNCHANGED listVars
        /\ future' = Released("udp", c)
        /\ held' = [held EXCEPT !["udp"][c] = Null]
        /\ UNCHANGED <<phase, stream, requested, authRefs>>

Timeout(l) ==
    CASE l = "init" -> InitTimeout [] l = "idle" -> IdleTimeout [] OTHER -> GracefulTimeout

\* What PopHead(Cond) of the timeout list l yields.
Expired(c, l) == IsHead(c, l) /\ age[c] >= Timeout(l)

\* One iteration of DeferKillInitTimeoutConnection and its two siblings.
DeferKillTimeoutConnection(c) ==
    /\ phase \in {"init", "idle", "graceful"}
    /\ Expired(c, phase)
    /\ GrabTail(c, "kill")
    /\ UNCHANGED <<phase, conn, future, held, chan, stream, requested, authRefs>>

ExcuteKillConnection(c) ==
    /\ phase = "kill"
    /\ IsHead(c, "kill")
    /\ DestroyConnection(c)
    /\ UNCHANGED phase

\* A loop of Tick ends when its list yields nothing more.  ClearTimeoutFuture,
\* the last of Tick, walks four lists that nothing is ever added to.
LoopDone ==
    CASE phase \in Kind -> Ready(phase) = {}
      [] phase = "kill" -> Members("kill") = {}
      [] OTHER -> \A c \in Conn : ~Expired(c, phase)

EndLoop ==
    /\ phase \notin {"io", "aborted"}
    /\ LoopDone
    /\ phase' = Following(phase)
    /\ UNCHANGED <<conn, listVars, future, held, chan, stream, requested, authRefs>>

-----------------------------------------------------------------------------

Tick ==
    \/ \E d \in {0, 1} : TickBegin(d)
    \/ \E f \in Slot, w \in BOOLEAN :
          \/ \E a \in Immediate("device") : OnAuthResult(f, a, w)
          \/ \E a \in Immediate("conn") : OnAcquireDeviceResult(f, a, w)
          \/ OnAcquireDeviceConnectionResult(f, w)
          \/ OnAcquireDeviceUdpChannelResult(f, w)
    \/ \E c \in Conn : DeferKillTimeoutConnection(c) \/ ExcuteKillConnection(c)
    \/ EndLoop

ClientData(c) ==
    \/ \E w \in BOOLEAN : RefuseAndWait(c, w) \/ OnS5Challenge(c, w) \/ OnS5TargetRefused(c, w)
    \/ \E w \in BOOLEAN, a \in Immediate("auth") :
          \/ OnS5ChallengeNoAuth(c, a, w)
          \/ OnS5AuthInfo(c, a, w)
          \/ OnHttpRawHeaderProcessor(c, a, w)
          \/ OnHttpNormalHeaderProcessor(c, a, w)
    \/ \E w \in BOOLEAN, a \in Immediate("conn") : OnS5TargetTcp(c, a, w)
    \/ \E w \in BOOLEAN, a \in Immediate("udp"), h \in Chan : OnS5TargetUdp(c, h, a, w)
    \/ OnS5TargetUnknownAddress(c)
    \/ OnHttpChallenge(c) \/ OnHttpBody(c) \/ OnRawData(c) \/ KillConnectionOnData(c)

Client ==
    \/ \E c \in Conn : OnNewConnection(c) \/ OnPeerClose(c) \/ OnFlush(c) \/ ClientData(c)
    \/ \E h \in Chan : OnUdpData(h)

Services ==
    \/ \E k \in Kind, f \in Slot, a \in Answer : AnswerFuture(k, f, a)
    \/ \E c \in Conn : CloseConnection(c) \/ \E w \in BOOLEAN : PostData(c, w)
    \/ \E h \in Chan : PostDataUdp(h)

Next == Client \/ Services \/ Tick

Spec == Init /\ [][Next]_vars

-----------------------------------------------------------------------------
(* Properties.                                                             *)

\* Every variable has its type.  An account is never given back more often than
\* it was taken (authRefs is a natural number).
TypeOK ==
    /\ phase \in Phase
    /\ conn \in [Conn -> ClientConnection]
    /\ ListTypeOK
    /\ future \in [Kind -> [Slot -> [owner : Conn \cup {Null}, answer : Answer]]]
    /\ held \in [Kind -> [Conn -> Slot \cup {Null}]]
    /\ chan \in [Chan -> [parent : Conn \cup {Null}, relaySide : BOOLEAN, clientSeen : BOOLEAN]]
    /\ stream \in
          [Conn -> [content : Seq(Nat), relayed : Seq(Nat), consumed : Nat, refused : Nat]]
    /\ requested \in SUBSET Conn
    /\ authRefs \in [Conn -> Nat]

\* The raw pointers between a connection and its futures, in both directions: a
\* future in use belongs to a live connection that points back to it (asserted by
\* each On...Result), and a pointer of a connection is to a future in use of its
\* own (asserted by ReleaseFuture).  A future that outlives its connection, or a
\* place of the pool that is taken again, breaks it.
FutureOwnership ==
    /\ \A k \in Kind, f \in Slot :
          LET c == future[k][f].owner IN c # Null => Live(c) /\ held[k][c] = f
    /\ \A k \in Kind, c \in Conn :
          LET f == held[k][c] IN f # Null => future[k][f].owner = c

\* The auth future of c is answered and holds a reference to an account.
AnsweredAccount(c) ==
    held["auth"][c] # Null /\ future["auth"][held["auth"][c]].answer \in {"ok", "okUdp"}

\* The references the authentication service counts for a connection are those it
\* will give back: one from the answer until DestroyConnection, and none after it.
\* An answer that is ready when its connection dies would leak its reference.
AuthBalance ==
    \A c \in Conn : authRefs[c] = (IF conn[c].LocalAuthId THEN 1 ELSE 0)
                                 + (IF AnsweredAccount(c) THEN 1 ELSE 0)

\* Once Tick has picked up the answers of the authentication service, no other
\* comes before the end of Tick: the services answer between Ticks.
AuthDrained == phase \in {"device", "conn", "udp", "init", "idle", "graceful", "kill"} =>
                   Ready("auth") = {}

\* Every live connection is on exactly one of the lists a Tick looks at, and one
\* that waits for its death between Ticks takes no more data: it is marked.
ListPlacement ==
    \A c \in Conn :
        /\ Live(c) <=> place[c] # "none"
        /\ phase = "io" /\ place[c] \in {"graceful", "kill"} => conn[c].DeleteMark

\* Each timeout loop stops at the first node that is young enough.  It misses none
\* that is not: the lists are ordered by time, and after a Tick no connection is
\* left on a list for longer than the list's timeout.
NoExpiredSurvivor ==
    /\ \A l \in ListName \ {"kill"} : Ordered(l)
    /\ phase = "io" => \A l \in ListName \ {"kill"} : \A c \in Members(l) : age[c] < Timeout(l)

\* A udp channel in use points to a live connection that points back to it, and the
\* other way round (asserted by DestroyConnection and OnData): a datagram never
\* reaches a connection that is gone, or a later one.
UdpChannelOwnership ==
    /\ \A h \in Chan :
          LET c == chan[h].parent IN c # Null => Live(c) /\ conn[c].BindUdpChannel = h
    /\ \A c \in Conn :
          LET h == conn[c].BindUdpChannel IN h # Null => chan[h].parent = c

\* Each On...Result dispatches on the type of the connection and drops an answer
\* that has no branch: whatever happened while the question was open, the type is
\* still one that has a branch, and a udp answer finds its channel.
AnswersServed ==
    \A c \in Conn :
        /\ held["auth"][c] # Null \/ held["device"][c] # Null =>
              conn[c].Type \in {"S5_CHALLENGE", "HTTP_RAW", "HTTP_NORMAL"}
        /\ held["conn"][c] # Null \/ conn[c].RelaySideConnectionId =>
              conn[c].Type \in {"S5_TCP", "HTTP_RAW", "HTTP_NORMAL"}
        /\ held["udp"][c] # Null =>
              conn[c].Type = "S5_UDP" /\ conn[c].BindUdpChannel # Null

\* Data of a client reaches the relay only for an authenticated connection with a
\* device and a relay connection, and a processor that forwards without looking
\* (OnRawData, OnHttpBody once Http.Content was posted) only runs on such a one.
ForwardingAuthorized ==
    \A c \in Conn :
        (\/ stream[c].relayed # <<>>
         \/ conn[c].DataProcessor = "OnRawData"
         \/ conn[c].DataProcessor = "OnHttpBody" /\ stream[c].content = <<>>)
        => conn[c].LocalAuthId /\ conn[c].DeviceReference /\ conn[c].RelaySideConnectionId

\* How many of the k consumed pieces are header, how many are body.
HeaderPieces(k) == IF k >= 2 THEN 1 ELSE 0
BodyPieces(k) == IF k > 2 THEN k - 2 ELSE 0

\* What a plain http client sent, as the target sees it: the request line, its
\* header once, and once more for each time it was refused after it was appended, then
\* the body; no piece is lost, doubled or overtaken, though it arrived before,
\* while and after the relay connected, and nothing is left behind once it has.
StreamInOrder ==
    \A c \in Conn : conn[c].Type = "HTTP_NORMAL" =>
        LET s == stream[c].relayed \o stream[c].content
            k == stream[c].consumed
            header == stream[c].refused + HeaderPieces(k)
        IN  /\ Len(s) = 1 + header + BodyPieces(k)
            /\ s[1] = 1
            /\ \A i \in 2 .. Len(s) : s[i] = IF i <= 1 + header THEN 2 ELSE i - header + 1
            /\ conn[c].RelaySideConnectionId => stream[c].content = <<>>

\* The processors that run before anything is asked.
Opening == {"OnGuessProxyType", "OnS5AuthInfo", "OnHttpRawHeaderProcessor",
            "OnHttpNormalHeaderProcessor"}

Asking(c, k) == held[k][c] # Null
Idle(c) == \A k \in Kind : ~Asking(c, k)

\* Where a connection is in its protocol: it has one question open at most, each
\* question is asked once the one before was answered well, and the processors
\* that start the protocol run before any was asked.
OneQuestion(c) ==
    /\ \A j, k \in Kind : Asking(c, j) /\ Asking(c, k) => j = k
    /\ conn[c].DataProcessor \in Opening => Idle(c) /\ ~conn[c].LocalAuthId
    /\ conn[c].DataProcessor = "OnS5Target" =>
             /\ Idle(c) /\ conn[c].DeviceReference
             /\ ~conn[c].RelaySideConnectionId /\ conn[c].BindUdpChannel = Null
    /\ Asking(c, "auth") => ~conn[c].LocalAuthId
    /\ Asking(c, "device") => conn[c].LocalAuthId /\ ~conn[c].DeviceReference
    /\ Asking(c, "conn") => conn[c].DeviceReference /\ ~conn[c].RelaySideConnectionId
    /\ conn[c].LocalAuthId => Live(c)
    /\ conn[c].DeviceReference => conn[c].LocalAuthId
    /\ conn[c].RelaySideConnectionId \/ conn[c].BindUdpChannel # Null =>
             conn[c].DeviceReference

OneQuestionAtATime == \A c \in Conn : OneQuestion(c)

\* How far the question for a relay connection of each client connection is.
ConnectionQuestion == [c \in Conn |->
    IF c \notin requested THEN "unasked"
    ELSE IF held["conn"][c] = Null THEN "done"
    ELSE CASE future["conn"][held["conn"][c]].answer \in {"ok", "okUdp"} -> "ok"
           [] OTHER -> future["conn"][held["conn"][c]].answer]

\* DeferKill, DeferGracefulKill: from the mark to its end a connection is not
\* revived.  It stays marked, no event postpones its deadline but the one that
\* marks it, and no more of the client's data is taken (datagrams of a udp client
\* apart: OnUdpData forwards them all the same).
MarkedStaysMarked ==
    [][\A c \in Conn : Live(c) /\ conn[c].DeleteMark =>
          \/ conn'[c].state = "gone"
          \/ /\ conn'[c].DeleteMark
             /\ age'[c] >= age[c]
             /\ stream'[c].consumed = stream[c].consumed]_vars

\* The assertion of ReleaseFuture (future.hpp:70): no handler releases a future it
\* does not have.
NoAssertionFails == phase # "aborted"
=============================================================================
