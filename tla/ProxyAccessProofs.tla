------------------------- MODULE ProxyAccessProofs -------------------------
(***************************************************************************)
(* Proofs about ProxyAccess, for every number of connections, futures and  *)
(* udp channels, and about LocalProxy, its composition with the relay.     *)
(*                                                                         *)
(* The first inductive invariant, IInv, is about the raw pointers between  *)
(* connections and futures, the order of the questions of a connection,    *)
(* and the account references.  The three depend on each other.  A future  *)
(* is released only for a connection that asked no other question          *)
(* (OneQuestionAtATime), the answer found is that of the connection        *)
(* (FutureOwnership), and the reference it carries reaches its connection  *)
(* before the connection can die (AuthDrained, from the order of the loops *)
(* of Tick).  So IInv is their conjunction, and each kind of handler has a *)
(* lemma that shows it is preserved.                                       *)
(*                                                                         *)
(* The second, JInv, is about what becomes of each connection: the udp     *)
(* channel it is bound to, the timeout list it is on, its type, its mark   *)
(* and its data.  Given IInv, what a step does to one connection is one of *)
(* the moves of Move(c), and what it does to the lists one of ListMove;    *)
(* each conjunct of JInv is shown for the moves, not for the handlers.     *)
(*                                                                         *)
(* The third, LocalInv, is about the two services together.  They keep     *)
(* their own invariants when each is the environment of the other, what    *)
(* the relay assumes of the proxy is what the proxy does, and the data of  *)
(* a client reaches the target.                                            *)
(***************************************************************************)
EXTENDS LocalProxy, FiniteSetTheorems, SequenceTheorems, TLAPS

USE DEF Kind

\* The inductive invariant.
IInv ==
    /\ TypeOK
    /\ FutureOwnership
    /\ OneQuestionAtATime
    /\ AuthBalance
    /\ AuthDrained

\* What the pool hands out, and what it takes back, is a connection.
LEMMA BlankType == ASSUME NEW s \in {"unused", "live", "gone"} PROVE Blank(s) \in ClientConnection
BY DEF Blank, ClientConnection, Type, Processor

\* A handler that assigns to one ClientConnection leaves the others alone.
LEMMA ConnUpdate ==
    ASSUME conn \in [Conn -> ClientConnection], NEW c \in Conn, NEW r \in ClientConnection,
           conn' = [conn EXCEPT ![c] = r]
    PROVE  /\ conn' \in [Conn -> ClientConnection]
           /\ conn'[c] = r
           /\ \A d \in Conn \ {c} : conn'[d] = conn[d]
OBVIOUS

\* xList.GrabTail keeps the lists lists.
LEMMA GrabTailType ==
    ASSUME ListTypeOK, NEW c \in Conn, NEW l \in ListName, GrabTail(c, l)
    PROVE  ListTypeOK'
BY DEF ListTypeOK, GrabTail, Members

\* Stamping a node and moving it to a tail keeps the lists lists.
LEMMA StampType ==
    ASSUME ListTypeOK, NEW c \in Conn, NEW l \in ListName, StampAndGrabTail(c, l)
    PROVE  ListTypeOK'
BY ParameterAssumption DEF ListTypeOK, StampAndGrabTail, Members

\* KeepAlive, of a marked connection or another, keeps the lists lists.
LEMMA KeepAliveType ==
    ASSUME ListTypeOK, NEW c \in Conn, KeepAlive(c)
    PROVE  ListTypeOK'
<1>1. CASE UNCHANGED listVars BY <1>1 DEF ListTypeOK, listVars
<1>2. CASE StampAndGrabTail(c, "idle") BY <1>2, StampType DEF ListName
<1>3. QED BY <1>1, <1>2 DEF KeepAlive

\* Releasing an object that holds a node keeps the lists lists.
LEMMA UnlinkType ==
    ASSUME ListTypeOK, NEW c \in Conn, Unlink(c)
    PROVE  ListTypeOK'
BY ParameterAssumption DEF ListTypeOK, Unlink

\* LocalTicker.Update keeps the ages in their range.
LEMMA ElapseType ==
    ASSUME ListTypeOK, NEW d \in {0, 1}, Elapse(d)
    PROVE  ListTypeOK'
BY ParameterAssumption DEF ListTypeOK, Elapse

\* The connection q differs from p in nothing the invariant depends on: its processor
\* changes among those that open the protocol, or to one that no longer does.
Alike(p, q) ==
    /\ q.state = p.state /\ q.LocalAuthId = p.LocalAuthId
    /\ q.DeviceReference = p.DeviceReference
    /\ q.RelaySideConnectionId = p.RelaySideConnectionId
    /\ q.BindUdpChannel = p.BindUdpChannel
    /\ \/ q.DataProcessor = p.DataProcessor
       \/ q.DataProcessor \notin Opening \cup {"OnS5Target"}
       \/ p.DataProcessor \in Opening /\ q.DataProcessor \in Opening

\* A step that touches no future, no account and nothing of a connection that the
\* invariant reads preserves its three relations.
LEMMA QuietStep ==
    ASSUME IInv, UNCHANGED <<future, held, authRefs>>,
           \A d \in Conn : Alike(conn[d], conn'[d])
    PROVE  FutureOwnership' /\ OneQuestionAtATime' /\ AuthBalance'
<1>1. FutureOwnership'
  <2>1. \A k \in Kind, f \in Slot : future[k][f].owner \in Conn \cup {Null}
    BY DEF IInv, TypeOK
  <2>2. \A c \in Conn : Live(c)' = Live(c)
    BY DEF Live, Alike
  <2>3. QED BY <2>1, <2>2 DEF IInv, FutureOwnership
<1>2. OneQuestionAtATime'
  <2>1. SUFFICES ASSUME NEW c \in Conn PROVE OneQuestion(c)'
    BY DEF OneQuestionAtATime
  <2>2. OneQuestion(c) /\ Alike(conn[c], conn'[c]) BY DEF IInv, OneQuestionAtATime
  <2>3. QED BY <2>2 DEF OneQuestion, Asking, Idle, Live, Alike, Opening
<1>3. AuthBalance'
  BY DEF IInv, AuthBalance, AnsweredAccount, Alike
<1>4. QED BY <1>1, <1>2, <1>3

\* The invariant holds after Init(): the pools are full, nobody is connected.
THEOREM InitIInv == Init => IInv
<1>1. Init => TypeOK
BY ParameterAssumption DEF Init, TypeOK, ListInit, ListTypeOK, Blank, NoData, FreeFuture, FreeChannel,
   ClientConnection, Phase, Answer, Type, Processor, ListName
<1>2. Init => FutureOwnership
  BY ParameterAssumption DEF Init, FutureOwnership, FreeFuture
<1>3. Init => OneQuestionAtATime
  BY ParameterAssumption DEF Init, OneQuestionAtATime, OneQuestion, Asking, Idle, Live, Blank
<1>4. Init => AuthBalance /\ AuthDrained
  BY ParameterAssumption DEF Init, AuthBalance, AnsweredAccount, Blank, AuthDrained
<1>5. QED BY <1>1, <1>2, <1>3, <1>4 DEF IInv

\* A place that AcquireFuture takes from a pool is free (or there is none).
LEMMA AcquireFutureFree ==
    ASSUME NEW k \in Kind
    PROVE  \/ AcquireFuture(k) = Null
           \/ AcquireFuture(k) \in Slot /\ future[k][AcquireFuture(k)].owner = Null
BY DEF AcquireFuture

\* The types of the pools and of the pointers into them.
Futures == [Kind -> [Slot -> [owner : Conn \cup {Null}, answer : Answer]]]
Pointers == [Kind -> [Conn -> Slot \cup {Null}]]

\* A question put to a service leaves the future pools well formed.
LEMMA FilledType ==
    ASSUME NEW F \in Futures, NEW k \in Kind, NEW f \in Slot \cup {Null}, NEW c \in Conn,
           NEW a \in Answer
    PROVE  Filled(F, k, f, c, a) \in Futures
BY DEF Futures, Filled

\* Release...Future leaves the future pools well formed.
LEMMA ReleasedType ==
    ASSUME future \in Futures, NEW k \in Kind, NEW c \in Conn
    PROVE  Released(k, c) \in Futures
BY DEF Futures, Released, FreeFuture, Answer

\* FutureOwnership of the pools F and the pointers H, if S are the live connections.
Owned(F, H, S) ==
    /\ \A k \in Kind, f \in Slot : F[k][f].owner # Null =>
          F[k][f].owner \in S /\ H[k][F[k][f].owner] = f
    /\ \A k \in Kind, c \in Conn : H[k][c] # Null => F[k][H[k][c]].owner = c

\* The connections that were accepted and not destroyed.
LiveSet == {c \in Conn : Live(c)}

\* FutureOwnership, as a relation of two values and a set: before the step,
LEMMA OwnedIff ==
    ASSUME future \in Futures
    PROVE  FutureOwnership <=> Owned(future, held, LiveSet)
BY DEF FutureOwnership, Owned, LiveSet, Futures

\* and after it.
LEMMA OwnedIffNext ==
    ASSUME future' \in Futures
    PROVE  FutureOwnership' <=> Owned(future', held', LiveSet')
BY DEF FutureOwnership, Owned, LiveSet, Futures

\* Taking a free place for a live connection that holds none of its kind keeps the
\* pointers in both directions (the Request... functions).
LEMMA OwnedAsk ==
    ASSUME NEW F \in Futures, NEW H \in Pointers, NEW S \in SUBSET Conn, Owned(F, H, S),
           NEW k \in Kind, NEW c \in S, NEW a \in Answer, H[k][c] = Null,
           NEW f \in Slot \cup {Null}, f # Null => F[k][f].owner = Null
    PROVE  Owned(Filled(F, k, f, c, a), [H EXCEPT ![k][c] = f], S)
<1>. DEFINE G == Filled(F, k, f, c, a)
            I == [H EXCEPT ![k][c] = f]
<1>0. Null \notin Conn \cup Slot BY ParameterAssumption
<1>1. CASE f = Null
  <2>1. G = F /\ I = H BY <1>1 DEF Filled, Pointers
  <2>2. QED BY <2>1
<1>2. CASE f \in Slot
  <2>0. G = [F EXCEPT ![k][f] = [owner |-> c, answer |-> a]]
    BY <1>0, <1>2 DEF Filled
  <2>1. /\ G[k][f] = [owner |-> c, answer |-> a]
        /\ \A j \in Kind, g \in Slot : j # k \/ g # f => G[j][g] = F[j][g]
    BY <2>0, <1>2 DEF Futures
  <2>2. /\ I[k][c] = f
        /\ \A j \in Kind, d \in Conn : j # k \/ d # c => I[j][d] = H[j][d]
    BY DEF Pointers
  <2>3. ASSUME NEW j \in Kind, NEW g \in Slot, G[j][g].owner # Null
        PROVE  G[j][g].owner \in S /\ I[j][G[j][g].owner] = g
    <3>1. CASE j = k /\ g = f BY <3>1, <2>1, <2>2
    <3>2. CASE ~(j = k /\ g = f)
      <4>1. G[j][g] = F[j][g] BY <3>2, <2>1
      <4>2. F[j][g].owner \in S /\ H[j][F[j][g].owner] = g BY <4>1, <2>3 DEF Owned
      <4>3. j # k \/ F[j][g].owner # c BY <1>0, <4>2
      <4>4. QED BY <4>1, <4>2, <4>3, <2>2
    <3>3. QED BY <3>1, <3>2
  <2>4. ASSUME NEW j \in Kind, NEW d \in Conn, I[j][d] # Null
        PROVE  G[j][I[j][d]].owner = d
    BY <1>0, <1>2, <2>1, <2>2, <2>4 DEF Owned, Pointers
  <2>5. QED BY <2>3, <2>4 DEF Owned
<1>3. QED BY <1>1, <1>2

\* Releasing the place a connection holds keeps them too (ReleaseFuture).
LEMMA OwnedRelease ==
    ASSUME future \in Futures, held \in Pointers, NEW S \in SUBSET Conn,
           Owned(future, held, S), NEW k \in Kind, NEW c \in S
    PROVE  Owned(Released(k, c), [held EXCEPT ![k][c] = Null], S)
<1>. DEFINE G == Released(k, c)
            I == [held EXCEPT ![k][c] = Null]
<1>0. Null \notin Conn \cup Slot BY ParameterAssumption
<1>1. \A j \in Kind, g \in Slot :
          G[j][g] = IF j = k /\ g = held[k][c] THEN FreeFuture ELSE future[j][g]
  BY DEF Released, Futures
<1>2. /\ I[k][c] = Null
      /\ \A j \in Kind, d \in Conn : j # k \/ d # c => I[j][d] = held[j][d]
  BY DEF Pointers
<1>3. ASSUME NEW j \in Kind, NEW g \in Slot, G[j][g].owner # Null
      PROVE  G[j][g].owner \in S /\ I[j][G[j][g].owner] = g
  BY <1>0, <1>1, <1>2, <1>3 DEF Owned, Futures, FreeFuture
<1>4. ASSUME NEW j \in Kind, NEW d \in Conn, I[j][d] # Null
      PROVE  G[j][I[j][d]].owner = d
  BY <1>0, <1>1, <1>2, <1>4 DEF Owned, Pointers
<1>5. QED BY <1>3, <1>4 DEF Owned

\* The futures and the pointers have their types.
LEMMA PoolTypes ==
    ASSUME TypeOK
    PROVE  future \in Futures /\ held \in Pointers
BY DEF TypeOK, Futures, Pointers

\* A handler that neither accepts nor destroys leaves the same connections alive.
LEMMA SameLive ==
    ASSUME \A d \in Conn : conn'[d].state = conn[d].state
    PROVE  LiveSet' = LiveSet
BY DEF LiveSet, Live

\* A step that leaves the auth futures alone leaves the accounts balanced.
LEMMA AuthUntouched ==
    ASSUME AuthBalance, UNCHANGED authRefs, held'["auth"] = held["auth"],
           future'["auth"] = future["auth"],
           \A d \in Conn : conn'[d].LocalAuthId = conn[d].LocalAuthId
    PROVE  AuthBalance'
BY DEF AuthBalance, AnsweredAccount

\* RequestAuthentication, called by a processor that starts the protocol, preserves
\* the relations; an immediate answer of the service counts its reference.
LEMMA AskAuth ==
    ASSUME IInv, NEW c \in Conn, Live(c), conn[c].DataProcessor \in Opening,
           NEW t \in Type, NEW p \in Processor \ {"OnS5Target"}, NEW a \in Answer, NEW w \in BOOLEAN,
           p \in Opening => AcquireFuture("auth") = Null,
           RequestAuthentication(c, t, p, a, w)
    PROVE  /\ conn' \in [Conn -> ClientConnection]
           /\ future' \in Futures /\ held' \in Pointers
           /\ authRefs' \in [Conn -> Nat]
           /\ FutureOwnership' /\ OneQuestionAtATime' /\ AuthBalance'
<1>. DEFINE f == AcquireFuture("auth")
            r == [conn[c] EXCEPT !.Type = t, !.DataProcessor = p,
                                 !.writes = @ \/ (f = Null /\ w)]
<1>0. /\ TypeOK /\ conn[c] \in ClientConnection /\ future \in Futures /\ held \in Pointers
      /\ Null \notin Conn \cup Slot
  BY ParameterAssumption, PoolTypes DEF IInv, TypeOK
<1>1. /\ OneQuestion(c) /\ Idle(c) /\ ~conn[c].LocalAuthId
      /\ ~conn[c].DeviceReference /\ ~conn[c].RelaySideConnectionId
      /\ conn[c].BindUdpChannel = Null
  BY DEF IInv, OneQuestionAtATime, OneQuestion
<1>2. f \in Slot \cup {Null} /\ (f # Null => future["auth"][f].owner = Null)
  BY AcquireFutureFree
<1>3. r \in ClientConnection BY <1>0 DEF ClientConnection
<1>4. conn' = [conn EXCEPT ![c] = r] BY <1>0 DEF RequestAuthentication, TypeOK
<1>5. /\ conn' \in [Conn -> ClientConnection] /\ conn'[c] = r
      /\ \A d \in Conn \ {c} : conn'[d] = conn[d]
  BY <1>0, <1>3, <1>4, ConnUpdate DEF TypeOK
<1>6. /\ r.state = conn[c].state /\ r.LocalAuthId = conn[c].LocalAuthId
      /\ r.DeviceReference = conn[c].DeviceReference
      /\ r.RelaySideConnectionId = conn[c].RelaySideConnectionId
      /\ r.BindUdpChannel = conn[c].BindUdpChannel /\ r.DataProcessor = p
  BY <1>0 DEF ClientConnection
<1>7. /\ future' = Filled(future, "auth", f, c, a) /\ held' = [held EXCEPT !["auth"][c] = f]
  BY DEF RequestAuthentication
<1>8. future' \in Futures /\ held' \in Pointers
  BY <1>0, <1>2, <1>7, FilledType DEF Pointers
<1>9. FutureOwnership'
  <2>1. LiveSet' = LiveSet BY <1>5, <1>6, SameLive
  <2>2. Owned(future, held, LiveSet) BY <1>0, OwnedIff DEF IInv
  <2>3. c \in LiveSet /\ LiveSet \in SUBSET Conn BY DEF LiveSet
  <2>4. held["auth"][c] = Null BY <1>1 DEF Idle, Asking
  <2>5. Owned(future', held', LiveSet) BY <1>0, <1>2, <1>7, <2>2, <2>3, <2>4, OwnedAsk
  <2>6. QED BY <1>8, <2>1, <2>5, OwnedIffNext
<1>10. OneQuestionAtATime'
  <2>1. ASSUME NEW d \in Conn \ {c} PROVE OneQuestion(d)'
    <3>1. \A k \in Kind : held'[k][d] = held[k][d] BY <1>0, <1>7 DEF Pointers
    <3>2. OneQuestion(d) BY DEF IInv, OneQuestionAtATime
    <3>3. QED BY <3>1, <3>2, <1>5 DEF OneQuestion, Asking, Idle, Live
  <2>2. OneQuestion(c)'
    <3>1. \A k \in Kind : held'[k][c] = IF k = "auth" THEN f ELSE Null
      BY <1>0, <1>1, <1>7 DEF Pointers, Idle, Asking
    <3>2. QED BY <3>1, <1>1, <1>5, <1>6 DEF OneQuestion, Asking, Idle, Live
  <2>3. QED BY <2>1, <2>2 DEF OneQuestionAtATime
<1>11. AuthBalance' /\ authRefs' \in [Conn -> Nat]
  <2>1. authRefs \in [Conn -> Nat] /\ AuthBalance BY <1>0 DEF IInv, TypeOK
  <2>2. authRefs[c] = 0
    BY <1>1, <2>1 DEF AuthBalance, AnsweredAccount, Idle, Asking
  <2>3. CASE f = Null
    <3>1. UNCHANGED <<authRefs, future>> BY <2>3, <1>7 DEF RequestAuthentication, Filled
    <3>2. held' = held
      BY <1>0, <1>1, <1>7, <2>3 DEF Pointers, Idle, Asking
    <3>3. QED BY <2>1, <3>1, <3>2, <1>5, <1>6, AuthUntouched
  <2>4. CASE f \in Slot
    <3>1. /\ future' = [future EXCEPT !["auth"][f] = [owner |-> c, answer |-> a]]
          /\ AuthAnswered(c, a)
      BY <1>0, <1>7, <2>4 DEF RequestAuthentication, Filled
    <3>2. /\ future'["auth"][f].answer = a /\ held'["auth"][c] = f
          /\ \A g \in Slot \ {f} : future'["auth"][g] = future["auth"][g]
          /\ \A d \in Conn \ {c} : held'["auth"][d] = held["auth"][d]
      BY <1>0, <1>7, <2>4, <3>1 DEF Futures, Pointers
    <3>3. AnsweredAccount(c)' <=> a \in {"ok", "okUdp"}
      BY <1>0, <2>4, <3>2 DEF AnsweredAccount
    <3>4. ASSUME NEW d \in Conn \ {c} PROVE AnsweredAccount(d)' = AnsweredAccount(d)
      <4>1. held["auth"][d] # Null => held["auth"][d] \in Slot \ {f}
        BY <1>0, <1>2, <2>4 DEF IInv, FutureOwnership, Pointers
      <4>2. QED BY <3>2, <4>1 DEF AnsweredAccount
    <3>5. /\ authRefs' \in [Conn -> Nat]
          /\ authRefs'[c] = IF a \in {"ok", "okUdp"} THEN 1 ELSE 0
          /\ \A d \in Conn \ {c} : authRefs'[d] = authRefs[d]
      BY <2>1, <2>2, <3>1 DEF AuthAnswered
    <3>6. ~conn'[c].LocalAuthId BY <1>1, <1>5, <1>6
    <3>7. \A d \in Conn \ {c} : conn'[d].LocalAuthId = conn[d].LocalAuthId BY <1>5
    <3>8. ASSUME NEW d \in Conn
          PROVE  authRefs'[d] = (IF conn'[d].LocalAuthId THEN 1 ELSE 0)
                              + (IF AnsweredAccount(d)' THEN 1 ELSE 0)
      <4>1. CASE d = c BY <4>1, <3>3, <3>5, <3>6
      <4>2. CASE d # c BY <4>2, <2>1, <3>4, <3>5, <3>7 DEF AuthBalance
      <4>3. QED BY <4>1, <4>2
    <3>9. QED BY <3>5, <3>8 DEF AuthBalance
  <2>5. QED BY <1>2, <2>3, <2>4
<1>12. QED BY <1>5, <1>8, <1>9, <1>10, <1>11

\* If the one connection a step is about still asks one question at most, all do.
LEMMA OthersKeep ==
    ASSUME IInv, NEW c \in Conn, NEW r \in ClientConnection, conn' = [conn EXCEPT ![c] = r],
           r.state = conn[c].state, future' \in Futures, Owned(future', held', LiveSet),
           \A k \in Kind, d \in Conn \ {c} : held'[k][d] = held[k][d],
           OneQuestion(c)'
    PROVE  /\ conn' \in [Conn -> ClientConnection] /\ conn'[c] = r
           /\ \A d \in Conn \ {c} : conn'[d] = conn[d]
           /\ FutureOwnership' /\ OneQuestionAtATime'
<1>1. /\ conn' \in [Conn -> ClientConnection] /\ conn'[c] = r
      /\ \A d \in Conn \ {c} : conn'[d] = conn[d]
  BY ConnUpdate DEF IInv, TypeOK
<1>2. FutureOwnership' BY <1>1, SameLive, OwnedIffNext
<1>3. ASSUME NEW d \in Conn \ {c} PROVE OneQuestion(d)'
  <2>1. OneQuestion(d) BY DEF IInv, OneQuestionAtATime
  <2>2. QED BY <1>1, <2>1 DEF OneQuestion, Asking, Idle, Live
<1>4. QED BY <1>1, <1>2, <1>3 DEF OneQuestionAtATime

\* RequestDeviceConnection and RequestDeviceUdpChannel, called by OnS5Target,
\* preserve the relations.
LEMMA AskTarget ==
    ASSUME IInv, NEW k \in {"conn", "udp"}, NEW c \in Conn, Live(c),
           conn[c].DataProcessor = "OnS5Target", NEW a \in Answer,
           future' = Filled(future, k, AcquireFuture(k), c, a),
           held' = [held EXCEPT ![k][c] = AcquireFuture(k)], UNCHANGED authRefs,
           NEW r \in ClientConnection, conn' = [conn EXCEPT ![c] = r],
           r.state = conn[c].state, r.LocalAuthId = conn[c].LocalAuthId,
           r.DeviceReference = conn[c].DeviceReference,
           r.RelaySideConnectionId = conn[c].RelaySideConnectionId,
           r.DataProcessor = "KillConnectionOnData"
    PROVE  /\ conn' \in [Conn -> ClientConnection]
           /\ future' \in Futures /\ held' \in Pointers
           /\ FutureOwnership' /\ OneQuestionAtATime' /\ AuthBalance'
<1>. DEFINE f == AcquireFuture(k)
<1>0. /\ TypeOK /\ future \in Futures /\ held \in Pointers /\ Null \notin Conn \cup Slot
      /\ FutureOwnership /\ AuthBalance
  BY ParameterAssumption, PoolTypes DEF IInv
<1>1. /\ Idle(c) /\ conn[c].LocalAuthId /\ conn[c].DeviceReference
      /\ ~conn[c].RelaySideConnectionId
  BY DEF IInv, OneQuestionAtATime, OneQuestion
<1>2. f \in Slot \cup {Null} /\ (f # Null => future[k][f].owner = Null)
  BY AcquireFutureFree
<1>3. future' \in Futures /\ held' \in Pointers
  BY <1>0, <1>2, FilledType DEF Pointers
<1>4. Owned(future', held', LiveSet)
  <2>1. Owned(future, held, LiveSet) BY <1>0, OwnedIff
  <2>2. c \in LiveSet /\ LiveSet \in SUBSET Conn BY DEF LiveSet
  <2>3. held[k][c] = Null BY <1>1 DEF Idle, Asking
  <2>4. QED BY <1>0, <1>2, <2>1, <2>2, <2>3, OwnedAsk
<1>5. \A j \in Kind, d \in Conn :
          held'[j][d] = IF j = k /\ d = c THEN f ELSE held[j][d]
  BY <1>0 DEF Pointers
<1>6. conn'[c] = r BY <1>0, ConnUpdate DEF TypeOK
<1>7. OneQuestion(c)'
  <2>1. \A j \in Kind : held'[j][c] = IF j = k THEN f ELSE Null
    BY <1>1, <1>5 DEF Idle, Asking
  <2>2. QED BY <2>1, <1>1, <1>6 DEF OneQuestion, Asking, Idle, Live, Opening
<1>8. /\ conn' \in [Conn -> ClientConnection] /\ FutureOwnership' /\ OneQuestionAtATime'
      /\ \A d \in Conn \ {c} : conn'[d] = conn[d]
  <2>1. \A j \in Kind, d \in Conn \ {c} : held'[j][d] = held[j][d] BY <1>5
  <2>2. QED BY <2>1, <1>3, <1>4, <1>7, OthersKeep, Zenon
<1>9. AuthBalance'
  <2>1. future'["auth"] = future["auth"] BY <1>0, <1>2 DEF Filled, Futures
  <2>2. held'["auth"] = held["auth"] BY <1>0 DEF Pointers
  <2>3. \A d \in Conn : conn'[d].LocalAuthId = conn[d].LocalAuthId BY <1>6, <1>8
  <2>4. QED BY <1>0, <2>1, <2>2, <2>3, AuthUntouched
<1>10. QED BY <1>3, <1>8, <1>9

\* c's question of kind k, in place f, is answered, and its question of kind j is put
\* in place g, if there is one.
TakesAnswer(k, j, f, c, a, g) ==
    /\ future[k][f].owner = c
    /\ g # Null => future[j][g].owner = Null
    /\ future' = Filled(Released(k, c), j, g, c, a)
    /\ held' \in Pointers
    /\ \A i \in Kind, d \in Conn \ {c} : held'[i][d] = held[i][d]
    /\ \A i \in Kind : held'[i][c] = IF i = j THEN g ELSE IF i = k THEN Null ELSE held[i][c]

\* What is left of c's questions then: the one of kind j, if there is one.
AnswerIsTaken(k, j, f, c, g) ==
    /\ Live(c) /\ held[k][c] = f /\ Asking(c, k)
    /\ \A i \in Kind \ {k} : held[i][c] = Null
    /\ future' \in Futures
    /\ Owned(future', held', LiveSet)
    /\ \A i \in Kind : held'[i][c] = IF i = j THEN g ELSE Null

\* An On...Result handler: the future goes back to its pool, the next is taken, and
\* the pointers of both agree with the pools.
LEMMA AnswerTaken ==
    ASSUME IInv, NEW k \in Kind, NEW j \in Kind, j # k, NEW f \in Slot, NEW c \in Conn,
           NEW a \in Answer, NEW g \in Slot \cup {Null}, TakesAnswer(k, j, f, c, a, g)
    PROVE  AnswerIsTaken(k, j, f, c, g)
<1>0. /\ TypeOK /\ future \in Futures /\ held \in Pointers /\ Null \notin Conn \cup Slot
      /\ FutureOwnership /\ OneQuestion(c)
  BY ParameterAssumption, PoolTypes DEF IInv, OneQuestionAtATime
<1>1. Live(c) /\ held[k][c] = f /\ Asking(c, k)
  BY <1>0 DEF FutureOwnership, Asking, TakesAnswer
<1>2. \A i \in Kind \ {k} : held[i][c] = Null
  BY <1>0, <1>1 DEF OneQuestion, Asking
<1>. DEFINE H == [held EXCEPT ![k][c] = Null]
            R == Released(k, c)
<1>. USE DEF TakesAnswer
<1>3. H \in Pointers /\ H[j][c] = Null BY <1>0, <1>2 DEF Pointers
<1>4. held' = [H EXCEPT ![j][c] = g] BY <1>0 DEF Pointers
<1>5. R \in Futures /\ future' = Filled(R, j, g, c, a) BY <1>0, ReleasedType
<1>6. g # Null => R[j][g].owner = Null
  BY <1>0 DEF Released, Futures
<1>10. Owned(R, H, LiveSet)
  <2>1. c \in LiveSet /\ LiveSet \in SUBSET Conn BY <1>1 DEF LiveSet
  <2>2. Owned(future, held, LiveSet) BY <1>0, OwnedIff
  <2>3. QED BY <1>0, <2>1, <2>2, OwnedRelease
<1>. HIDE DEF H, R
<1>7. future' \in Futures
  <2>1. Filled(R, j, g, c, a) \in Futures BY <1>5, FilledType
  <2>2. QED BY <1>5, <2>1
<1>8. Owned(future', held', LiveSet)
  <2>1. c \in LiveSet /\ LiveSet \in SUBSET Conn BY <1>1 DEF LiveSet
  <2>2. Owned(Filled(R, j, g, c, a), [H EXCEPT ![j][c] = g], LiveSet)
    BY <1>3, <1>5, <1>6, <1>10, <2>1, OwnedAsk
  <2>3. QED BY <1>4, <1>5, <2>2
<1>9. \A i \in Kind : held'[i][c] = IF i = j THEN g ELSE Null
  BY <1>2
<1>12. QED BY <1>1, <1>2, <1>7, <1>8, <1>9 DEF AnswerIsTaken

\* No list changes, no type changes.
LEMMA ListUnchanged ==
    ASSUME ListTypeOK, UNCHANGED listVars
    PROVE  ListTypeOK'
BY DEF ListTypeOK, listVars

\* The types of the udp channels and of the client data.
Channels == [Chan -> [parent : Conn \cup {Null}, relaySide : BOOLEAN, clientSeen : BOOLEAN]]
Streams == [Conn -> [content : Seq(Nat), relayed : Seq(Nat), consumed : Nat, refused : Nat]]

\* TypeOK after a step, from its parts,
LEMMA TypeFrom ==
    ASSUME phase' \in Phase, conn' \in [Conn -> ClientConnection], ListTypeOK',
           future' \in Futures, held' \in Pointers, chan' \in Channels, stream' \in Streams,
           requested' \in SUBSET Conn, authRefs' \in [Conn -> Nat]
    PROVE  TypeOK'
BY DEF TypeOK, Futures, Pointers, Channels, Streams

\* and before it.
LEMMA TypeParts ==
    ASSUME TypeOK
    PROVE  /\ phase \in Phase /\ conn \in [Conn -> ClientConnection] /\ ListTypeOK
           /\ future \in Futures /\ held \in Pointers /\ chan \in Channels /\ stream \in Streams
           /\ requested \in SUBSET Conn /\ authRefs \in [Conn -> Nat]
BY DEF TypeOK, Futures, Pointers, Channels, Streams

\* OnAuthResult preserves the invariant: the reference to the account passes from
\* the future to the connection.
LEMMA AuthResultStep ==
    ASSUME IInv, NEW f \in Slot, NEW a \in Immediate("device"), NEW w \in BOOLEAN,
           OnAuthResult(f, a, w)
    PROVE  IInv'
<1>0. /\ TypeOK /\ FutureOwnership /\ OneQuestionAtATime /\ AuthBalance
      /\ conn \in [Conn -> ClientConnection] /\ ListTypeOK
      /\ future \in Futures /\ held \in Pointers /\ chan \in Channels /\ stream \in Streams
      /\ requested \in SUBSET Conn /\ authRefs \in [Conn -> Nat]
      /\ Null \notin Conn \cup Slot
  BY ParameterAssumption, TypeParts DEF IInv
<1>1. /\ phase = "auth" /\ future["auth"][f].owner # Null
      /\ future["auth"][f].answer \in Answer \ {"pending"}
      /\ UNCHANGED <<phase, listVars, chan, stream, requested, authRefs>>
  BY <1>0 DEF OnAuthResult, Ready, Futures
<1>2. PICK c \in Conn : c = future["auth"][f].owner BY <1>0, <1>1 DEF Futures
<1>3. a \in Answer BY DEF Immediate, Answer
<1>4. PICK granted \in BOOLEAN : granted <=> future["auth"][f].answer # "fail" OBVIOUS
<1>5. PICK g \in Slot \cup {Null} :
         /\ g = IF granted THEN AcquireFuture("device") ELSE Null
         /\ g # Null => granted /\ future["device"][g].owner = Null
  BY AcquireFutureFree
<1>6. future' = Filled(Released("auth", c), "device", g, c, a)
  BY <1>2, <1>4, <1>5 DEF OnAuthResult, Filled
<1>7. held' = [held EXCEPT !["auth"][c] = Null, !["device"][c] = IF granted THEN g ELSE @]
  BY <1>2, <1>4, <1>5 DEF OnAuthResult
<1>8. \E u, v \in BOOLEAN :
         conn' = [conn EXCEPT ![c].LocalAuthId = @ \/ granted, ![c].EnableUdpTarget = @ \/ u,
                              ![c].writes = @ \/ v]
  BY <1>2, <1>4 DEF OnAuthResult
<1>11. Live(c) /\ held["auth"][c] = f /\ Asking(c, "auth")
  BY <1>0, <1>1, <1>2 DEF FutureOwnership, Asking
<1>12. OneQuestion(c) BY <1>0, <1>2 DEF OneQuestionAtATime
<1>13. /\ ~conn[c].LocalAuthId /\ ~conn[c].DeviceReference
       /\ ~conn[c].RelaySideConnectionId /\ conn[c].BindUdpChannel = Null
       /\ conn[c].DataProcessor \notin Opening \cup {"OnS5Target"}
       /\ held["device"][c] = Null
  BY <1>11, <1>12 DEF OneQuestion, Idle, Asking, Live
<1>14. /\ held' \in Pointers
       /\ \A i \in Kind, d \in Conn \ {c} : held'[i][d] = held[i][d]
       /\ \A i \in Kind : held'[i][c] = IF i = "device" THEN g
                                        ELSE IF i = "auth" THEN Null ELSE held[i][c]
  BY <1>0, <1>5, <1>7, <1>13 DEF Pointers
<1>15. /\ future' \in Futures /\ Owned(future', held', LiveSet)
       /\ \A i \in Kind : held'[i][c] = IF i = "device" THEN g ELSE Null
  <2>1. TakesAnswer("auth", "device", f, c, a, g)
    BY <1>2, <1>5, <1>6, <1>14 DEF TakesAnswer
  <2>2. AnswerIsTaken("auth", "device", f, c, g) BY <1>3, <2>1, AnswerTaken
  <2>3. QED BY <2>2 DEF AnswerIsTaken
<1>16. conn[c] \in ClientConnection BY <1>0
<1>17. PICK r \in ClientConnection :
         /\ conn' = [conn EXCEPT ![c] = r]
         /\ r.state = conn[c].state /\ (r.LocalAuthId <=> granted)
         /\ r.DeviceReference = conn[c].DeviceReference
         /\ r.RelaySideConnectionId = conn[c].RelaySideConnectionId
         /\ r.BindUdpChannel = conn[c].BindUdpChannel
         /\ r.DataProcessor = conn[c].DataProcessor
  <2>1. PICK u, v \in BOOLEAN :
         conn' = [conn EXCEPT ![c].LocalAuthId = @ \/ granted, ![c].EnableUdpTarget = @ \/ u,
                              ![c].writes = @ \/ v]
    BY <1>8
  <2>. DEFINE q == [conn[c] EXCEPT !.LocalAuthId = @ \/ granted, !.EnableUdpTarget = @ \/ u,
                                  !.writes = @ \/ v]
  <2>2. q \in ClientConnection BY <1>16, ZenonT(30) DEF ClientConnection
  <2>3. conn' = [conn EXCEPT ![c] = q] BY <1>0, <1>16, <2>1, ZenonT(30) DEF ClientConnection
  <2>4. /\ q.state = conn[c].state /\ (q.LocalAuthId <=> granted)
        /\ q.DeviceReference = conn[c].DeviceReference
        /\ q.RelaySideConnectionId = conn[c].RelaySideConnectionId
        /\ q.BindUdpChannel = conn[c].BindUdpChannel
        /\ q.DataProcessor = conn[c].DataProcessor
    BY <1>13, <1>16 DEF ClientConnection
  <2>5. QED BY <2>2, <2>3, <2>4
<1>20. conn'[c] = r BY <1>0, <1>17, ConnUpdate
<1>21. OneQuestion(c)'
  BY <1>5, <1>11, <1>13, <1>15, <1>17, <1>20 DEF OneQuestion, Asking, Idle, Live
<1>22. /\ conn' \in [Conn -> ClientConnection] /\ FutureOwnership' /\ OneQuestionAtATime'
       /\ \A d \in Conn \ {c} : conn'[d] = conn[d]
  BY <1>14, <1>15, <1>17, <1>21, OthersKeep
<1>23. AuthBalance'
  <2>1. \A h \in Slot \ {f} : future'["auth"][h] = future["auth"][h]
    BY <1>0, <1>6, <1>11 DEF Filled, Released, Futures
  <2>2. ASSUME NEW d \in Conn \ {c} PROVE AnsweredAccount(d)' = AnsweredAccount(d)
    <3>1. held["auth"][d] # Null => held["auth"][d] \in Slot \ {f}
      BY <1>0, <1>2 DEF FutureOwnership, Pointers
    <3>2. held'["auth"][d] = held["auth"][d] BY <1>14
    <3>3. QED BY <2>1, <3>1, <3>2 DEF AnsweredAccount
  <2>3. AnsweredAccount(c) <=> granted
    BY <1>0, <1>1, <1>4, <1>11 DEF AnsweredAccount, Answer
  <2>4. ~AnsweredAccount(c)' BY <1>15 DEF AnsweredAccount
  <2>5. ASSUME NEW d \in Conn
        PROVE  authRefs'[d] = (IF conn'[d].LocalAuthId THEN 1 ELSE 0)
                            + (IF AnsweredAccount(d)' THEN 1 ELSE 0)
    <3>1. CASE d = c
      <4>1. authRefs[c] = IF granted THEN 1 ELSE 0
        BY <1>0, <1>13, <2>3 DEF AuthBalance
      <4>2. QED BY <3>1, <4>1, <1>1, <1>17, <1>20, <2>4
    <3>2. CASE d # c BY <3>2, <1>0, <1>1, <1>22, <2>2 DEF AuthBalance
    <3>3. QED BY <3>1, <3>2
  <2>6. QED BY <2>5 DEF AuthBalance
<1>24. AuthDrained' BY <1>1 DEF AuthDrained
<1>25. TypeOK' BY <1>0, <1>1, <1>14, <1>15, <1>22, TypeFrom, ListUnchanged DEF Phase
<1>26. QED BY <1>22, <1>23, <1>24, <1>25 DEF IInv

\* Picking up an answer of another service does not touch the auth futures.
LEMMA AuthApart ==
    ASSUME TypeOK, NEW k \in Kind \ {"auth"}, NEW j \in Kind \ {"auth"}, NEW f, NEW c \in Conn,
           NEW a, NEW g, TakesAnswer(k, j, f, c, a, g)
    PROVE  UNCHANGED <<future["auth"], held["auth"]>>
<1>1. future' = Filled(Released(k, c), j, g, c, a) BY DEF TakesAnswer
<1>2. Released(k, c)["auth"] = future["auth"] /\ Released(k, c) \in [Kind -> [Slot ->
          [owner : Conn \cup {Null}, answer : Answer]]]
  BY DEF Released, TypeOK, FreeFuture, Answer
<1>3. future'["auth"] = future["auth"]
  BY <1>1, <1>2 DEF Filled
<1>4. \A d \in Conn : held'["auth"][d] = held["auth"][d]
  <2>1. held'["auth"][c] = held["auth"][c] BY DEF TakesAnswer
  <2>2. QED BY <2>1 DEF TakesAnswer
<1>5. QED BY <1>3, <1>4 DEF TakesAnswer, Pointers, TypeOK

\* Nor does it make an answer of the authentication service ready.
LEMMA SameReady ==
    ASSUME AuthDrained, UNCHANGED <<phase, future["auth"]>>
    PROVE  AuthDrained'
BY DEF AuthDrained, Ready

\* OnAcquireDeviceResult preserves the invariant.
LEMMA DeviceResultStep ==
    ASSUME IInv, NEW f \in Slot, NEW a \in Immediate("conn"), NEW w \in BOOLEAN,
           OnAcquireDeviceResult(f, a, w)
    PROVE  IInv'
<1>0. /\ TypeOK /\ FutureOwnership /\ OneQuestionAtATime /\ AuthBalance /\ AuthDrained
      /\ conn \in [Conn -> ClientConnection] /\ ListTypeOK
      /\ future \in Futures /\ held \in Pointers /\ chan \in Channels /\ stream \in Streams
      /\ requested \in SUBSET Conn /\ authRefs \in [Conn -> Nat]
      /\ Null \notin Conn \cup Slot
  BY ParameterAssumption, TypeParts DEF IInv
<1>1. /\ phase = "device" /\ future["device"][f].owner # Null
      /\ UNCHANGED <<phase, listVars, chan, stream, authRefs>>
  BY <1>0 DEF OnAcquireDeviceResult, Ready, Futures
<1>2. PICK c \in Conn : c = future["device"][f].owner BY <1>0, <1>1 DEF Futures
<1>3. a \in Answer BY DEF Immediate, Answer
<1>4. PICK found \in BOOLEAN : found <=> future["device"][f].answer # "fail" OBVIOUS
<1>5. PICK http \in BOOLEAN : http <=> conn[c].Type \in {"HTTP_RAW", "HTTP_NORMAL"} OBVIOUS
<1>6. PICK g \in Slot \cup {Null} :
         /\ g = IF found /\ http THEN AcquireFuture("conn") ELSE Null
         /\ g # Null => found /\ http /\ future["conn"][g].owner = Null
  BY AcquireFutureFree
<1>7. future' = Filled(Released("device", c), "conn", g, c, a)
  BY <1>2, <1>4, <1>5, <1>6 DEF OnAcquireDeviceResult, Filled
<1>8. held' = [held EXCEPT !["device"][c] = Null, !["conn"][c] = IF found /\ http THEN g ELSE @]
  BY <1>2, <1>4, <1>5, <1>6 DEF OnAcquireDeviceResult
<1>9. \E v \in BOOLEAN :
         conn' = [conn EXCEPT ![c].DeviceReference = @ \/ found,
                     ![c].DataProcessor = IF found /\ ~http THEN "OnS5Target" ELSE @,
                     ![c].writes = @ \/ v]
  BY <1>2, <1>4, <1>5 DEF OnAcquireDeviceResult
<1>10. requested' \in SUBSET Conn BY <1>0, <1>2 DEF OnAcquireDeviceResult
<1>11. Live(c) /\ held["device"][c] = f /\ Asking(c, "device")
  BY <1>0, <1>1, <1>2 DEF FutureOwnership, Asking
<1>12. OneQuestion(c) BY <1>0, <1>2 DEF OneQuestionAtATime
<1>13. /\ conn[c].LocalAuthId /\ ~conn[c].DeviceReference
       /\ ~conn[c].RelaySideConnectionId /\ conn[c].BindUdpChannel = Null
       /\ conn[c].DataProcessor \notin Opening \cup {"OnS5Target"}
       /\ held["conn"][c] = Null
  BY <1>11, <1>12 DEF OneQuestion, Idle, Asking, Live
<1>14. /\ held' \in Pointers
       /\ \A i \in Kind, d \in Conn \ {c} : held'[i][d] = held[i][d]
       /\ \A i \in Kind : held'[i][c] = IF i = "conn" THEN g
                                        ELSE IF i = "device" THEN Null ELSE held[i][c]
  BY <1>0, <1>6, <1>8, <1>13 DEF Pointers
<1>15. /\ TakesAnswer("device", "conn", f, c, a, g)
       /\ future' \in Futures /\ Owned(future', held', LiveSet)
       /\ \A i \in Kind : held'[i][c] = IF i = "conn" THEN g ELSE Null
  <2>1. TakesAnswer("device", "conn", f, c, a, g)
    BY <1>2, <1>6, <1>7, <1>14 DEF TakesAnswer
  <2>2. AnswerIsTaken("device", "conn", f, c, g) BY <1>3, <2>1, AnswerTaken
  <2>3. QED BY <2>1, <2>2 DEF AnswerIsTaken
<1>16. conn[c] \in ClientConnection BY <1>0
<1>17. PICK r \in ClientConnection :
         /\ conn' = [conn EXCEPT ![c] = r]
         /\ r.state = conn[c].state /\ r.LocalAuthId = conn[c].LocalAuthId
         /\ (r.DeviceReference <=> found)
         /\ r.RelaySideConnectionId = conn[c].RelaySideConnectionId
         /\ r.BindUdpChannel = conn[c].BindUdpChannel
         /\ r.DataProcessor = IF found /\ ~http THEN "OnS5Target" ELSE conn[c].DataProcessor
  <2>1. PICK v \in BOOLEAN :
         conn' = [conn EXCEPT ![c].DeviceReference = @ \/ found,
                     ![c].DataProcessor = IF found /\ ~http THEN "OnS5Target" ELSE @,
                     ![c].writes = @ \/ v]
    BY <1>9
  <2>. DEFINE q == [conn[c] EXCEPT !.DeviceReference = @ \/ found,
                     !.DataProcessor = IF found /\ ~http THEN "OnS5Target" ELSE @,
                     !.writes = @ \/ v]
  <2>2. q \in ClientConnection BY <1>16, ZenonT(30) DEF ClientConnection, Processor
  <2>3. conn' = [conn EXCEPT ![c] = q] BY <1>0, <1>16, <2>1, ZenonT(30) DEF ClientConnection
  <2>4. /\ q.state = conn[c].state /\ q.LocalAuthId = conn[c].LocalAuthId
        /\ (q.DeviceReference <=> found)
        /\ q.RelaySideConnectionId = conn[c].RelaySideConnectionId
        /\ q.BindUdpChannel = conn[c].BindUdpChannel
        /\ q.DataProcessor = IF found /\ ~http THEN "OnS5Target" ELSE conn[c].DataProcessor
    BY <1>13, <1>16 DEF ClientConnection
  <2>5. QED BY <2>2, <2>3, <2>4
<1>20. conn'[c] = r BY <1>0, <1>17, ConnUpdate
<1>21. OneQuestion(c)'
  BY <1>6, <1>11, <1>13, <1>15, <1>17, <1>20 DEF OneQuestion, Asking, Idle, Live, Opening
<1>22. /\ conn' \in [Conn -> ClientConnection] /\ FutureOwnership' /\ OneQuestionAtATime'
       /\ \A d \in Conn \ {c} : conn'[d] = conn[d]
  BY <1>14, <1>15, <1>17, <1>21, OthersKeep
<1>23. UNCHANGED <<future["auth"], held["auth"]>> BY <1>0, <1>15, AuthApart
<1>24. AuthBalance'
  <2>1. \A d \in Conn : conn'[d].LocalAuthId = conn[d].LocalAuthId BY <1>17, <1>20, <1>22
  <2>2. QED BY <1>0, <1>1, <1>23, <2>1, AuthUntouched
<1>25. AuthDrained' BY <1>0, <1>1, <1>23, SameReady
<1>26. TypeOK'
  BY <1>0, <1>1, <1>10, <1>14, <1>15, <1>22, TypeFrom, ListUnchanged DEF Phase
<1>27. QED BY <1>22, <1>24, <1>25, <1>26 DEF IInv

\* An answer after which nothing more is asked preserves the relations.
LEMMA LastAnswer ==
    ASSUME IInv, NEW k \in {"conn", "udp"}, NEW f \in Slot, NEW c \in Conn,
           future[k][f].owner = c,
           future' = Released(k, c), held' = [held EXCEPT ![k][c] = Null],
           UNCHANGED <<phase, authRefs>>,
           NEW r \in ClientConnection, conn' = [conn EXCEPT ![c] = r],
           r.state = conn[c].state, r.LocalAuthId = conn[c].LocalAuthId,
           r.DeviceReference = conn[c].DeviceReference,
           r.RelaySideConnectionId => k = "conn" \/ conn[c].RelaySideConnectionId,
           r.BindUdpChannel = conn[c].BindUdpChannel,
           r.DataProcessor \in {conn[c].DataProcessor, "OnRawData"}
    PROVE  /\ conn' \in [Conn -> ClientConnection] /\ future' \in Futures /\ held' \in Pointers
           /\ FutureOwnership' /\ OneQuestionAtATime' /\ AuthBalance' /\ AuthDrained'
<1>0. /\ TypeOK /\ FutureOwnership /\ OneQuestionAtATime /\ AuthBalance /\ AuthDrained
      /\ conn \in [Conn -> ClientConnection] /\ future \in Futures /\ held \in Pointers
      /\ Null \notin Conn \cup Slot
  BY ParameterAssumption, TypeParts DEF IInv
<1>1. Live(c) /\ held[k][c] = f /\ Asking(c, k)
  BY <1>0 DEF FutureOwnership, Asking
<1>2. OneQuestion(c) BY <1>0 DEF OneQuestionAtATime
<1>3. /\ k = "conn" => conn[c].DeviceReference
      /\ conn[c].DataProcessor \notin Opening \cup {"OnS5Target"}
      /\ \A i \in Kind \ {k} : held[i][c] = Null
  BY <1>1, <1>2 DEF OneQuestion, Idle, Asking, Live
<1>4. /\ held' \in Pointers
      /\ \A i \in Kind, d \in Conn \ {c} : held'[i][d] = held[i][d]
      /\ \A i \in Kind : held'[i][c] = Null
  BY <1>0, <1>3 DEF Pointers
<1>5. TakesAnswer(k, "device", f, c, "fail", Null)
  BY <1>3, <1>4 DEF TakesAnswer, Filled
<1>6. future' \in Futures /\ Owned(future', held', LiveSet)
  <2>1. AnswerIsTaken(k, "device", f, c, Null) BY <1>5, AnswerTaken DEF Answer
  <2>2. QED BY <2>1 DEF AnswerIsTaken
<1>7. conn'[c] = r BY <1>0, ConnUpdate
<1>8. OneQuestion(c)'
  BY <1>2, <1>3, <1>4, <1>7 DEF OneQuestion, Asking, Idle, Live, Opening
<1>9. /\ conn' \in [Conn -> ClientConnection] /\ FutureOwnership' /\ OneQuestionAtATime'
      /\ \A d \in Conn \ {c} : conn'[d] = conn[d]
  BY <1>4, <1>6, <1>8, OthersKeep
<1>10. UNCHANGED <<future["auth"], held["auth"]>> BY <1>0, <1>5, AuthApart
<1>11. AuthBalance'
  <2>1. \A d \in Conn : conn'[d].LocalAuthId = conn[d].LocalAuthId BY <1>7, <1>9
  <2>2. QED BY <1>0, <1>10, <2>1, AuthUntouched
<1>12. AuthDrained' BY <1>0, <1>10, SameReady
<1>13. QED BY <1>4, <1>6, <1>9, <1>11, <1>12

\* Posting Http.Content leaves the client data well formed.
LEMMA ContentPostedType ==
    ASSUME stream \in Streams, NEW c \in Conn
    PROVE  ContentPosted(c) \in Streams
<1>. DEFINE s == stream[c]
            t == [s EXCEPT !.relayed = @ \o s.content, !.content = <<>>]
<1>1. /\ s.content \in Seq(Nat) /\ s.relayed \in Seq(Nat)
      /\ s.consumed \in Nat /\ s.refused \in Nat
  BY DEF Streams
<1>2. s.relayed \o s.content \in Seq(Nat) /\ <<>> \in Seq(Nat) BY <1>1
<1>3. t \in [content : Seq(Nat), relayed : Seq(Nat), consumed : Nat, refused : Nat]
  BY <1>1, <1>2 DEF Streams
<1>4. ContentPosted(c) = [stream EXCEPT ![c] = t] BY DEF ContentPosted, Streams
<1>5. QED BY <1>3, <1>4 DEF Streams

\* OnAcquireDeviceConnectionResult preserves the invariant.
LEMMA ConnectionResultStep ==
    ASSUME IInv, NEW f \in Slot, NEW w \in BOOLEAN, OnAcquireDeviceConnectionResult(f, w)
    PROVE  IInv'
<1>0. /\ conn \in [Conn -> ClientConnection] /\ ListTypeOK
      /\ future \in Futures /\ chan \in Channels /\ stream \in Streams
      /\ requested \in SUBSET Conn /\ authRefs \in [Conn -> Nat]
  BY TypeParts DEF IInv
<1>1. /\ phase = "conn" /\ future["conn"][f].owner # Null
      /\ UNCHANGED <<phase, listVars, chan, requested, authRefs>>
  BY <1>0 DEF OnAcquireDeviceConnectionResult, Ready, Futures
<1>2. PICK c \in Conn : c = future["conn"][f].owner BY <1>0, <1>1 DEF Futures
<1>3. /\ future' = Released("conn", c) /\ held' = [held EXCEPT !["conn"][c] = Null]
      /\ stream' \in Streams
  BY <1>0, <1>2, ContentPostedType DEF OnAcquireDeviceConnectionResult
<1>4. PICK made, raw, v \in BOOLEAN :
         conn' = [conn EXCEPT ![c].RelaySideConnectionId = @ \/ made,
                     ![c].DataProcessor = IF raw THEN "OnRawData" ELSE @,
                     ![c].writes = @ \/ v]
  <2>. DEFINE made == future["conn"][f].answer # "fail"
              plain == conn[c].Type = "HTTP_NORMAL"
  <2>1. \E v \in BOOLEAN :
          conn' = [conn EXCEPT ![c].RelaySideConnectionId = @ \/ made,
                     ![c].DataProcessor = IF made /\ ~plain THEN "OnRawData" ELSE @,
                     ![c].writes = @ \/ v]
    BY <1>2 DEF OnAcquireDeviceConnectionResult
  <2>2. made \in BOOLEAN /\ (made /\ ~plain) \in BOOLEAN OBVIOUS
  <2>3. QED BY <2>1, <2>2
<1>5. conn[c] \in ClientConnection BY <1>0
<1>6. PICK r \in ClientConnection :
         /\ conn' = [conn EXCEPT ![c] = r]
         /\ r.state = conn[c].state /\ r.LocalAuthId = conn[c].LocalAuthId
         /\ r.DeviceReference = conn[c].DeviceReference
         /\ r.BindUdpChannel = conn[c].BindUdpChannel
         /\ r.DataProcessor \in {conn[c].DataProcessor, "OnRawData"}
  <2>. DEFINE q == [conn[c] EXCEPT !.RelaySideConnectionId = @ \/ made,
                     !.DataProcessor = IF raw THEN "OnRawData" ELSE @,
                     !.writes = @ \/ v]
  <2>1. q \in ClientConnection BY <1>5, ZenonT(30) DEF ClientConnection, Processor
  <2>2. conn' = [conn EXCEPT ![c] = q] BY <1>0, <1>4, <1>5, ZenonT(30) DEF ClientConnection
  <2>3. /\ q.state = conn[c].state /\ q.LocalAuthId = conn[c].LocalAuthId
        /\ q.DeviceReference = conn[c].DeviceReference
        /\ q.BindUdpChannel = conn[c].BindUdpChannel
        /\ q.DataProcessor \in {conn[c].DataProcessor, "OnRawData"}
    BY <1>5 DEF ClientConnection
  <2>4. QED BY <2>1, <2>2, <2>3
<1>7. /\ conn' \in [Conn -> ClientConnection] /\ future' \in Futures /\ held' \in Pointers
      /\ FutureOwnership' /\ OneQuestionAtATime' /\ AuthBalance' /\ AuthDrained'
  BY <1>1, <1>2, <1>3, <1>6, LastAnswer
<1>8. TypeOK' BY <1>0, <1>1, <1>3, <1>7, TypeFrom, ListUnchanged DEF Phase
<1>9. QED BY <1>7, <1>8 DEF IInv

\* OnAcquireDeviceUdpChannelResult preserves the invariant.
LEMMA UdpResultStep ==
    ASSUME IInv, NEW f \in Slot, NEW w \in BOOLEAN, OnAcquireDeviceUdpChannelResult(f, w)
    PROVE  IInv'
<1>0. /\ conn \in [Conn -> ClientConnection] /\ ListTypeOK
      /\ future \in Futures /\ chan \in Channels /\ stream \in Streams
      /\ requested \in SUBSET Conn /\ authRefs \in [Conn -> Nat]
  BY TypeParts DEF IInv
<1>1. /\ phase = "udp" /\ future["udp"][f].owner # Null
      /\ UNCHANGED <<phase, stream, requested, authRefs>>
  BY <1>0 DEF OnAcquireDeviceUdpChannelResult, Ready, Futures
<1>2. PICK c \in Conn : c = future["udp"][f].owner BY <1>0, <1>1 DEF Futures
<1>3. future' = Released("udp", c) /\ held' = [held EXCEPT !["udp"][c] = Null]
  BY <1>2 DEF OnAcquireDeviceUdpChannelResult
<1>4. chan' \in Channels BY <1>0 DEF OnAcquireDeviceUdpChannelResult, Channels
<1>5. ListTypeOK'
  <2>1. UNCHANGED listVars \/ KeepAlive(c) BY <1>2 DEF OnAcquireDeviceUdpChannelResult
  <2>2. QED BY <1>0, <2>1, ListUnchanged, KeepAliveType
<1>6. PICK r \in ClientConnection :
         /\ conn' = [conn EXCEPT ![c] = r]
         /\ r.state = conn[c].state /\ r.LocalAuthId = conn[c].LocalAuthId
         /\ r.DeviceReference = conn[c].DeviceReference
         /\ r.RelaySideConnectionId => conn[c].RelaySideConnectionId
         /\ r.BindUdpChannel = conn[c].BindUdpChannel
         /\ r.DataProcessor \in {conn[c].DataProcessor, "OnRawData"}
  <2>. DEFINE q == [conn[c] EXCEPT !.writes = @ \/ w]
  <2>1. conn[c] \in ClientConnection BY <1>0
  <2>2. q \in ClientConnection BY <2>1, SMTT(30) DEF ClientConnection
  <2>3. conn' = [conn EXCEPT ![c] = q]
    BY <1>0, <1>2, <2>1, SMTT(30) DEF OnAcquireDeviceUdpChannelResult, ClientConnection
  <2>4. QED BY <2>1, <2>2, <2>3 DEF ClientConnection
<1>7. /\ conn' \in [Conn -> ClientConnection] /\ future' \in Futures /\ held' \in Pointers
      /\ FutureOwnership' /\ OneQuestionAtATime' /\ AuthBalance' /\ AuthDrained'
  BY <1>1, <1>2, <1>3, <1>6, LastAnswer
<1>8. TypeOK' BY <1>0, <1>1, <1>4, <1>5, <1>7, TypeFrom DEF Phase
<1>9. QED BY <1>7, <1>8 DEF IInv

\* ExcuteKillConnection preserves the invariant.  No answer of the authentication
\* service can be ready for a connection that dies: AuthDrained, the order of the
\* loops of Tick, is what makes DestroyConnection give back all it took.
LEMMA DestroyStep ==
    ASSUME IInv, NEW c \in Conn, ExcuteKillConnection(c)
    PROVE  IInv'
<1>0. /\ TypeOK /\ FutureOwnership /\ OneQuestionAtATime /\ AuthBalance /\ AuthDrained
      /\ conn \in [Conn -> ClientConnection] /\ ListTypeOK
      /\ future \in Futures /\ held \in Pointers /\ chan \in Channels /\ stream \in Streams
      /\ requested \in SUBSET Conn /\ authRefs \in [Conn -> Nat]
      /\ Null \notin Conn \cup Slot
  BY ParameterAssumption, TypeParts DEF IInv
<1>1. /\ phase = "kill" /\ UNCHANGED <<phase, requested>>
      /\ conn' = [conn EXCEPT ![c] = Blank("gone")]
      /\ AccountReleased(c) /\ FuturesReleased(c) /\ ChannelReleased(c)
      /\ stream' = [stream EXCEPT ![c] = NoData] /\ Unlink(c)
  BY DEF ExcuteKillConnection, DestroyConnection
<1>2. /\ conn' \in [Conn -> ClientConnection] /\ conn'[c] = Blank("gone")
      /\ \A d \in Conn \ {c} : conn'[d] = conn[d]
  BY <1>0, <1>1, BlankType, ConnUpdate
<1>3. \A k \in Kind, g \in Slot :
         future'[k][g] = IF g = held[k][c] THEN FreeFuture ELSE future[k][g]
  BY <1>0, <1>1 DEF FuturesReleased, Released, Futures
<1>4. \A k \in Kind, d \in Conn : held'[k][d] = IF d = c THEN Null ELSE held[k][d]
  BY <1>0, <1>1 DEF FuturesReleased, Pointers
<1>5. future' \in Futures
  <2>1. \A k \in Kind : Released(k, c)[k] \in [Slot -> [owner : Conn \cup {Null}, answer : Answer]]
    BY <1>0, ReleasedType DEF Futures
  <2>2. QED BY <1>1, <2>1 DEF FuturesReleased, Futures
<1>6. held' \in Pointers BY <1>0, <1>1 DEF FuturesReleased, Pointers
<1>7. FutureOwnership'
  <2>1. ASSUME NEW k \in Kind, NEW g \in Slot, future'[k][g].owner # Null
        PROVE  /\ conn'[future'[k][g].owner].state = "live"
               /\ held'[k][future'[k][g].owner] = g
    <3>1. g # held[k][c] /\ future'[k][g] = future[k][g] BY <1>3, <2>1 DEF FreeFuture
    <3>2. PICK d \in Conn : d = future[k][g].owner BY <1>0, <2>1, <3>1 DEF Futures
    <3>3. Live(d) /\ held[k][d] = g BY <1>0, <2>1, <3>1, <3>2 DEF FutureOwnership
    <3>4. d # c BY <3>1, <3>3
    <3>5. QED BY <1>2, <1>4, <3>1, <3>2, <3>3, <3>4 DEF Live
  <2>2. ASSUME NEW k \in Kind, NEW d \in Conn, held'[k][d] # Null
        PROVE  future'[k][held'[k][d]].owner = d
    <3>1. d # c /\ held'[k][d] = held[k][d] BY <1>4, <2>2
    <3>2. PICK g \in Slot : g = held[k][d] BY <1>0, <2>2, <3>1 DEF Pointers
    <3>3. future[k][g].owner = d BY <1>0, <2>2, <3>1, <3>2 DEF FutureOwnership
    <3>4. g # held[k][c] BY <1>0, <3>1, <3>3 DEF FutureOwnership
    <3>5. QED BY <1>3, <3>1, <3>2, <3>3, <3>4
  <2>3. QED BY <2>1, <2>2 DEF FutureOwnership, Live
<1>8. OneQuestionAtATime'
  <2>1. OneQuestion(c)' BY <1>2, <1>4 DEF OneQuestion, Asking, Idle, Live, Blank
  <2>2. ASSUME NEW d \in Conn \ {c} PROVE OneQuestion(d)'
    <3>1. OneQuestion(d) BY <1>0 DEF OneQuestionAtATime
    <3>2. QED BY <1>2, <1>4, <3>1 DEF OneQuestion, Asking, Idle, Live
  <2>3. QED BY <2>1, <2>2 DEF OneQuestionAtATime
<1>9. \A g \in Slot : future["auth"][g].answer \in {"ok", "okUdp"} =>
                          future["auth"][g].owner = Null
  BY <1>0, <1>1 DEF AuthDrained, Ready
<1>10. ASSUME NEW d \in Conn PROVE ~AnsweredAccount(d)
  <2>1. held["auth"][d] # Null => /\ held["auth"][d] \in Slot
                                  /\ future["auth"][held["auth"][d]].owner = d
    BY <1>0 DEF Pointers, FutureOwnership
  <2>2. QED BY <1>0, <1>9, <2>1 DEF AnsweredAccount
<1>11. ASSUME NEW d \in Conn PROVE ~AnsweredAccount(d)'
  <2>1. CASE held'["auth"][d] = Null BY <2>1 DEF AnsweredAccount
  <2>2. CASE held'["auth"][d] # Null
    <3>1. held'["auth"][d] = held["auth"][d] /\ held["auth"][d] \in Slot
      BY <1>0, <1>4, <2>2 DEF Pointers
    <3>2. future'["auth"][held["auth"][d]].answer \notin {"ok", "okUdp"}
      BY <1>3, <1>10, <2>2, <3>1 DEF AnsweredAccount, FreeFuture
    <3>3. QED BY <3>1, <3>2 DEF AnsweredAccount
  <2>3. QED BY <2>1, <2>2
<1>12. /\ authRefs' \in [Conn -> Nat] /\ authRefs'[c] = 0
       /\ \A d \in Conn \ {c} : authRefs'[d] = authRefs[d]
  <2>1. authRefs[c] = IF conn[c].LocalAuthId THEN 1 ELSE 0
    BY <1>0, <1>10 DEF AuthBalance
  <2>2. authRefs' = [authRefs EXCEPT ![c] = 0]
    <3>1. CASE conn[c].LocalAuthId
      <4>1. authRefs' = [authRefs EXCEPT ![c] = authRefs[c] - 1]
        BY <1>1, <3>1 DEF AccountReleased
      <4>2. QED BY <2>1, <3>1, <4>1
    <3>2. CASE ~conn[c].LocalAuthId
      <4>1. authRefs' = [authRefs EXCEPT ![c] = authRefs[c]]
        BY <1>1, <3>2 DEF AccountReleased
      <4>2. QED BY <2>1, <3>2, <4>1
    <3>3. QED BY <3>1, <3>2
  <2>3. QED BY <1>0, <2>2
<1>13. AuthBalance'
  <2>1. ASSUME NEW d \in Conn
        PROVE  authRefs'[d] = (IF conn'[d].LocalAuthId THEN 1 ELSE 0)
                            + (IF AnsweredAccount(d)' THEN 1 ELSE 0)
    <3>1. CASE d = c
      <4>1. ~conn'[c].LocalAuthId BY <1>2 DEF Blank
      <4>2. QED BY <3>1, <4>1, <1>11, <1>12
    <3>2. CASE d # c BY <3>2, <1>0, <1>2, <1>10, <1>11, <1>12 DEF AuthBalance
    <3>3. QED BY <3>1, <3>2
  <2>2. QED BY <2>1 DEF AuthBalance
<1>14. AuthDrained' BY <1>0, <1>1, <1>3 DEF AuthDrained, Ready, FreeFuture
<1>15. chan' \in Channels BY <1>0, <1>1 DEF ChannelReleased, Channels, FreeChannel
<1>16. stream' \in Streams BY <1>0, <1>1 DEF Streams, NoData
<1>17. ListTypeOK' BY <1>0, <1>1, UnlinkType
<1>18. TypeOK'
  BY <1>0, <1>1, <1>2, <1>5, <1>6, <1>12, <1>15, <1>16, <1>17, TypeFrom DEF Phase
<1>19. QED BY <1>7, <1>8, <1>13, <1>14, <1>18 DEF IInv

\* An answer of a service preserves the invariant.
LEMMA AnswerStep ==
    ASSUME IInv, NEW k \in Kind, NEW f \in Slot, NEW a \in Answer, AnswerFuture(k, f, a)
    PROVE  IInv'
<1>0. /\ TypeOK /\ FutureOwnership /\ OneQuestionAtATime /\ AuthBalance /\ AuthDrained
      /\ conn \in [Conn -> ClientConnection] /\ ListTypeOK
      /\ future \in Futures /\ held \in Pointers /\ chan \in Channels /\ stream \in Streams
      /\ requested \in SUBSET Conn /\ authRefs \in [Conn -> Nat]
      /\ Null \notin Conn \cup Slot
  BY ParameterAssumption, TypeParts DEF IInv
<1>1. /\ phase = "io" /\ future[k][f].owner # Null /\ future[k][f].answer = "pending"
      /\ a # "pending" /\ future' = [future EXCEPT ![k][f].answer = a]
      /\ UNCHANGED <<phase, conn, listVars, held, chan, stream, requested>>
  BY DEF AnswerFuture
<1>2. PICK c \in Conn : c = future[k][f].owner BY <1>0, <1>1 DEF Futures
<1>3. \A i \in Kind, g \in Slot :
         /\ future'[i][g].owner = future[i][g].owner
         /\ future'[i][g].answer = IF i = k /\ g = f THEN a ELSE future[i][g].answer
  BY <1>0, <1>1 DEF Futures
<1>4. future' \in Futures
  <2>. DEFINE q == [future[k][f] EXCEPT !.answer = a]
  <2>1. q \in [owner : Conn \cup {Null}, answer : Answer] BY <1>0, SMTT(30) DEF Futures
  <2>2. future' = [future EXCEPT ![k][f] = q] BY <1>0, <1>1, SMTT(30) DEF Futures
  <2>3. QED BY <1>0, <2>1, <2>2 DEF Futures
<1>5. FutureOwnership'
  <2>1. \A d \in Conn : Live(d)' = Live(d) BY <1>1 DEF Live
  <2>2. \A i \in Kind, g \in Slot : future[i][g].owner \in Conn \cup {Null}
    BY <1>0 DEF Futures
  <2>3. \A i \in Kind, d \in Conn : held[i][d] \in Slot \cup {Null}
    BY <1>0 DEF Pointers
  <2>4. QED BY <1>0, <1>1, <1>3, <2>1, <2>2, <2>3, SMTT(30) DEF FutureOwnership
<1>6. OneQuestionAtATime'
  BY <1>0, <1>1 DEF OneQuestionAtATime, OneQuestion, Asking, Idle, Live
<1>7. AuthBalance' /\ authRefs' \in [Conn -> Nat]
  <2>0. ASSUME NEW d \in Conn PROVE held["auth"][d] # Null =>
            held["auth"][d] \in Slot /\ future["auth"][held["auth"][d]].owner = d
    BY <1>0 DEF Pointers, FutureOwnership
  <2>1. CASE k # "auth"
    <3>1. UNCHANGED authRefs BY <2>1 DEF AnswerFuture
    <3>2. ASSUME NEW d \in Conn PROVE AnsweredAccount(d)' = AnsweredAccount(d)
      BY <1>1, <1>3, <2>0, <2>1 DEF AnsweredAccount
    <3>3. QED BY <1>0, <1>1, <3>1, <3>2 DEF AuthBalance
  <2>2. CASE k = "auth"
    <3>1. AuthAnswered(c, a) BY <1>2, <2>2 DEF AnswerFuture
    <3>2. held["auth"][c] = f BY <1>0, <1>2, <2>2 DEF FutureOwnership
    <3>3. ~AnsweredAccount(c) BY <1>1, <2>2, <3>2 DEF AnsweredAccount
    <3>4. AnsweredAccount(c)' <=> a \in {"ok", "okUdp"}
      BY <1>0, <1>1, <1>3, <2>2, <3>2 DEF AnsweredAccount
    <3>5. ASSUME NEW d \in Conn \ {c} PROVE AnsweredAccount(d)' = AnsweredAccount(d)
      <4>1. held["auth"][d] # Null => held["auth"][d] # f BY <1>2, <2>0, <2>2
      <4>2. QED BY <1>1, <1>3, <2>0, <4>1 DEF AnsweredAccount
    <3>6. CASE a \in {"ok", "okUdp"}
      <4>1. authRefs' = [authRefs EXCEPT ![c] = authRefs[c] + 1]
        BY <3>1, <3>6 DEF AuthAnswered
      <4>2. /\ authRefs' \in [Conn -> Nat] /\ authRefs'[c] = authRefs[c] + 1
            /\ \A d \in Conn \ {c} : authRefs'[d] = authRefs[d]
        BY <1>0, <4>1
      <4>3. ASSUME NEW d \in Conn
            PROVE  authRefs'[d] = (IF conn'[d].LocalAuthId THEN 1 ELSE 0)
                                + (IF AnsweredAccount(d)' THEN 1 ELSE 0)
        <5>1. CASE d = c BY <5>1, <1>0, <1>1, <3>3, <3>4, <3>6, <4>2 DEF AuthBalance
        <5>2. CASE d # c BY <5>2, <1>0, <1>1, <3>5, <4>2 DEF AuthBalance
        <5>3. QED BY <5>1, <5>2
      <4>4. QED BY <4>2, <4>3 DEF AuthBalance
    <3>7. CASE a \notin {"ok", "okUdp"}
      <4>1. UNCHANGED authRefs BY <3>1, <3>7 DEF AuthAnswered
      <4>2. AnsweredAccount(c)' = AnsweredAccount(c)
        BY <3>3, <3>4, <3>7 DEF AnsweredAccount
      <4>3. \A d \in Conn : AnsweredAccount(d)' = AnsweredAccount(d) BY <3>5, <4>2
      <4>4. QED BY <1>0, <1>1, <4>1, <4>3 DEF AuthBalance
    <3>8. QED BY <3>6, <3>7
  <2>3. QED BY <2>1, <2>2
<1>8. AuthDrained' BY <1>1 DEF AuthDrained
<1>9. TypeOK' BY <1>0, <1>1, <1>4, <1>7, TypeFrom, ListUnchanged DEF Phase
<1>10. QED BY <1>5, <1>6, <1>7, <1>8, <1>9 DEF IInv

\* Nothing but the connection c changes of what the invariant looks at, and c not much.
Edits(c) == \E r \in ClientConnection : conn' = [conn EXCEPT ![c] = r] /\ Alike(conn[c], r)

\* No future, account or request changes, nor the loop that runs.
Quiet == UNCHANGED <<phase, future, held, requested, authRefs>>

\* A step that edits one connection, its lists, channel or data preserves the
\* invariant.
LEMMA EditStep ==
    ASSUME IInv, Quiet, NEW c \in Conn, Edits(c) \/ UNCHANGED conn,
           ListTypeOK', chan' \in Channels, stream' \in Streams
    PROVE  IInv'
<1>0. /\ TypeOK /\ phase \in Phase /\ conn \in [Conn -> ClientConnection]
      /\ future \in Futures /\ held \in Pointers /\ requested \in SUBSET Conn
      /\ authRefs \in [Conn -> Nat] /\ AuthDrained
  BY TypeParts DEF IInv
<1>1. conn' \in [Conn -> ClientConnection] /\ \A d \in Conn : Alike(conn[d], conn'[d])
  <2>1. CASE Edits(c)
    <3>1. PICK r \in ClientConnection : conn' = [conn EXCEPT ![c] = r] /\ Alike(conn[c], r)
      BY <2>1 DEF Edits
    <3>2. /\ conn' \in [Conn -> ClientConnection] /\ conn'[c] = r
          /\ \A d \in Conn \ {c} : conn'[d] = conn[d]
      BY <1>0, <3>1, ConnUpdate
    <3>3. QED BY <3>1, <3>2 DEF Alike
  <2>2. CASE UNCHANGED conn BY <1>0, <2>2 DEF Alike
  <2>3. QED BY <2>1, <2>2
<1>2. FutureOwnership' /\ OneQuestionAtATime' /\ AuthBalance' BY <1>1, QuietStep DEF Quiet
<1>3. AuthDrained' BY <1>0, SameReady DEF Quiet
<1>4. TypeOK' BY <1>0, <1>1, TypeFrom DEF Quiet
<1>5. QED BY <1>2, <1>3, <1>4 DEF IInv

\* Going from one loop of Tick to the next preserves the invariant if the answers of
\* the authentication service were all picked up.
LEMMA PhaseStep ==
    ASSUME IInv, UNCHANGED <<conn, future, held, chan, stream, requested, authRefs>>,
           ListTypeOK', phase' \in Phase,
           phase' \in {"io", "auth", "aborted"} \/ Ready("auth") = {}
    PROVE  IInv'
<1>0. /\ TypeOK /\ phase \in Phase /\ conn \in [Conn -> ClientConnection]
      /\ future \in Futures /\ held \in Pointers /\ requested \in SUBSET Conn
      /\ authRefs \in [Conn -> Nat] /\ chan \in Channels /\ stream \in Streams
  BY TypeParts DEF IInv
<1>1. \A d \in Conn : Alike(conn[d], conn'[d]) BY DEF Alike
<1>2. FutureOwnership' /\ OneQuestionAtATime' /\ AuthBalance' BY <1>1, QuietStep
<1>3. AuthDrained' BY DEF AuthDrained, Ready
<1>4. TypeOK' BY <1>0, TypeFrom
<1>5. QED BY <1>2, <1>3, <1>4 DEF IInv

\* The other steps of Tick, and the failed assertion, preserve the invariant.
LEMMA TickStep ==
    ASSUME IInv, \/ \E d \in {0, 1} : TickBegin(d)
                 \/ \E c \in Conn : DeferKillTimeoutConnection(c)
                 \/ EndLoop
                 \/ \E c \in Conn : OnS5TargetUnknownAddress(c)
    PROVE  IInv'
<1>0. TypeOK /\ phase \in Phase /\ ListTypeOK /\ AuthDrained BY TypeParts DEF IInv
<1>1. ASSUME NEW d \in {0, 1}, TickBegin(d) PROVE IInv'
  <2>1. ListTypeOK' BY <1>0, <1>1, ElapseType DEF TickBegin
  <2>2. QED BY <1>1, <2>1, PhaseStep DEF TickBegin, Phase
<1>2. ASSUME NEW c \in Conn, DeferKillTimeoutConnection(c) PROVE IInv'
  <2>1. ListTypeOK'
    BY <1>0, <1>2, GrabTailType DEF DeferKillTimeoutConnection, ListName
  <2>2. Ready("auth") = {} BY <1>0, <1>2 DEF DeferKillTimeoutConnection, AuthDrained
  <2>3. QED BY <1>0, <1>2, <2>1, <2>2, PhaseStep DEF DeferKillTimeoutConnection
<1>3. ASSUME EndLoop PROVE IInv'
  <2>1. ListTypeOK' BY <1>0, <1>3, ListUnchanged DEF EndLoop
  <2>2. phase' \in Phase BY <1>0, <1>3 DEF EndLoop, Phase, Following, Loop
  <2>3. phase = "auth" => Ready("auth") = {} BY <1>3 DEF EndLoop, LoopDone
  <2>4. phase' = "io" \/ Ready("auth") = {}
    BY <1>0, <1>3, <2>3 DEF EndLoop, Phase, Following, Loop, AuthDrained
  <2>5. QED BY <1>3, <2>1, <2>2, <2>4, PhaseStep DEF EndLoop
<1>4. ASSUME NEW c \in Conn, OnS5TargetUnknownAddress(c) PROVE IInv'
  <2>1. ListTypeOK' BY <1>0, <1>4, ListUnchanged DEF OnS5TargetUnknownAddress
  <2>2. QED BY <1>4, <2>1, PhaseStep DEF OnS5TargetUnknownAddress, Phase
<1>5. QED BY <1>1, <1>2, <1>3, <1>4

\* Every handler that only edits the connection it is called for.
ClientEdits(c, w) ==
    \/ OnPeerClose(c) \/ KillConnectionOnData(c) \/ OnFlush(c)
    \/ RefuseAndWait(c, w) \/ OnS5Challenge(c, w) \/ OnS5TargetRefused(c, w)
    \/ OnHttpChallenge(c) \/ PostData(c, w) \/ CloseConnection(c)

\* What those handlers do to their connection is an edit the invariant does not see.
LEMMA ClientEditsConn ==
    ASSUME conn \in [Conn -> ClientConnection], NEW c \in Conn, NEW w \in BOOLEAN,
           ClientEdits(c, w)
    PROVE  Edits(c)
<1>. DEFINE p == conn[c]
<1>1. p \in ClientConnection OBVIOUS
<1>. USE DEF Alike, Opening
<1>2. CASE OnPeerClose(c) \/ KillConnectionOnData(c)
  <2>. DEFINE q == [p EXCEPT !.open = FALSE, !.DeleteMark = TRUE]
  <2>1. q \in ClientConnection /\ Alike(p, q) BY <1>1, ZenonT(30) DEF ClientConnection
  <2>2. conn' = [conn EXCEPT ![c] = q]
    BY <1>1, <1>2, ZenonT(30) DEF OnPeerClose, KillConnectionOnData, PeerClosed, ClientConnection
  <2>3. QED BY <2>1, <2>2 DEF Edits
<1>3. CASE OnFlush(c)
  <2>. DEFINE q == [p EXCEPT !.writes = FALSE]
  <2>1. q \in ClientConnection /\ Alike(p, q) BY <1>1, ZenonT(30) DEF ClientConnection
  <2>2. conn' = [conn EXCEPT ![c] = q] BY <1>1, <1>3, SMTT(30) DEF OnFlush
  <2>3. QED BY <2>1, <2>2 DEF Edits
<1>4. CASE RefuseAndWait(c, w) \/ PostData(c, w)
  <2>. DEFINE q == [p EXCEPT !.writes = @ \/ w]
  <2>1. q \in ClientConnection /\ Alike(p, q) BY <1>1, SMTT(30) DEF ClientConnection
  <2>2. conn' = [conn EXCEPT ![c] = q] BY <1>1, <1>4, SMTT(30) DEF RefuseAndWait, PostData
  <2>3. QED BY <2>1, <2>2 DEF Edits
<1>5. CASE OnS5Challenge(c, w)
  <2>. DEFINE q == [p EXCEPT !.Type = "S5_CHALLENGE", !.DataProcessor = "OnS5AuthInfo",
                             !.writes = @ \/ w]
  <2>1. q \in ClientConnection BY <1>1, ZenonT(30) DEF ClientConnection, Type, Processor
  <2>2. Alike(p, q) BY <1>1, <1>5 DEF ClientConnection, OnS5Challenge, DataFor
  <2>3. conn' = [conn EXCEPT ![c] = q] BY <1>1, <1>5, ZenonT(30) DEF OnS5Challenge, ClientConnection
  <2>4. QED BY <2>1, <2>2, <2>3 DEF Edits
<1>6. CASE OnS5TargetRefused(c, w)
  <2>. DEFINE q == [p EXCEPT !.DataProcessor = "KillConnectionOnData", !.writes = @ \/ w]
  <2>1. q \in ClientConnection /\ Alike(p, q) BY <1>1, ZenonT(30) DEF ClientConnection, Processor
  <2>2. conn' = [conn EXCEPT ![c] = q] BY <1>1, <1>6, ZenonT(30) DEF OnS5TargetRefused, ClientConnection
  <2>3. QED BY <2>1, <2>2 DEF Edits
<1>7. CASE OnHttpChallenge(c)
  <2>1. ASSUME NEW t \in Type, NEW n \in Opening,
               conn' = [conn EXCEPT ![c].Type = t, ![c].DataProcessor = n]
        PROVE  Edits(c)
    <3>. DEFINE q == [p EXCEPT !.Type = t, !.DataProcessor = n]
    <3>1. q \in ClientConnection BY <1>1 DEF ClientConnection, Processor
    <3>2. Alike(p, q) BY <1>1, <1>7 DEF ClientConnection, OnHttpChallenge, DataFor
    <3>3. conn' = [conn EXCEPT ![c] = q] BY <1>1, <2>1 DEF ClientConnection
    <3>4. QED BY <3>1, <3>2, <3>3 DEF Edits
  <2>2. QED BY <1>7, <2>1 DEF OnHttpChallenge, Type
<1>8. CASE CloseConnection(c)
  <2>. DEFINE q == [p EXCEPT !.DeleteMark = TRUE]
  <2>1. q \in ClientConnection /\ Alike(p, q) BY <1>1, ZenonT(30) DEF ClientConnection
  <2>2. conn' = [conn EXCEPT ![c] = q] BY <1>1, <1>8, SMTT(30) DEF CloseConnection, DeferGracefulKill
  <2>3. QED BY <2>1, <2>2 DEF Edits
<1>9. QED BY <1>2, <1>3, <1>4, <1>5, <1>6, <1>7, <1>8 DEF ClientEdits

\* Appending to Http.Content, and relaying a piece, leave the client data well formed.
LEMMA AppendType ==
    ASSUME stream \in Streams, NEW c \in Conn
    PROVE  /\ HeaderRefused(c) \in Streams /\ HeaderConsumed(c) \in Streams
           /\ [stream EXCEPT ![c].content = <<1>>, ![c].consumed = 1] \in Streams
           /\ Buffered(c) \in Streams /\ Relayed(c) \in Streams
<1>. DEFINE s == stream[c]
            Rec == [content : Seq(Nat), relayed : Seq(Nat), consumed : Nat, refused : Nat]
<1>1. s \in Rec BY DEF Streams
<1>2. /\ s.consumed + 1 \in Nat /\ s.refused + 1 \in Nat
      /\ Append(s.content, 2) \in Seq(Nat) /\ <<1>> \in Seq(Nat)
      /\ Append(s.content, s.consumed + 1) \in Seq(Nat)
      /\ Append(s.relayed, s.consumed + 1) \in Seq(Nat)
  BY <1>1
<1>3. \A q \in Rec : [stream EXCEPT ![c] = q] \in Streams BY DEF Streams
<1>4. HeaderRefused(c) \in Streams
  <2>. DEFINE q == [s EXCEPT !.content = Append(@, 2), !.refused = @ + 1]
  <2>1. q \in Rec BY <1>1, <1>2
  <2>2. HeaderRefused(c) = [stream EXCEPT ![c] = q] BY DEF Streams, HeaderRefused
  <2>3. QED BY <1>3, <2>1, <2>2
<1>5. HeaderConsumed(c) \in Streams
  <2>. DEFINE q == [s EXCEPT !.content = Append(@, 2), !.consumed = 2]
  <2>1. q \in Rec BY <1>1, <1>2
  <2>2. HeaderConsumed(c) = [stream EXCEPT ![c] = q] BY DEF Streams, HeaderConsumed
  <2>3. QED BY <1>3, <2>1, <2>2
<1>6. [stream EXCEPT ![c].content = <<1>>, ![c].consumed = 1] \in Streams
  <2>. DEFINE q == [s EXCEPT !.content = <<1>>, !.consumed = 1]
  <2>1. q \in Rec BY <1>1, <1>2
  <2>2. [stream EXCEPT ![c].content = <<1>>, ![c].consumed = 1] = [stream EXCEPT ![c] = q]
    BY DEF Streams
  <2>3. QED BY <1>3, <2>1, <2>2
<1>7. Buffered(c) \in Streams
  <2>. DEFINE q == [s EXCEPT !.content = Append(@, s.consumed + 1), !.consumed = @ + 1]
  <2>1. CASE ~Recorded(c) BY <2>1 DEF Buffered
  <2>2. CASE Recorded(c)
    <3>1. q \in Rec BY <1>1, <1>2
    <3>2. Buffered(c) = [stream EXCEPT ![c] = q] BY <2>2 DEF Streams, Buffered
    <3>3. QED BY <1>3, <3>1, <3>2
  <2>3. QED BY <2>1, <2>2
<1>8. Relayed(c) \in Streams
  <2>. DEFINE q == [s EXCEPT !.relayed = Append(@, s.consumed + 1), !.consumed = @ + 1]
  <2>1. CASE ~Recorded(c) BY <2>1 DEF Relayed
  <2>2. CASE Recorded(c)
    <3>1. q \in Rec BY <1>1, <1>2
    <3>2. Relayed(c) = [stream EXCEPT ![c] = q] BY <2>2 DEF Streams, Relayed
    <3>3. QED BY <1>3, <3>1, <3>2
  <2>3. QED BY <2>1, <2>2
<1>9. QED BY <1>4, <1>5, <1>6, <1>7, <1>8

\* Those handlers preserve the invariant.
LEMMA ClientEditsStep ==
    ASSUME IInv, NEW c \in Conn, NEW w \in BOOLEAN, ClientEdits(c, w)
    PROVE  IInv'
<1>0. /\ conn \in [Conn -> ClientConnection] /\ ListTypeOK
      /\ chan \in Channels /\ stream \in Streams
  BY TypeParts DEF IInv
<1>1. Edits(c) BY <1>0, ClientEditsConn
<1>. USE DEF ClientEdits, OnPeerClose, KillConnectionOnData, PeerClosed, OnFlush, RefuseAndWait,
         OnS5Challenge, OnS5TargetRefused, OnHttpChallenge, PostData, CloseConnection,
         DeferGracefulKill
<1>2. Quiet BY DEF Quiet
<1>3. ListTypeOK'
  <2>1. \/ UNCHANGED listVars \/ KeepAlive(c)
        \/ GrabTail(c, "kill") \/ StampAndGrabTail(c, "graceful")
    OBVIOUS
  <2>2. QED BY <1>0, <2>1, ListUnchanged, KeepAliveType, GrabTailType, StampType DEF ListName
<1>4. chan' \in Channels BY <1>0
<1>5. stream' \in Streams
  <2>1. \/ UNCHANGED stream
        \/ stream' = HeaderRefused(c)
        \/ stream' = [stream EXCEPT ![c].content = <<1>>, ![c].consumed = 1]
    OBVIOUS
  <2>. HIDE DEF ClientEdits, OnPeerClose, KillConnectionOnData, PeerClosed, OnFlush,
           RefuseAndWait, OnS5Challenge, OnS5TargetRefused, OnHttpChallenge, PostData,
           CloseConnection, DeferGracefulKill
  <2>2. HeaderRefused(c) \in Streams BY <1>0, AppendType
  <2>3. [stream EXCEPT ![c].content = <<1>>, ![c].consumed = 1] \in Streams
    BY <1>0, AppendType
  <2>4. QED BY <1>0, <2>1, <2>2, <2>3
<1>6. QED BY <1>1, <1>2, <1>3, <1>4, <1>5, EditStep

\* Every handler that copies data and leaves the connections as they are.
Copies ==
    \/ \E c \in Conn : OnHttpBody(c) \/ OnRawData(c)
    \/ \E h \in Chan : OnUdpData(h) \/ PostDataUdp(h)

\* Copying data preserves the invariant.
LEMMA CopyStep ==
    ASSUME IInv, Copies
    PROVE  IInv'
<1>0. ListTypeOK /\ chan \in Channels /\ stream \in Streams BY TypeParts DEF IInv
<1>1. ASSUME NEW c \in Conn, OnHttpBody(c) \/ OnRawData(c) PROVE IInv'
  <2>. USE DEF OnHttpBody, OnRawData
  <2>1. Quiet /\ UNCHANGED conn BY <1>1 DEF Quiet
  <2>2. KeepAlive(c) /\ UNCHANGED chan BY <1>1
  <2>3. stream' \in {Buffered(c), Relayed(c)} BY <1>1
  <2>. HIDE DEF OnHttpBody, OnRawData
  <2>5. stream' \in Streams BY <1>0, <2>3, AppendType
  <2>6. QED BY <1>0, <2>1, <2>2, <2>5, KeepAliveType, EditStep
<1>2. ASSUME NEW h \in Chan, OnUdpData(h) \/ PostDataUdp(h) PROVE IInv'
  <2>1. PICK c \in Conn : c = chan[h].parent
    BY <1>0, <1>2 DEF OnUdpData, PostDataUdp, Channels
  <2>2. KeepAlive(c) /\ Quiet /\ UNCHANGED <<conn, stream>>
    BY <1>2, <2>1 DEF OnUdpData, PostDataUdp, Quiet
  <2>3. chan' \in Channels
    <3>1. CASE UNCHANGED chan BY <1>0, <3>1
    <3>2. CASE chan' = [chan EXCEPT ![h].clientSeen = TRUE] BY <1>0, <3>2 DEF Channels
    <3>3. QED BY <1>2, <3>1, <3>2 DEF OnUdpData, PostDataUdp
  <2>4. QED BY <1>0, <2>2, <2>3, KeepAliveType, EditStep
<1>3. QED BY <1>1, <1>2 DEF Copies

\* OnNewConnection preserves the invariant: the connection holds no future yet.
LEMMA NewConnectionStep ==
    ASSUME IInv, NEW c \in Conn, OnNewConnection(c)
    PROVE  IInv'
<1>0. /\ TypeOK /\ FutureOwnership /\ OneQuestionAtATime /\ AuthBalance /\ AuthDrained
      /\ phase \in Phase /\ conn \in [Conn -> ClientConnection] /\ ListTypeOK
      /\ future \in Futures /\ held \in Pointers /\ chan \in Channels /\ stream \in Streams
      /\ requested \in SUBSET Conn /\ authRefs \in [Conn -> Nat]
      /\ Null \notin Conn \cup Slot
  BY ParameterAssumption, TypeParts DEF IInv
<1>1. /\ conn[c].state = "unused" /\ conn' = [conn EXCEPT ![c] = Blank("live")]
      /\ StampAndGrabTail(c, "init")
      /\ UNCHANGED <<phase, future, held, chan, stream, requested, authRefs>>
  BY DEF OnNewConnection
<1>2. /\ conn' \in [Conn -> ClientConnection] /\ conn'[c] = Blank("live")
      /\ \A d \in Conn \ {c} : conn'[d] = conn[d]
  BY <1>0, <1>1, BlankType, ConnUpdate
<1>3. \A k \in Kind : held[k][c] = Null
  BY <1>0, <1>1 DEF FutureOwnership, Pointers, Live
<1>4. FutureOwnership'
  <2>1. \A d \in Conn : Live(d) => Live(d)' BY <1>1, <1>2 DEF Live, Blank
  <2>2. \A k \in Kind, f \in Slot : future[k][f].owner \in Conn \cup {Null} BY <1>0 DEF Futures
  <2>3. QED BY <1>0, <1>1, <2>1, <2>2 DEF FutureOwnership
<1>5. OneQuestionAtATime'
  <2>1. OneQuestion(c)' BY <1>1, <1>2, <1>3 DEF OneQuestion, Asking, Idle, Live, Blank
  <2>2. ASSUME NEW d \in Conn \ {c} PROVE OneQuestion(d)'
    <3>1. OneQuestion(d) BY <1>0 DEF OneQuestionAtATime
    <3>2. QED BY <1>1, <1>2, <3>1 DEF OneQuestion, Asking, Idle, Live
  <2>3. QED BY <2>1, <2>2 DEF OneQuestionAtATime
<1>6. AuthBalance'
  <2>1. \A d \in Conn : AnsweredAccount(d)' = AnsweredAccount(d) BY <1>1 DEF AnsweredAccount
  <2>2. ~conn'[c].LocalAuthId BY <1>2 DEF Blank
  <2>3. ~conn[c].LocalAuthId
    BY <1>0, <1>1 DEF OneQuestionAtATime, OneQuestion, Live
  <2>4. QED BY <1>0, <1>1, <1>2, <2>1, <2>2, <2>3 DEF AuthBalance
<1>7. AuthDrained' BY <1>0, <1>1, SameReady
<1>8. TypeOK' BY <1>0, <1>1, <1>2, StampType, TypeFrom DEF ListName
<1>9. QED BY <1>4, <1>5, <1>6, <1>7, <1>8 DEF IInv

\* Every handler that asks the authentication service.
AsksAuth(c, a, w) ==
    \/ OnS5ChallengeNoAuth(c, a, w) \/ OnS5AuthInfo(c, a, w)
    \/ OnHttpRawHeaderProcessor(c, a, w) \/ OnHttpNormalHeaderProcessor(c, a, w)

\* The handlers that ask for authentication preserve the invariant.
LEMMA AskAuthStep ==
    ASSUME IInv, NEW c \in Conn, NEW w \in BOOLEAN, NEW a \in Immediate("auth"), AsksAuth(c, a, w)
    PROVE  IInv'
<1>0. /\ conn \in [Conn -> ClientConnection] /\ ListTypeOK /\ phase \in Phase
      /\ chan \in Channels /\ stream \in Streams /\ requested \in SUBSET Conn
  BY TypeParts DEF IInv
<1>1. a \in Answer BY DEF Immediate, Answer
<1>2. /\ Live(c) /\ phase = "io" /\ conn[c].DataProcessor \in Opening
      /\ UNCHANGED <<phase, listVars, chan, requested>>
  BY DEF AsksAuth, OnS5ChallengeNoAuth, OnS5AuthInfo, OnHttpRawHeaderProcessor,
         OnHttpNormalHeaderProcessor, DataFor, ClientEvent, Opening
<1>3. stream' \in Streams
  <2>1. stream' \in {stream, HeaderRefused(c), HeaderConsumed(c)}
    BY DEF AsksAuth, OnS5ChallengeNoAuth, OnS5AuthInfo, OnHttpRawHeaderProcessor,
           OnHttpNormalHeaderProcessor
  <2>2. QED BY <1>0, <2>1, AppendType
<1>4. AuthDrained' BY <1>2 DEF AuthDrained
<1>5. CASE \E t \in Type, p \in Processor \ {"OnS5Target"} :
             /\ p \in Opening => AcquireFuture("auth") = Null
             /\ RequestAuthentication(c, t, p, a, w)
  <2>1. PICK t \in Type, p \in Processor \ {"OnS5Target"} :
             /\ p \in Opening => AcquireFuture("auth") = Null
             /\ RequestAuthentication(c, t, p, a, w)
    BY <1>5
  <2>2. /\ conn' \in [Conn -> ClientConnection]
        /\ future' \in Futures /\ held' \in Pointers
        /\ authRefs' \in [Conn -> Nat]
        /\ FutureOwnership' /\ OneQuestionAtATime' /\ AuthBalance'
    BY <1>1, <1>2, <2>1, AskAuth
  <2>3. TypeOK' BY <1>0, <1>2, <1>3, <2>2, ListUnchanged, TypeFrom
  <2>4. QED BY <1>4, <2>2, <2>3 DEF IInv
<1>6. CASE /\ conn' = [conn EXCEPT ![c].DataProcessor = "KillConnectionOnData",
                                   ![c].writes = @ \/ w]
           /\ UNCHANGED <<future, held, authRefs>>
  <2>. DEFINE q == [conn[c] EXCEPT !.DataProcessor = "KillConnectionOnData", !.writes = @ \/ w]
  <2>1. conn[c] \in ClientConnection BY <1>0
  <2>2. q \in ClientConnection /\ Alike(conn[c], q)
    BY <2>1, ZenonT(30) DEF ClientConnection, Processor, Alike, Opening
  <2>3. conn' = [conn EXCEPT ![c] = q] BY <1>6, <2>1, ZenonT(30) DEF ClientConnection
  <2>4. Edits(c) BY <2>2, <2>3 DEF Edits
  <2>5. Quiet BY <1>2, <1>6 DEF Quiet
  <2>6. QED BY <1>0, <1>2, <1>3, <2>4, <2>5, ListUnchanged, EditStep
<1>7. QED
  <2>1. conn[c].Type \in Type BY <1>0 DEF ClientConnection
  <2>2. CASE OnS5ChallengeNoAuth(c, a, w)
    <3>1. RequestAuthentication(c, "S5_CHALLENGE", "KillConnectionOnData", a, w)
      BY <2>2 DEF OnS5ChallengeNoAuth
    <3>2. QED BY <1>5, <3>1 DEF Type, Processor, Opening
  <2>3. CASE OnS5AuthInfo(c, a, w)
    <3>1. RequestAuthentication(c, conn[c].Type, "KillConnectionOnData", a, w)
      BY <2>3 DEF OnS5AuthInfo
    <3>2. QED BY <1>5, <2>1, <3>1 DEF Processor, Opening
  <2>4. CASE OnHttpRawHeaderProcessor(c, a, w)
    <3>1. CASE RequestAuthentication(c, conn[c].Type, "KillConnectionOnData", a, w)
      BY <1>5, <2>1, <3>1 DEF Processor, Opening
    <3>2. QED BY <1>6, <2>4, <3>1 DEF OnHttpRawHeaderProcessor
  <2>5. CASE OnHttpNormalHeaderProcessor(c, a, w)
    <3>1. PICK p \in {"OnHttpNormalHeaderProcessor", "OnHttpBody"} :
            /\ p \in Opening => AcquireFuture("auth") = Null
            /\ RequestAuthentication(c, conn[c].Type, p, a, w)
      BY <2>5 DEF OnHttpNormalHeaderProcessor, Opening
    <3>2. QED BY <1>5, <2>1, <3>1 DEF Processor
  <2>6. QED BY <2>2, <2>3, <2>4, <2>5 DEF AsksAuth

\* The handlers that ask for a connection or a udp channel preserve the invariant.
LEMMA AskTargetStep ==
    ASSUME IInv, NEW c \in Conn, NEW w \in BOOLEAN,
           \/ \E a \in Immediate("conn") : OnS5TargetTcp(c, a, w)
           \/ \E a \in Immediate("udp"), h \in Chan : OnS5TargetUdp(c, h, a, w)
    PROVE  IInv'
<1>0. /\ conn \in [Conn -> ClientConnection] /\ ListTypeOK /\ phase \in Phase
      /\ chan \in Channels /\ stream \in Streams /\ requested \in SUBSET Conn
      /\ authRefs \in [Conn -> Nat]
  BY TypeParts DEF IInv
<1>1. conn[c] \in ClientConnection BY <1>0
<1>2. ASSUME NEW a \in Immediate("conn"), OnS5TargetTcp(c, a, w) PROVE IInv'
  <2>. DEFINE f == AcquireFuture("conn")
              q == [conn[c] EXCEPT !.DataProcessor = "KillConnectionOnData",
                                   !.Type = IF f = Null THEN @ ELSE "S5_TCP",
                                   !.writes = @ \/ (f = Null /\ w)]
  <2>1. a \in Answer BY DEF Immediate, Answer
  <2>2. /\ Live(c) /\ phase = "io" /\ conn[c].DataProcessor = "OnS5Target"
        /\ UNCHANGED <<phase, listVars, chan, stream, authRefs>>
        /\ future' = Filled(future, "conn", AcquireFuture("conn"), c, a)
        /\ held' = [held EXCEPT !["conn"][c] = AcquireFuture("conn")]
        /\ requested' \in SUBSET Conn
    BY <1>0, <1>2 DEF OnS5TargetTcp, DataFor, ClientEvent
  <2>3. q \in ClientConnection BY <1>1, ZenonT(30) DEF ClientConnection, Type, Processor
  <2>4. conn' = [conn EXCEPT ![c] = q] BY <1>1, <1>2, ZenonT(30) DEF OnS5TargetTcp, ClientConnection
  <2>5. /\ q.state = conn[c].state /\ q.LocalAuthId = conn[c].LocalAuthId
        /\ q.DeviceReference = conn[c].DeviceReference
        /\ q.RelaySideConnectionId = conn[c].RelaySideConnectionId
        /\ q.DataProcessor = "KillConnectionOnData"
    BY <1>1 DEF ClientConnection
  <2>. HIDE DEF q
  <2>6. /\ conn' \in [Conn -> ClientConnection] /\ future' \in Futures /\ held' \in Pointers
        /\ FutureOwnership' /\ OneQuestionAtATime' /\ AuthBalance'
    BY <2>1, <2>2, <2>3, <2>4, <2>5, AskTarget
  <2>7. AuthDrained' BY <2>2 DEF AuthDrained
  <2>8. TypeOK' BY <1>0, <2>2, <2>6, ListUnchanged, TypeFrom
  <2>9. QED BY <2>6, <2>7, <2>8 DEF IInv
<1>3. ASSUME NEW a \in Immediate("udp"), NEW h \in Chan, OnS5TargetUdp(c, h, a, w) PROVE IInv'
  <2>. DEFINE f == AcquireFuture("udp")
              q == [conn[c] EXCEPT !.DataProcessor = "KillConnectionOnData",
                                   !.BindUdpChannel = h,
                                   !.Type = IF f = Null THEN @ ELSE "S5_UDP",
                                   !.writes = @ \/ (f = Null /\ w)]
  <2>1. a \in Answer BY DEF Immediate, Answer
  <2>2. /\ Live(c) /\ phase = "io" /\ conn[c].DataProcessor = "OnS5Target"
        /\ UNCHANGED <<phase, listVars, stream, requested, authRefs>>
        /\ future' = Filled(future, "udp", AcquireFuture("udp"), c, a)
        /\ held' = [held EXCEPT !["udp"][c] = AcquireFuture("udp")]
    BY <1>3 DEF OnS5TargetUdp, DataFor, ClientEvent
  <2>3. q \in ClientConnection BY <1>1, ZenonT(30) DEF ClientConnection, Type, Processor
  <2>4. conn' = [conn EXCEPT ![c] = q] BY <1>1, <1>3, ZenonT(30) DEF OnS5TargetUdp, ClientConnection
  <2>5. /\ q.state = conn[c].state /\ q.LocalAuthId = conn[c].LocalAuthId
        /\ q.DeviceReference = conn[c].DeviceReference
        /\ q.RelaySideConnectionId = conn[c].RelaySideConnectionId
        /\ q.DataProcessor = "KillConnectionOnData"
    BY <1>1 DEF ClientConnection
  <2>. HIDE DEF q
  <2>6. /\ conn' \in [Conn -> ClientConnection] /\ future' \in Futures /\ held' \in Pointers
        /\ FutureOwnership' /\ OneQuestionAtATime' /\ AuthBalance'
    BY <2>1, <2>2, <2>3, <2>4, <2>5, AskTarget
  <2>7. AuthDrained' BY <2>2 DEF AuthDrained
  <2>8. chan' \in Channels BY <1>0, <1>3 DEF OnS5TargetUdp, Channels, FreeChannel
  <2>9. TypeOK' BY <1>0, <2>2, <2>6, <2>8, ListUnchanged, TypeFrom
  <2>10. QED BY <2>6, <2>7, <2>9 DEF IInv
<1>4. QED BY <1>2, <1>3

\* Every step preserves the invariant: one case for each action.
LEMMA NextIInv == ASSUME IInv, Next PROVE IInv'
<1>1. CASE Tick
  <2>1. ASSUME NEW f \in Slot, NEW w \in BOOLEAN,
               \/ \E a \in Immediate("device") : OnAuthResult(f, a, w)
               \/ \E a \in Immediate("conn") : OnAcquireDeviceResult(f, a, w)
               \/ OnAcquireDeviceConnectionResult(f, w)
               \/ OnAcquireDeviceUdpChannelResult(f, w)
        PROVE  IInv'
    BY <2>1, AuthResultStep, DeviceResultStep, ConnectionResultStep, UdpResultStep
  <2>2. QED BY <1>1, <2>1, TickStep, DestroyStep DEF Tick
<1>2. CASE Services
  <2>1. ASSUME NEW c \in Conn, CloseConnection(c) \/ \E w \in BOOLEAN : PostData(c, w)
        PROVE  IInv'
    BY <2>1, ClientEditsStep DEF ClientEdits
  <2>2. QED BY <1>2, <2>1, AnswerStep, CopyStep DEF Services, Copies
<1>3. CASE Client
  <2>1. ASSUME NEW c \in Conn, ClientData(c) PROVE IInv'
    <3>1. ASSUME NEW w \in BOOLEAN, \/ RefuseAndWait(c, w) \/ OnS5Challenge(c, w)
                                    \/ OnS5TargetRefused(c, w) \/ OnHttpChallenge(c)
                                    \/ KillConnectionOnData(c)
          PROVE  IInv'
      BY <3>1, ClientEditsStep DEF ClientEdits
    <3>2. ASSUME NEW w \in BOOLEAN, NEW a \in Immediate("auth"), AsksAuth(c, a, w) PROVE IInv'
      BY <3>2, AskAuthStep
    <3>3. ASSUME OnHttpBody(c) \/ OnRawData(c) PROVE IInv' BY <3>3, CopyStep DEF Copies
    <3>4. QED BY <2>1, <3>1, <3>2, <3>3, AskTargetStep, TickStep DEF ClientData, AsksAuth
  <2>2. ASSUME NEW c \in Conn, OnPeerClose(c) \/ OnFlush(c) PROVE IInv'
    BY <2>2, ClientEditsStep DEF ClientEdits
  <2>3. QED BY <1>3, <2>1, <2>2, NewConnectionStep, CopyStep DEF Client, Copies
<1>4. QED BY <1>1, <1>2, <1>3 DEF Next

\* So does a stuttering step.
LEMMA StutterIInv == ASSUME IInv, UNCHANGED vars PROVE IInv'
<1>1. UNCHANGED <<phase, conn, listVars, future, held, chan, stream, requested, authRefs>>
  BY DEF vars
<1>2. ListTypeOK /\ phase \in Phase /\ chan \in Channels /\ stream \in Streams /\ AuthDrained
  BY TypeParts DEF IInv
<1>3. ListTypeOK' BY <1>1, <1>2, ListUnchanged
<1>4. phase \in {"io", "auth", "aborted"} \/ Ready("auth") = {}
  BY <1>2 DEF AuthDrained, Phase
<1>5. QED BY <1>1, <1>2, <1>3, <1>4, PhaseStep

\* The inductive invariant holds in every state the service reaches, for any number
\* of connections, futures and channels.
THEOREM Invariance == Spec => []IInv
<1>1. ASSUME IInv, [Next]_vars PROVE IInv' BY <1>1, NextIInv, StutterIInv
<1>2. QED BY <1>1, InitIInv, PTL DEF Spec

\* Every variable keeps its type: in particular no account is given back more often
\* than it was taken.
THEOREM TypeCorrect == Spec => []TypeOK
<1>1. IInv => TypeOK BY DEF IInv
<1>2. QED BY <1>1, Invariance, PTL

\* No future outlives its connection, none is shared, and every pointer of a
\* connection is to a future in use of its own: the assertions of the On...Result
\* handlers and of ReleaseFuture on a connection's pointer.
THEOREM FuturesOwned == Spec => []FutureOwnership
<1>1. IInv => FutureOwnership BY DEF IInv
<1>2. QED BY <1>1, Invariance, PTL

\* A connection has one question open at most, in the order of the protocol.
THEOREM ProtocolOrder == Spec => []OneQuestionAtATime
<1>1. IInv => OneQuestionAtATime BY DEF IInv
<1>2. QED BY <1>1, Invariance, PTL

\* DestroyConnection gives back exactly the account references that were counted.
THEOREM AccountsBalanced == Spec => []AuthBalance
<1>1. IInv => AuthBalance BY DEF IInv
<1>2. QED BY <1>1, Invariance, PTL

-----------------------------------------------------------------------------
(* What a step can do to one connection.                                   *)

\* What a move leaves alone of one connection: its pointers to futures, whether the
\* relay service has its id, its data.
SameHeld(c) == \A k \in Kind : held'[k][c] = held[k][c]
SameRequested(c) == c \in requested' <=> c \in requested
SameStream(c) == stream'[c] = stream[c]

\* Only the pointer to the future of kind k changes, to f.
HeldIs(c, k, f) ==
    /\ f \in Slot \cup {Null}
    /\ held'[k][c] = f
    /\ \A j \in Kind \ {k} : held'[j][c] = held[j][c]

\* The processor of an open connection runs.
Runs(c, p) == Live(c) /\ conn[c].open /\ conn[c].DataProcessor = p

\* The moves.  Each is what one kind of handler does to the connection it is about.
Untouched(c) == conn'[c] = conn[c] /\ SameHeld(c) /\ SameRequested(c) /\ SameStream(c)

\* Accepted, and destroyed by Tick.
MoveNew(c) ==
    /\ conn[c].state = "unused" /\ conn'[c] = Blank("live")
    /\ SameHeld(c) /\ SameRequested(c) /\ SameStream(c)

MoveGone(c) ==
    /\ Live(c) /\ conn'[c] = Blank("gone")
    /\ \A k \in Kind : held'[k][c] = Null
    /\ SameRequested(c) /\ stream'[c] = NoData

\* Replies, and data for the client.
MoveWrites(c) ==
    /\ \E w \in BOOLEAN : conn'[c] = [conn[c] EXCEPT !.writes = w]
    /\ SameHeld(c) /\ SameRequested(c) /\ SameStream(c)

\* The two ways to be marked: the client closed, the relay closed.
MovePeerClosed(c) ==
    /\ Live(c) /\ conn[c].open
    /\ conn'[c] = [conn[c] EXCEPT !.open = FALSE, !.DeleteMark = TRUE]
    /\ SameHeld(c) /\ SameRequested(c) /\ SameStream(c)

MoveCloseConnection(c) ==
    /\ Live(c) /\ c \in requested /\ ~conn[c].DeleteMark
    /\ conn'[c] = [conn[c] EXCEPT !.DeleteMark = TRUE]
    /\ SameHeld(c) /\ SameRequested(c) /\ SameStream(c)

\* A malformed line behind one that was kept: the header comes again.
MoveHeaderKept(c) ==
    /\ Runs(c, "OnHttpNormalHeaderProcessor")
    /\ \E w \in BOOLEAN : conn'[c] = [conn[c] EXCEPT !.writes = w]
    /\ SameHeld(c) /\ SameRequested(c)
    /\ stream'[c] = [stream[c] EXCEPT !.content = Append(@, 2), !.refused = @ + 1]

MoveS5Challenge(c) ==
    /\ Runs(c, "OnGuessProxyType")
    /\ \E w \in BOOLEAN : conn'[c] = [conn[c] EXCEPT !.Type = "S5_CHALLENGE",
                                         !.DataProcessor = "OnS5AuthInfo", !.writes = w]
    /\ SameHeld(c) /\ SameRequested(c) /\ SameStream(c)

\* The request lines of the two kinds of http client.
MoveHttpRaw(c) ==
    /\ Runs(c, "OnGuessProxyType")
    /\ conn'[c] = [conn[c] EXCEPT !.Type = "HTTP_RAW",
                                  !.DataProcessor = "OnHttpRawHeaderProcessor"]
    /\ SameHeld(c) /\ SameRequested(c) /\ SameStream(c)

MoveHttpNormal(c) ==
    /\ Runs(c, "OnGuessProxyType")
    /\ conn'[c] = [conn[c] EXCEPT !.Type = "HTTP_NORMAL",
                                  !.DataProcessor = "OnHttpNormalHeaderProcessor"]
    /\ SameHeld(c) /\ SameRequested(c)
    /\ stream'[c] = [stream[c] EXCEPT !.content = <<1>>, !.consumed = 1]

\* RequestAuthentication of the processors that end with it.
MoveAskAuth(c) ==
    /\ \/ Runs(c, "OnGuessProxyType") \/ Runs(c, "OnS5AuthInfo")
       \/ Runs(c, "OnHttpRawHeaderProcessor")
    /\ \E w \in BOOLEAN :
          conn'[c] = [conn[c] EXCEPT
              !.Type = IF conn[c].DataProcessor = "OnGuessProxyType" THEN "S5_CHALLENGE" ELSE @,
              !.DataProcessor = "KillConnectionOnData", !.writes = w]
    /\ \E f \in Slot \cup {Null} : HeldIs(c, "auth", f)
    /\ SameRequested(c) /\ SameStream(c)

\* RequestAuthentication behind the header of a plain request, f Null: no future is left.
MoveAskAuthNormal(c, f) ==
    /\ Runs(c, "OnHttpNormalHeaderProcessor")
    /\ \E w \in BOOLEAN :
          conn'[c] = [conn[c] EXCEPT
              !.DataProcessor = IF f = Null THEN "OnHttpNormalHeaderProcessor" ELSE "OnHttpBody",
              !.writes = w]
    /\ HeldIs(c, "auth", f)
    /\ SameRequested(c)
    /\ stream'[c] = IF f = Null
                    THEN [stream[c] EXCEPT !.content = Append(@, 2), !.refused = @ + 1]
                    ELSE [stream[c] EXCEPT !.content = Append(@, 2), !.consumed = 2]

\* A target, or a CONNECT without credentials, is refused.
MoveRefused(c) ==
    /\ Runs(c, "OnS5Target") \/ Runs(c, "OnHttpRawHeaderProcessor")
    /\ \E w \in BOOLEAN :
          conn'[c] = [conn[c] EXCEPT !.DataProcessor = "KillConnectionOnData", !.writes = w]
    /\ SameHeld(c) /\ SameRequested(c) /\ SameStream(c)

\* The target of a socks client, f Null: no future is left.
MoveAskConn(c, f) ==
    /\ Runs(c, "OnS5Target")
    /\ \E w \in BOOLEAN :
          conn'[c] = [conn[c] EXCEPT !.DataProcessor = "KillConnectionOnData",
                                     !.Type = IF f = Null THEN @ ELSE "S5_TCP", !.writes = w]
    /\ HeldIs(c, "conn", f)
    /\ c \in requested' <=> c \in requested \/ f # Null
    /\ SameStream(c)

MoveAskUdp(c, f) ==
    /\ Runs(c, "OnS5Target")
    /\ \E h \in Chan, w \in BOOLEAN :
          conn'[c] = [conn[c] EXCEPT !.DataProcessor = "KillConnectionOnData",
                                     !.BindUdpChannel = h,
                                     !.Type = IF f = Null THEN @ ELSE "S5_UDP", !.writes = w]
    /\ HeldIs(c, "udp", f)
    /\ SameRequested(c) /\ SameStream(c)

\* Data of the client, kept until there is a relay connection or sent to it.
MoveBodyKept(c) ==
    /\ Runs(c, "OnHttpBody") /\ ~conn[c].DeleteMark /\ stream[c].content # <<>>
    /\ conn'[c] = conn[c] /\ SameHeld(c) /\ SameRequested(c)
    /\ stream'[c] = [stream[c] EXCEPT !.content = Append(@, stream[c].consumed + 1),
                                      !.consumed = @ + 1]

MoveRelayed(c) ==
    /\ (Runs(c, "OnHttpBody") /\ stream[c].content = <<>>) \/ Runs(c, "OnRawData")
    /\ ~conn[c].DeleteMark
    /\ conn'[c] = conn[c] /\ SameHeld(c) /\ SameRequested(c)
    /\ stream'[c] = [stream[c] EXCEPT !.relayed = Append(@, stream[c].consumed + 1),
                                      !.consumed = @ + 1]

\* The answers.
MoveAuthResult(c, granted, g) ==
    /\ Live(c) /\ Asking(c, "auth")
    /\ \E e \in BOOLEAN, w \in BOOLEAN :
          conn'[c] = [conn[c] EXCEPT !.LocalAuthId = @ \/ granted, !.EnableUdpTarget = e,
                                     !.writes = w]
    /\ held'["auth"][c] = Null /\ held'["device"][c] = (IF granted THEN g ELSE held["device"][c])
    /\ held'["conn"][c] = held["conn"][c] /\ held'["udp"][c] = held["udp"][c]
    /\ SameRequested(c) /\ SameStream(c)

\* The device locator found a device or none; an http client is connected at once.
MoveDeviceResult(c, found, g) ==
    LET http == conn[c].Type \in {"HTTP_RAW", "HTTP_NORMAL"} IN
    /\ Live(c) /\ Asking(c, "device")
    /\ \E w \in BOOLEAN :
          conn'[c] = [conn[c] EXCEPT
              !.DeviceReference = @ \/ found,
              !.DataProcessor = IF found /\ ~http THEN "OnS5Target" ELSE @, !.writes = w]
    /\ held'["device"][c] = Null
    /\ held'["conn"][c] = (IF found /\ http THEN g ELSE held["conn"][c])
    /\ held'["auth"][c] = held["auth"][c] /\ held'["udp"][c] = held["udp"][c]
    /\ c \in requested' <=> c \in requested \/ (found /\ http /\ g # Null)
    /\ SameStream(c)

\* The relay connection was made or not; a plain request goes to it.
MoveConnResult(c, made) ==
    LET plain == conn[c].Type = "HTTP_NORMAL" IN
    /\ Live(c) /\ Asking(c, "conn")
    /\ \E w \in BOOLEAN :
          conn'[c] = [conn[c] EXCEPT
              !.RelaySideConnectionId = @ \/ made,
              !.DataProcessor = IF made /\ ~plain THEN "OnRawData" ELSE @, !.writes = w]
    /\ HeldIs(c, "conn", Null)
    /\ SameRequested(c)
    /\ IF made /\ plain
       THEN stream'[c] = [stream[c] EXCEPT !.relayed = @ \o stream[c].content, !.content = <<>>]
       ELSE SameStream(c)

\* The udp channel was made or not.
MoveUdpResult(c) ==
    /\ Live(c) /\ Asking(c, "udp")
    /\ \E w \in BOOLEAN : conn'[c] = [conn[c] EXCEPT !.writes = w]
    /\ HeldIs(c, "udp", Null)
    /\ SameRequested(c) /\ SameStream(c)

\* Some answer is picked up.
Answered(c) ==
    \/ \E b \in BOOLEAN, g \in Slot \cup {Null} : \/ MoveAuthResult(c, b, g)
                                                  \/ MoveDeviceResult(c, b, g)
    \/ \E b \in BOOLEAN : MoveConnResult(c, b)
    \/ MoveUdpResult(c)

\* Some handler ran.
Move(c) ==
    \/ Untouched(c) \/ MoveNew(c) \/ MoveGone(c) \/ MoveWrites(c) \/ MovePeerClosed(c)
    \/ MoveCloseConnection(c) \/ MoveHeaderKept(c) \/ MoveS5Challenge(c) \/ MoveHttpRaw(c)
    \/ MoveHttpNormal(c) \/ MoveAskAuth(c) \/ MoveRefused(c) \/ MoveBodyKept(c)
    \/ MoveRelayed(c) \/ Answered(c)
    \/ \E f \in Slot \cup {Null} : \/ MoveAskAuthNormal(c, f) \/ MoveAskConn(c, f)
                                   \/ MoveAskUdp(c, f)

\* A step of one connection leaves the others alone.
Others(c) == \A d \in Conn \ {c} : Untouched(d)

\* AcquireFuture is a place or none.
LEMMA AcquireFutureType == ASSUME NEW k \in Kind PROVE AcquireFuture(k) \in Slot \cup {Null}
BY AcquireFutureFree

\* Handlers of the client's data that ask nobody.
LEMMA PlainMoves ==
    ASSUME TypeOK, NEW c \in Conn, NEW w \in BOOLEAN,
           \/ OnNewConnection(c) \/ OnPeerClose(c) \/ KillConnectionOnData(c) \/ OnFlush(c)
           \/ RefuseAndWait(c, w) \/ OnS5Challenge(c, w) \/ OnS5TargetRefused(c, w)
           \/ OnHttpChallenge(c) \/ OnHttpBody(c) \/ OnRawData(c)
           \/ PostData(c, w) \/ CloseConnection(c)
    PROVE  Move(c) /\ Others(c)
<1>0. /\ conn \in [Conn -> ClientConnection] /\ stream \in Streams
  BY TypeParts
<1>1. DOMAIN conn = Conn /\ DOMAIN stream = Conn BY <1>0 DEF Streams
<1>2. conn[c] \in ClientConnection BY <1>0
<1>3. conn[c].writes \in BOOLEAN /\ (conn[c].writes \/ w) \in BOOLEAN BY <1>2 DEF ClientConnection
<1>4. \A d : UNCHANGED held => SameHeld(d) BY DEF SameHeld
<1>5. \A d : UNCHANGED requested => SameRequested(d) BY DEF SameRequested
<1>6. \A d : UNCHANGED stream => SameStream(d) BY DEF SameStream
<1>7. CASE OnNewConnection(c)
  <2>1. MoveNew(c) BY <1>1, <1>4, <1>5, <1>6, <1>7 DEF OnNewConnection, MoveNew
  <2>2. Others(c) BY <1>1, <1>4, <1>5, <1>6, <1>7 DEF OnNewConnection, Others, Untouched
  <2>3. QED BY <2>1, <2>2 DEF Move
<1>8. CASE OnPeerClose(c) \/ KillConnectionOnData(c)
  <2>1. Live(c) /\ conn[c].open /\ PeerClosed(c)
    BY <1>8 DEF OnPeerClose, KillConnectionOnData, DataFor, ClientEvent
  <2>2. MovePeerClosed(c) BY <1>1, <1>4, <1>5, <1>6, <2>1 DEF PeerClosed, MovePeerClosed
  <2>3. Others(c) BY <1>1, <1>4, <1>5, <1>6, <2>1 DEF PeerClosed, Others, Untouched
  <2>4. QED BY <2>2, <2>3 DEF Move
<1>9. CASE OnFlush(c) \/ PostData(c, w)
  <2>1. \E v \in BOOLEAN : conn' = [conn EXCEPT ![c].writes = v]
    <3>1. CASE OnFlush(c) BY <3>1 DEF OnFlush
    <3>2. CASE PostData(c, w) BY <1>3, <3>2 DEF PostData
    <3>3. QED BY <1>9, <3>1, <3>2
  <2>2. UNCHANGED <<held, stream, requested>> BY <1>9 DEF OnFlush, PostData
  <2>3. MoveWrites(c) BY <1>1, <1>4, <1>5, <1>6, <2>1, <2>2 DEF MoveWrites
  <2>4. Others(c) BY <1>1, <1>4, <1>5, <1>6, <2>1, <2>2 DEF Others, Untouched
  <2>5. QED BY <2>3, <2>4 DEF Move
<1>10. CASE RefuseAndWait(c, w)
  <2>1. /\ Live(c) /\ conn[c].open /\ conn' = [conn EXCEPT ![c].writes = @ \/ w]
        /\ UNCHANGED <<held, requested>>
    BY <1>10 DEF RefuseAndWait, ClientEvent
  <2>2. \E v \in BOOLEAN : conn'[c] = [conn[c] EXCEPT !.writes = v] BY <1>1, <1>3, <2>1
  <2>3. CASE UNCHANGED stream
    <3>1. MoveWrites(c) BY <1>4, <1>5, <1>6, <2>1, <2>2, <2>3 DEF MoveWrites
    <3>2. Others(c) BY <1>1, <1>4, <1>5, <1>6, <2>1, <2>3 DEF Others, Untouched
    <3>3. QED BY <3>1, <3>2 DEF Move
  <2>4. CASE /\ conn[c].DataProcessor = "OnHttpNormalHeaderProcessor"
             /\ stream' = HeaderRefused(c)
    <3>1. MoveHeaderKept(c)
      BY <1>1, <1>4, <1>5, <2>1, <2>2, <2>4 DEF MoveHeaderKept, Runs, HeaderRefused
    <3>2. Others(c)
      BY <1>1, <1>4, <1>5, <2>1, <2>4 DEF Others, Untouched, SameStream, HeaderRefused
    <3>3. QED BY <3>1, <3>2 DEF Move
  <2>5. QED BY <1>10, <2>3, <2>4 DEF RefuseAndWait
<1>11. CASE OnS5Challenge(c, w)
  <2>1. /\ Runs(c, "OnGuessProxyType") /\ UNCHANGED <<held, stream, requested>>
        /\ conn' = [conn EXCEPT ![c].Type = "S5_CHALLENGE", ![c].DataProcessor = "OnS5AuthInfo",
                                ![c].writes = @ \/ w]
    BY <1>11 DEF OnS5Challenge, DataFor, ClientEvent, Runs
  <2>2. MoveS5Challenge(c) BY <1>1, <1>3, <1>4, <1>5, <1>6, <2>1 DEF MoveS5Challenge
  <2>3. Others(c) BY <1>1, <1>4, <1>5, <1>6, <2>1 DEF Others, Untouched
  <2>4. QED BY <2>2, <2>3 DEF Move
<1>12. CASE OnS5TargetRefused(c, w)
  <2>1. /\ Runs(c, "OnS5Target") /\ UNCHANGED <<held, stream, requested>>
        /\ conn' = [conn EXCEPT ![c].DataProcessor = "KillConnectionOnData",
                                ![c].writes = @ \/ w]
    BY <1>12 DEF OnS5TargetRefused, DataFor, ClientEvent, Runs
  <2>2. MoveRefused(c) BY <1>1, <1>3, <1>4, <1>5, <1>6, <2>1 DEF MoveRefused
  <2>3. Others(c) BY <1>1, <1>4, <1>5, <1>6, <2>1 DEF Others, Untouched
  <2>4. QED BY <2>2, <2>3 DEF Move
<1>13. CASE OnHttpChallenge(c)
  <2>1. Runs(c, "OnGuessProxyType") /\ UNCHANGED <<held, requested>>
    BY <1>13 DEF OnHttpChallenge, DataFor, ClientEvent, Runs
  <2>2. CASE /\ conn' = [conn EXCEPT ![c].Type = "HTTP_RAW",
                                     ![c].DataProcessor = "OnHttpRawHeaderProcessor"]
             /\ UNCHANGED stream
    <3>1. MoveHttpRaw(c) BY <1>1, <1>4, <1>5, <1>6, <2>1, <2>2 DEF MoveHttpRaw
    <3>2. Others(c) BY <1>1, <1>4, <1>5, <1>6, <2>1, <2>2 DEF Others, Untouched
    <3>3. QED BY <3>1, <3>2 DEF Move
  <2>3. CASE /\ conn' = [conn EXCEPT ![c].Type = "HTTP_NORMAL",
                                     ![c].DataProcessor = "OnHttpNormalHeaderProcessor"]
             /\ stream' = [stream EXCEPT ![c].content = <<1>>, ![c].consumed = 1]
    <3>1. MoveHttpNormal(c) BY <1>1, <1>4, <1>5, <2>1, <2>3 DEF MoveHttpNormal
    <3>2. Others(c) BY <1>1, <1>4, <1>5, <2>1, <2>3 DEF Others, Untouched, SameStream
    <3>3. QED BY <3>1, <3>2 DEF Move
  <2>4. QED BY <1>13, <2>2, <2>3 DEF OnHttpChallenge
<1>14. CASE OnHttpBody(c) \/ OnRawData(c)
  <2>1. /\ UNCHANGED <<conn, held, requested>> /\ ~conn[c].DeleteMark
        /\ Runs(c, "OnHttpBody") \/ Runs(c, "OnRawData")
    BY <1>14 DEF OnHttpBody, OnRawData, DataFor, ClientEvent, Runs
  <2>2. CASE ~Recorded(c)
    <3>1. UNCHANGED stream BY <1>14, <2>2 DEF OnHttpBody, OnRawData, Buffered, Relayed
    <3>2. Untouched(c) /\ Others(c) BY <1>4, <1>5, <1>6, <2>1, <3>1 DEF Others, Untouched
    <3>3. QED BY <3>2 DEF Move
  <2>3. CASE Recorded(c) /\ Runs(c, "OnHttpBody") /\ stream[c].content # <<>>
    <3>1. stream' = [stream EXCEPT ![c].content = Append(@, stream[c].consumed + 1),
                                   ![c].consumed = @ + 1]
      BY <1>14, <2>3 DEF OnHttpBody, OnRawData, DataFor, Runs, Buffered
    <3>2. MoveBodyKept(c) BY <1>1, <1>4, <1>5, <2>1, <2>3, <3>1 DEF MoveBodyKept
    <3>3. Others(c) BY <1>1, <1>4, <1>5, <2>1, <3>1 DEF Others, Untouched, SameStream
    <3>4. QED BY <3>2, <3>3 DEF Move
  <2>4. CASE Recorded(c) /\ ~(Runs(c, "OnHttpBody") /\ stream[c].content # <<>>)
    <3>1. stream' = [stream EXCEPT ![c].relayed = Append(@, stream[c].consumed + 1),
                                   ![c].consumed = @ + 1]
      BY <1>14, <2>4 DEF OnHttpBody, OnRawData, DataFor, ClientEvent, Runs, Relayed
    <3>2. MoveRelayed(c) BY <1>1, <1>4, <1>5, <2>1, <2>4, <3>1 DEF MoveRelayed
    <3>3. Others(c) BY <1>1, <1>4, <1>5, <2>1, <3>1 DEF Others, Untouched, SameStream
    <3>4. QED BY <3>2, <3>3 DEF Move
  <2>5. QED BY <2>2, <2>3, <2>4
<1>15. CASE CloseConnection(c)
  <2>1. /\ Live(c) /\ c \in requested /\ ~conn[c].DeleteMark
        /\ conn' = [conn EXCEPT ![c].DeleteMark = TRUE] /\ UNCHANGED <<held, stream, requested>>
    BY <1>15 DEF CloseConnection, DeferGracefulKill
  <2>2. MoveCloseConnection(c) BY <1>1, <1>4, <1>5, <1>6, <2>1 DEF MoveCloseConnection
  <2>3. Others(c) BY <1>1, <1>4, <1>5, <1>6, <2>1 DEF Others, Untouched
  <2>4. QED BY <2>2, <2>3 DEF Move
<1>16. QED BY <1>7, <1>8, <1>9, <1>10, <1>11, <1>12, <1>13, <1>14, <1>15

\* Putting a question changes one pointer of one connection.
LEMMA AskHeld ==
    ASSUME TypeOK, NEW c \in Conn, NEW k \in Kind, NEW f \in Slot \cup {Null},
           held' = [held EXCEPT ![k][c] = f]
    PROVE  HeldIs(c, k, f) /\ \A d \in Conn \ {c} : SameHeld(d)
<1>1. held \in [Kind -> [Conn -> Slot \cup {Null}]] BY TypeParts DEF Pointers
<1>2. /\ held'[k][c] = f
      /\ \A j \in Kind, d \in Conn : j # k \/ d # c => held'[j][d] = held[j][d]
  BY <1>1
<1>3. QED BY <1>2 DEF HeldIs, SameHeld

\* Taking an answer changes two pointers of one connection at most.
LEMMA AnswerHeld ==
    ASSUME TypeOK, NEW c \in Conn, NEW j \in Kind, NEW k \in Kind \ {j},
           NEW f \in Slot \cup {Null},
           held' = [held EXCEPT ![j][c] = Null, ![k][c] = f]
    PROVE  /\ held'[j][c] = Null /\ held'[k][c] = f
           /\ \A i \in Kind \ {j, k} : held'[i][c] = held[i][c]
           /\ \A d \in Conn \ {c} : SameHeld(d)
<1>1. held \in [Kind -> [Conn -> Slot \cup {Null}]] BY TypeParts DEF Pointers
<1>2. /\ held'[j][c] = Null /\ held'[k][c] = f
      /\ \A i \in Kind, d \in Conn : i \notin {j, k} \/ d # c => held'[i][d] = held[i][d]
  BY <1>1
<1>3. QED BY <1>2 DEF SameHeld

\* The future that an On...Result handler serves is of a live connection that waits for it.
LEMMA AnswerOwner ==
    ASSUME IInv, NEW k \in Kind, NEW f \in Slot, f \in Ready(k)
    PROVE  \E c \in Conn : c = future[k][f].owner /\ Live(c) /\ Asking(c, k)
<1>1. future[k][f].owner \in Conn \cup {Null}
  BY TypeParts DEF IInv, Futures
<1>2. future[k][f].owner # Null BY DEF Ready
<1>3. Null \notin Slot BY ParameterAssumption
<1>4. QED BY <1>1, <1>2, <1>3 DEF IInv, FutureOwnership, Asking

\* Handlers of the client's data that put a question.
LEMMA AskMoves ==
    ASSUME TypeOK, NEW c \in Conn, NEW w \in BOOLEAN, NEW a,
           AsksAuth(c, a, w) \/ OnS5TargetTcp(c, a, w) \/ \E h \in Chan : OnS5TargetUdp(c, h, a, w)
    PROVE  Move(c) /\ Others(c)
<1>0. conn \in [Conn -> ClientConnection] /\ stream \in Streams /\ held \in Pointers
  BY TypeParts
<1>1. DOMAIN conn = Conn /\ DOMAIN stream = Conn BY <1>0 DEF Streams
<1>2. conn[c] \in ClientConnection BY <1>0
<1>3. \A b \in BOOLEAN : (conn[c].writes \/ b) \in BOOLEAN BY <1>2 DEF ClientConnection
<1>4. \A d : UNCHANGED held => SameHeld(d) BY DEF SameHeld
<1>5. \A d : UNCHANGED requested => SameRequested(d) BY DEF SameRequested
<1>6. \A d : UNCHANGED stream => SameStream(d) BY DEF SameStream
<1>8. CASE AsksAuth(c, a, w)
  <2>. DEFINE f == AcquireFuture("auth")
              v == conn[c].writes \/ (f = Null /\ w)
  <2>0. v \in BOOLEAN BY <1>3
  <2>1. CASE \/ OnS5ChallengeNoAuth(c, a, w) \/ OnS5AuthInfo(c, a, w)
             \/ OnHttpRawHeaderProcessor(c, a, w)
                /\ RequestAuthentication(c, conn[c].Type, "KillConnectionOnData", a, w)
    <3>. DEFINE t == IF conn[c].DataProcessor = "OnGuessProxyType" THEN "S5_CHALLENGE"
                                                                 ELSE conn[c].Type
    <3>1. /\ \/ Runs(c, "OnGuessProxyType") \/ Runs(c, "OnS5AuthInfo")
             \/ Runs(c, "OnHttpRawHeaderProcessor")
          /\ RequestAuthentication(c, t, "KillConnectionOnData", a, w)
          /\ UNCHANGED <<stream, requested>>
      BY <2>1 DEF OnS5ChallengeNoAuth, OnS5AuthInfo, OnHttpRawHeaderProcessor, DataFor,
                  ClientEvent, Runs
    <3>2. /\ conn' = [conn EXCEPT ![c].Type = t, ![c].DataProcessor = "KillConnectionOnData",
                                  ![c].writes = v]
          /\ held' = [held EXCEPT !["auth"][c] = f]
      BY <3>1 DEF RequestAuthentication
    <3>3. conn'[c] = [conn[c] EXCEPT !.Type = t, !.DataProcessor = "KillConnectionOnData",
                                     !.writes = v]
      BY <1>1, <3>2
    <3>a. f \in Slot \cup {Null} BY AcquireFutureType
    <3>4. HeldIs(c, "auth", f) /\ f \in Slot \cup {Null} /\ \A d \in Conn \ {c} : SameHeld(d)
      <4>. HIDE DEF f
      <4>1. QED BY <3>2, <3>a, AskHeld
    <3>. HIDE DEF f, v
    <3>5. MoveAskAuth(c) BY <1>5, <1>6, <2>0, <3>1, <3>3, <3>4 DEF MoveAskAuth
    <3>6. Others(c) BY <1>1, <1>5, <1>6, <3>1, <3>2, <3>4 DEF Others, Untouched
    <3>7. QED BY <3>5, <3>6 DEF Move
  <2>2. CASE /\ Runs(c, "OnHttpRawHeaderProcessor") /\ UNCHANGED <<held, stream, requested>>
             /\ conn' = [conn EXCEPT ![c].DataProcessor = "KillConnectionOnData",
                                     ![c].writes = @ \/ w]
    <3>1. MoveRefused(c) BY <1>1, <1>3, <1>4, <1>5, <1>6, <2>2 DEF MoveRefused
    <3>2. Others(c) BY <1>1, <1>4, <1>5, <1>6, <2>2 DEF Others, Untouched
    <3>3. QED BY <3>1, <3>2 DEF Move
  <2>3. CASE OnHttpNormalHeaderProcessor(c, a, w)
    <3>. DEFINE p == IF f = Null THEN "OnHttpNormalHeaderProcessor" ELSE "OnHttpBody"
    <3>1. /\ Runs(c, "OnHttpNormalHeaderProcessor") /\ UNCHANGED requested
          /\ conn' = [conn EXCEPT ![c].Type = conn[c].Type, ![c].DataProcessor = p,
                                  ![c].writes = v]
          /\ held' = [held EXCEPT !["auth"][c] = f]
          /\ stream' = IF f = Null THEN HeaderRefused(c) ELSE HeaderConsumed(c)
      BY <2>3 DEF OnHttpNormalHeaderProcessor, DataFor, ClientEvent, Runs, RequestAuthentication
    <3>2. conn'[c] = [conn[c] EXCEPT !.DataProcessor = p, !.writes = v]
      BY <1>1, <1>2, <3>1 DEF ClientConnection
    <3>. HIDE DEF v
    <3>3. /\ stream'[c] = IF f = Null
                          THEN [stream[c] EXCEPT !.content = Append(@, 2), !.refused = @ + 1]
                          ELSE [stream[c] EXCEPT !.content = Append(@, 2), !.consumed = 2]
          /\ \A d \in Conn \ {c} : stream'[d] = stream[d]
      <4>. HIDE DEF f
      <4>1. QED BY <1>1, <3>1 DEF HeaderRefused, HeaderConsumed
    <3>a. f \in Slot \cup {Null} BY AcquireFutureType
    <3>4. HeldIs(c, "auth", f) /\ f \in Slot \cup {Null} /\ \A d \in Conn \ {c} : SameHeld(d)
      <4>. HIDE DEF f
      <4>1. QED BY <3>1, <3>a, AskHeld
    <3>. HIDE DEF f, v
    <3>5. MoveAskAuthNormal(c, f)
      BY <1>5, <2>0, <3>1, <3>2, <3>3, <3>4 DEF MoveAskAuthNormal
    <3>6. Others(c) BY <1>1, <1>5, <3>1, <3>3, <3>4 DEF Others, Untouched, SameStream
    <3>7. QED BY <3>4, <3>5, <3>6 DEF Move
  <2>4. QED
    BY <1>8, <2>1, <2>2, <2>3 DEF AsksAuth, OnHttpRawHeaderProcessor, DataFor, ClientEvent, Runs
<1>9. CASE OnS5TargetTcp(c, a, w)
  <2>. DEFINE f == AcquireFuture("conn")
              v == conn[c].writes \/ (f = Null /\ w)
  <2>0. v \in BOOLEAN BY <1>3
  <2>1. /\ Runs(c, "OnS5Target") /\ UNCHANGED stream
        /\ conn' = [conn EXCEPT ![c].DataProcessor = "KillConnectionOnData",
                                ![c].Type = IF f = Null THEN @ ELSE "S5_TCP",
                                ![c].writes = v]
        /\ held' = [held EXCEPT !["conn"][c] = f]
        /\ requested' = IF f = Null THEN requested ELSE requested \cup {c}
    BY <1>9 DEF OnS5TargetTcp, DataFor, ClientEvent, Runs
  <2>a. f \in Slot \cup {Null} BY AcquireFutureType
  <2>2. HeldIs(c, "conn", f) /\ f \in Slot \cup {Null} /\ \A d \in Conn \ {c} : SameHeld(d)
    <3>. HIDE DEF f
    <3>1. QED BY <2>1, <2>a, AskHeld
  <2>. HIDE DEF f, v
  <2>3. conn'[c] = [conn[c] EXCEPT !.DataProcessor = "KillConnectionOnData",
                                   !.Type = IF f = Null THEN @ ELSE "S5_TCP", !.writes = v]
    BY <1>1, <2>1
  <2>4. c \in requested' <=> c \in requested \/ f # Null BY <2>1
  <2>5. MoveAskConn(c, f) BY <1>6, <2>0, <2>1, <2>2, <2>3, <2>4 DEF MoveAskConn
  <2>6. Others(c) BY <1>1, <1>6, <2>1, <2>2 DEF Others, Untouched, SameRequested
  <2>7. QED BY <2>2, <2>5, <2>6 DEF Move
<1>10. ASSUME NEW h \in Chan, OnS5TargetUdp(c, h, a, w) PROVE Move(c) /\ Others(c)
  <2>. DEFINE f == AcquireFuture("udp")
              v == conn[c].writes \/ (f = Null /\ w)
  <2>0. v \in BOOLEAN BY <1>3
  <2>1. /\ Runs(c, "OnS5Target") /\ UNCHANGED <<stream, requested>>
        /\ conn' = [conn EXCEPT ![c].DataProcessor = "KillConnectionOnData",
                                ![c].BindUdpChannel = h,
                                ![c].Type = IF f = Null THEN @ ELSE "S5_UDP",
                                ![c].writes = v]
        /\ held' = [held EXCEPT !["udp"][c] = f]
    BY <1>10 DEF OnS5TargetUdp, DataFor, ClientEvent, Runs
  <2>a. f \in Slot \cup {Null} BY AcquireFutureType
  <2>2. HeldIs(c, "udp", f) /\ f \in Slot \cup {Null} /\ \A d \in Conn \ {c} : SameHeld(d)
    <3>. HIDE DEF f
    <3>1. QED BY <2>1, <2>a, AskHeld
  <2>. HIDE DEF f, v
  <2>3. conn'[c] = [conn[c] EXCEPT !.DataProcessor = "KillConnectionOnData",
                                   !.BindUdpChannel = h,
                                   !.Type = IF f = Null THEN @ ELSE "S5_UDP", !.writes = v]
    BY <1>1, <2>1
  <2>5. MoveAskUdp(c, f) BY <1>5, <1>6, <2>0, <2>1, <2>2, <2>3 DEF MoveAskUdp
  <2>6. Others(c) BY <1>1, <1>5, <1>6, <2>1, <2>2 DEF Others, Untouched
  <2>7. QED BY <2>2, <2>5, <2>6 DEF Move
<1>11. QED BY <1>8, <1>9, <1>10

\* The steps of Tick that serve an answer.
LEMMA AnswerMoves ==
    ASSUME IInv, NEW f \in Slot, NEW w \in BOOLEAN, NEW a,
           \/ OnAuthResult(f, a, w) \/ OnAcquireDeviceResult(f, a, w)
           \/ OnAcquireDeviceConnectionResult(f, w) \/ OnAcquireDeviceUdpChannelResult(f, w)
    PROVE  \E c \in Conn : Answered(c) /\ Others(c)
<1>0. /\ conn \in [Conn -> ClientConnection] /\ stream \in Streams /\ held \in Pointers
      /\ future \in Futures /\ FutureOwnership /\ Null \notin Conn \cup Slot
  BY TypeParts, ParameterAssumption DEF IInv
<1>1. DOMAIN conn = Conn /\ DOMAIN stream = Conn BY <1>0 DEF Streams
<1>2. \A c \in Conn : conn[c] \in ClientConnection BY <1>0
<1>3. \A c \in Conn, b \in BOOLEAN : (conn[c].writes \/ b) \in BOOLEAN
  BY <1>2 DEF ClientConnection
<1>5. \A d : UNCHANGED requested => SameRequested(d) BY DEF SameRequested
<1>6. \A d : UNCHANGED stream => SameStream(d) BY DEF SameStream
<1>8. CASE OnAuthResult(f, a, w)
  <2>1. PICK c \in Conn : c = future["auth"][f].owner /\ Live(c) /\ Asking(c, "auth")
    <3>1. f \in Ready("auth") BY <1>8 DEF OnAuthResult
    <3>2. QED BY <3>1, AnswerOwner
  <2>. DEFINE granted == future["auth"][f].answer # "fail"
              g == AcquireFuture("device")
              v == conn[c].writes \/ (~(granted /\ g # Null) /\ w)
              e == conn[c].EnableUdpTarget \/ (/\ future["auth"][f].answer = "okUdp"
                                               /\ conn[c].Type = "S5_CHALLENGE")
  <2>2. /\ conn' = [conn EXCEPT ![c].LocalAuthId = @ \/ granted, ![c].EnableUdpTarget = e,
                                ![c].writes = v]
        /\ held' = [held EXCEPT !["auth"][c] = Null,
                                !["device"][c] = IF granted THEN g ELSE @]
        /\ UNCHANGED <<stream, requested>>
    BY <1>8, <2>1 DEF OnAuthResult
  <2>3. granted \in BOOLEAN /\ g \in Slot \cup {Null} /\ v \in BOOLEAN /\ e \in BOOLEAN
    BY <1>2, <1>3, AcquireFutureType DEF ClientConnection
  <2>. HIDE DEF granted, g, v, e
  <2>4. conn'[c] = [conn[c] EXCEPT !.LocalAuthId = @ \/ granted, !.EnableUdpTarget = e,
                                   !.writes = v]
    BY <1>1, <2>2
  <2>5. /\ held'["auth"][c] = Null
        /\ held'["device"][c] = (IF granted THEN g ELSE held["device"][c])
        /\ held'["conn"][c] = held["conn"][c] /\ held'["udp"][c] = held["udp"][c]
        /\ \A d \in Conn \ {c} : SameHeld(d)
    BY <1>0, <2>2 DEF Pointers, SameHeld
  <2>6. MoveAuthResult(c, granted, g)
    BY <1>5, <1>6, <2>1, <2>2, <2>3, <2>4, <2>5 DEF MoveAuthResult
  <2>7. Others(c) BY <1>1, <1>5, <1>6, <2>2, <2>5 DEF Others, Untouched
  <2>8. QED BY <2>3, <2>6, <2>7 DEF Answered
<1>9. CASE OnAcquireDeviceResult(f, a, w)
  <2>1. PICK c \in Conn : c = future["device"][f].owner /\ Live(c) /\ Asking(c, "device")
    <3>1. f \in Ready("device") BY <1>9 DEF OnAcquireDeviceResult
    <3>2. QED BY <3>1, AnswerOwner
  <2>. DEFINE found == future["device"][f].answer # "fail"
              http == conn[c].Type \in {"HTTP_RAW", "HTTP_NORMAL"}
              g == AcquireFuture("conn")
              v == conn[c].writes \/ (~(found /\ http /\ g # Null) /\ w)
  <2>2. /\ conn' = [conn EXCEPT ![c].DeviceReference = @ \/ found,
                        ![c].DataProcessor = IF found /\ ~http THEN "OnS5Target" ELSE @,
                        ![c].writes = v]
        /\ held' = [held EXCEPT !["device"][c] = Null,
                                !["conn"][c] = IF found /\ http THEN g ELSE @]
        /\ requested' = IF found /\ http /\ g # Null THEN requested \cup {c} ELSE requested
        /\ UNCHANGED stream
    BY <1>9, <2>1 DEF OnAcquireDeviceResult
  <2>3. found \in BOOLEAN /\ g \in Slot \cup {Null} /\ v \in BOOLEAN
    BY <1>2, <1>3, AcquireFutureType
  <2>. HIDE DEF found, g, v
  <2>4. conn'[c] = [conn[c] EXCEPT !.DeviceReference = @ \/ found,
                        !.DataProcessor = IF found /\ ~http THEN "OnS5Target" ELSE @,
                        !.writes = v]
    BY <1>1, <2>2
  <2>5. /\ held'["device"][c] = Null
        /\ held'["conn"][c] = (IF found /\ http THEN g ELSE held["conn"][c])
        /\ held'["auth"][c] = held["auth"][c] /\ held'["udp"][c] = held["udp"][c]
        /\ \A d \in Conn \ {c} : SameHeld(d)
    BY <1>0, <2>2 DEF Pointers, SameHeld
  <2>6. c \in requested' <=> c \in requested \/ (found /\ http /\ g # Null) BY <2>2
  <2>7. MoveDeviceResult(c, found, g)
    BY <1>6, <2>1, <2>2, <2>3, <2>4, <2>5, <2>6 DEF MoveDeviceResult
  <2>8. Others(c) BY <1>1, <1>6, <2>2, <2>5 DEF Others, Untouched, SameRequested
  <2>9. QED BY <2>3, <2>7, <2>8 DEF Answered
<1>10. CASE OnAcquireDeviceConnectionResult(f, w)
  <2>1. PICK c \in Conn : c = future["conn"][f].owner /\ Live(c) /\ Asking(c, "conn")
    <3>1. f \in Ready("conn") BY <1>10 DEF OnAcquireDeviceConnectionResult
    <3>2. QED BY <3>1, AnswerOwner
  <2>. DEFINE made == future["conn"][f].answer # "fail"
              plain == conn[c].Type = "HTTP_NORMAL"
              v == conn[c].writes \/ ((~made \/ ~plain) /\ w)
  <2>2. /\ conn' = [conn EXCEPT ![c].RelaySideConnectionId = @ \/ made,
                        ![c].DataProcessor = IF made /\ ~plain THEN "OnRawData" ELSE @,
                        ![c].writes = v]
        /\ held' = [held EXCEPT !["conn"][c] = Null]
        /\ stream' = IF made /\ plain THEN ContentPosted(c) ELSE stream
        /\ UNCHANGED requested
    BY <1>10, <2>1 DEF OnAcquireDeviceConnectionResult
  <2>3. made \in BOOLEAN /\ v \in BOOLEAN BY <1>2, <1>3
  <2>. HIDE DEF made, v
  <2>4. conn'[c] = [conn[c] EXCEPT !.RelaySideConnectionId = @ \/ made,
                        !.DataProcessor = IF made /\ ~plain THEN "OnRawData" ELSE @,
                        !.writes = v]
    BY <1>1, <2>2
  <2>5. HeldIs(c, "conn", Null) /\ \A d \in Conn \ {c} : SameHeld(d)
    BY <1>0, <2>2 DEF Pointers, HeldIs, SameHeld
  <2>6. /\ IF made /\ plain
           THEN stream'[c] = [stream[c] EXCEPT !.relayed = @ \o stream[c].content,
                                               !.content = <<>>]
           ELSE SameStream(c)
        /\ \A d \in Conn \ {c} : SameStream(d)
    BY <1>1, <2>2 DEF ContentPosted, SameStream
  <2>7. MoveConnResult(c, made)
    BY <1>5, <2>1, <2>2, <2>3, <2>4, <2>5, <2>6 DEF MoveConnResult
  <2>8. Others(c) BY <1>1, <1>5, <2>2, <2>5, <2>6 DEF Others, Untouched
  <2>9. QED BY <2>3, <2>7, <2>8 DEF Answered
<1>11. CASE OnAcquireDeviceUdpChannelResult(f, w)
  <2>1. PICK c \in Conn : c = future["udp"][f].owner /\ Live(c) /\ Asking(c, "udp")
    <3>1. f \in Ready("udp") BY <1>11 DEF OnAcquireDeviceUdpChannelResult
    <3>2. QED BY <3>1, AnswerOwner
  <2>2. /\ conn' = [conn EXCEPT ![c].writes = @ \/ w]
        /\ held' = [held EXCEPT !["udp"][c] = Null] /\ UNCHANGED <<stream, requested>>
    BY <1>11, <2>1 DEF OnAcquireDeviceUdpChannelResult
  <2>3. HeldIs(c, "udp", Null) /\ \A d \in Conn \ {c} : SameHeld(d)
    BY <1>0, <2>2 DEF Pointers, HeldIs, SameHeld
  <2>4. \E v \in BOOLEAN : conn'[c] = [conn[c] EXCEPT !.writes = v] BY <1>1, <1>3, <2>2
  <2>5. MoveUdpResult(c) BY <1>5, <1>6, <2>1, <2>2, <2>3, <2>4 DEF MoveUdpResult
  <2>6. Others(c) BY <1>1, <1>5, <1>6, <2>2, <2>3 DEF Others, Untouched
  <2>7. QED BY <2>5, <2>6 DEF Answered
<1>12. QED BY <1>8, <1>9, <1>10, <1>11
\* The end of a connection.
LEMMA GoneMoves ==
    ASSUME IInv, \A c \in Conn : place[c] # "none" => Live(c), NEW x \in Conn,
           ExcuteKillConnection(x)
    PROVE  Move(x) /\ Others(x)
<1>0. conn \in [Conn -> ClientConnection] /\ stream \in Streams /\ held \in Pointers
  BY TypeParts DEF IInv
<1>1. DOMAIN conn = Conn /\ DOMAIN stream = Conn BY <1>0 DEF Streams
<1>5. \A d : UNCHANGED requested => SameRequested(d) BY DEF SameRequested
<1>2. /\ conn' = [conn EXCEPT ![x] = Blank("gone")] /\ FuturesReleased(x)
      /\ stream' = [stream EXCEPT ![x] = NoData] /\ UNCHANGED requested
  BY DEF ExcuteKillConnection, DestroyConnection
<1>3. (\A k \in Kind : held'[k][x] = Null) /\ \A d \in Conn \ {x} : SameHeld(d)
  BY <1>0, <1>2 DEF FuturesReleased, Pointers, SameHeld
<1>4. Live(x)
  <2>1. place[x] = "kill" BY DEF ExcuteKillConnection, IsHead
  <2>2. QED BY <2>1
<1>6. MoveGone(x) BY <1>1, <1>2, <1>3, <1>4, <1>5 DEF MoveGone
<1>7. Others(x) BY <1>1, <1>2, <1>3, <1>5 DEF Others, Untouched, SameStream
<1>8. QED BY <1>6, <1>7 DEF Move

\* Steps that touch the lists, the futures, the channels or the clock, and no connection.
LEMMA IdleMoves ==
    ASSUME UNCHANGED <<conn, held, stream, requested>>
    PROVE  \A d \in Conn : Untouched(d)
BY DEF Untouched, SameHeld, SameRequested, SameStream

\* Every step of the service is, for each connection, one of the moves.
LEMMA NextMoves ==
    ASSUME IInv, \A c \in Conn : place[c] # "none" => Live(c), Next
    PROVE  \A d \in Conn : Move(d)
<1>0. TypeOK BY DEF IInv
<1>1. ASSUME \E c \in Conn : Move(c) /\ Others(c) PROVE \A d \in Conn : Move(d)
  BY <1>1 DEF Others, Move
<1>2. ASSUME \A d \in Conn : Untouched(d) PROVE \A d \in Conn : Move(d)
  BY <1>2 DEF Move
<1>3. CASE Tick
  <2>1. CASE \E d \in {0, 1} : TickBegin(d) BY <1>2, <2>1, IdleMoves DEF TickBegin
  <2>2. CASE \E f \in Slot, w \in BOOLEAN :
                \/ \E a \in Immediate("device") : OnAuthResult(f, a, w)
                \/ \E a \in Immediate("conn") : OnAcquireDeviceResult(f, a, w)
                \/ OnAcquireDeviceConnectionResult(f, w)
                \/ OnAcquireDeviceUdpChannelResult(f, w)
    <3>1. PICK f \in Slot, w \in BOOLEAN :
                \/ \E a \in Immediate("device") : OnAuthResult(f, a, w)
                \/ \E a \in Immediate("conn") : OnAcquireDeviceResult(f, a, w)
                \/ OnAcquireDeviceConnectionResult(f, w)
                \/ OnAcquireDeviceUdpChannelResult(f, w)
      BY <2>2
    <3>2. \E c \in Conn : Move(c) /\ Others(c) BY <3>1, AnswerMoves DEF Move
    <3>3. QED BY <1>1, <3>2
  <2>3. CASE \E c \in Conn : DeferKillTimeoutConnection(c)
    BY <1>2, <2>3, IdleMoves DEF DeferKillTimeoutConnection
  <2>4. ASSUME NEW c \in Conn, ExcuteKillConnection(c) PROVE \A d \in Conn : Move(d)
    BY <1>1, <2>4, GoneMoves
  <2>5. CASE EndLoop BY <1>2, <2>5, IdleMoves DEF EndLoop
  <2>6. QED BY <1>3, <2>1, <2>2, <2>3, <2>4, <2>5 DEF Tick
<1>4. CASE Services
  <2>1. ASSUME NEW c \in Conn, NEW w \in BOOLEAN, CloseConnection(c) \/ PostData(c, w)
        PROVE  \A d \in Conn : Move(d)
    BY <1>0, <1>1, <2>1, PlainMoves
  <2>2. ASSUME NEW k, NEW f, NEW a, AnswerFuture(k, f, a) PROVE \A d \in Conn : Move(d)
    BY <1>2, <2>2, IdleMoves DEF AnswerFuture
  <2>3. ASSUME NEW h, PostDataUdp(h) PROVE \A d \in Conn : Move(d)
    BY <1>2, <2>3, IdleMoves DEF PostDataUdp
  <2>4. QED BY <1>4, <2>1, <2>2, <2>3 DEF Services
<1>5. CASE Client
  <2>1. ASSUME NEW c \in Conn, ClientData(c) PROVE \A d \in Conn : Move(d)
    <3>1. ASSUME NEW w \in BOOLEAN, \/ RefuseAndWait(c, w) \/ OnS5Challenge(c, w)
                                    \/ OnS5TargetRefused(c, w) \/ OnHttpChallenge(c)
                                    \/ KillConnectionOnData(c) \/ OnHttpBody(c) \/ OnRawData(c)
          PROVE  \A d \in Conn : Move(d)
      BY <1>0, <1>1, <3>1, PlainMoves
    <3>2. ASSUME NEW w \in BOOLEAN, NEW a,
                 \/ AsksAuth(c, a, w) \/ OnS5TargetTcp(c, a, w)
                 \/ \E h \in Chan : OnS5TargetUdp(c, h, a, w)
          PROVE  \A d \in Conn : Move(d)
      BY <1>0, <1>1, <3>2, AskMoves
    <3>3. CASE OnS5TargetUnknownAddress(c)
      BY <1>2, <3>3, IdleMoves DEF OnS5TargetUnknownAddress
    <3>4. QED BY <2>1, <3>1, <3>2, <3>3 DEF ClientData, AsksAuth
  <2>2. ASSUME NEW c \in Conn, OnNewConnection(c) \/ OnPeerClose(c) \/ OnFlush(c)
        PROVE  \A d \in Conn : Move(d)
    BY <1>0, <1>1, <2>2, PlainMoves
  <2>3. ASSUME NEW h, OnUdpData(h) PROVE \A d \in Conn : Move(d)
    BY <1>2, <2>3, IdleMoves DEF OnUdpData
  <2>4. QED BY <1>5, <2>1, <2>2, <2>3 DEF Client
<1>6. QED BY <1>3, <1>4, <1>5 DEF Next

-----------------------------------------------------------------------------
(* What holds of each connection.                                          *)

\* Its type has a branch for the answer it waits for, and agrees with its processor.
Served(c) ==
    /\ Asking(c, "auth") \/ Asking(c, "device") =>
          conn[c].Type \in {"S5_CHALLENGE", "HTTP_RAW", "HTTP_NORMAL"}
    /\ Asking(c, "conn") \/ conn[c].RelaySideConnectionId =>
          conn[c].Type \in {"S5_TCP", "HTTP_RAW", "HTTP_NORMAL"}
    /\ Asking(c, "udp") => conn[c].Type = "S5_UDP" /\ conn[c].BindUdpChannel # Null
    /\ conn[c].DataProcessor \in {"OnS5AuthInfo", "OnS5Target"} => conn[c].Type = "S5_CHALLENGE"
    /\ conn[c].DataProcessor = "OnHttpRawHeaderProcessor" => conn[c].Type = "HTTP_RAW"
    /\ conn[c].DataProcessor \in {"OnHttpNormalHeaderProcessor", "OnHttpBody"} =>
          conn[c].Type = "HTTP_NORMAL"
    /\ conn[c].DataProcessor = "OnRawData" => conn[c].Type # "HTTP_NORMAL"

\* The relay was given the id of a connection that was accepted and has asked for a
\* connection; only such a one is marked while its socket is open.
Marks(c) ==
    /\ conn[c].open /\ conn[c].DeleteMark => c \in requested
    /\ c \in requested => conn[c].state # "unused"
    /\ Live(c) /\ c \in requested => conn[c].DataProcessor \notin Opening

\* Data was relayed, or will be without another look, on a relay connection.
Forwards(c) ==
    (\/ stream[c].relayed # <<>>
     \/ conn[c].DataProcessor = "OnRawData"
     \/ conn[c].DataProcessor = "OnHttpBody" /\ stream[c].content = <<>>)
    => conn[c].RelaySideConnectionId

\* What one connection's step reads.
LEMMA CellTypes ==
    ASSUME TypeOK, NEW c \in Conn
    PROVE  /\ conn[c] \in ClientConnection
           /\ stream[c] \in [content : Seq(Nat), relayed : Seq(Nat), consumed : Nat, refused : Nat]
           /\ \A k \in Kind : held[k][c] \in Slot \cup {Null}
           /\ Null \notin Slot \cup Chan
BY TypeParts, ParameterAssumption DEF Streams, Pointers

\* Only a live connection waits for an answer.
LEMMA AskingLive ==
    ASSUME TypeOK, FutureOwnership, NEW k \in Kind, NEW c \in Conn, Asking(c, k)
    PROVE  Live(c)
<1>1. held[k][c] \in Slot /\ c # Null
  BY CellTypes, ParameterAssumption DEF Asking
<1>2. QED BY <1>1 DEF FutureOwnership, Asking

\* No move takes the type of a connection away from the answer it waits for.
LEMMA ServedStep ==
    ASSUME TypeOK, FutureOwnership, NEW c \in Conn, OneQuestion(c), Served(c), Move(c)
    PROVE  Served(c)'
<1>0. /\ conn[c] \in ClientConnection /\ Null \notin Slot \cup Chan
      /\ Asking(c, "auth")' <=> held'["auth"][c] # Null
      /\ Asking(c, "device")' <=> held'["device"][c] # Null
      /\ Asking(c, "conn")' <=> held'["conn"][c] # Null
      /\ Asking(c, "udp")' <=> held'["udp"][c] # Null
  BY CellTypes DEF Asking
<1>. USE <1>0 DEF Served, OneQuestion, Asking, Idle, Opening, SameHeld
<1>1. CASE Untouched(c)
  <2>1. /\ conn'[c] = conn[c]
        /\ held'["auth"][c] = held["auth"][c] /\ held'["device"][c] = held["device"][c]
        /\ held'["conn"][c] = held["conn"][c] /\ held'["udp"][c] = held["udp"][c]
    BY <1>1 DEF Untouched
  <2>2. QED BY <2>1
<1>2. CASE MoveNew(c)
  <2>1. \A k \in Kind : held'[k][c] = held[k][c] BY <1>2 DEF MoveNew
  <2>2. ~Live(c) BY <1>2 DEF MoveNew, Live
  <2>3. \A k \in Kind : held[k][c] = Null BY <2>2, AskingLive DEF Asking
  <2>4. QED BY <1>2, <2>1, <2>3 DEF MoveNew, Blank
<1>3. CASE MoveGone(c) BY <1>3 DEF MoveGone, Blank
<1>4. CASE MoveWrites(c) \/ MovePeerClosed(c) \/ MoveCloseConnection(c) \/ MoveHeaderKept(c)
  BY <1>4 DEF MoveWrites, MovePeerClosed, MoveCloseConnection, MoveHeaderKept, ClientConnection
<1>5. CASE MoveS5Challenge(c) BY <1>5 DEF MoveS5Challenge, Runs, ClientConnection
<1>6. CASE MoveHttpRaw(c) BY <1>6 DEF MoveHttpRaw, Runs, ClientConnection
<1>7. CASE MoveHttpNormal(c) BY <1>7 DEF MoveHttpNormal, Runs, ClientConnection
<1>8. CASE MoveAskAuth(c) BY <1>8 DEF MoveAskAuth, HeldIs, Runs, ClientConnection
<1>9. CASE MoveRefused(c) BY <1>9 DEF MoveRefused, Runs, ClientConnection
<1>10. CASE MoveBodyKept(c) \/ MoveRelayed(c) BY <1>10 DEF MoveBodyKept, MoveRelayed
<1>11. CASE MoveUdpResult(c) BY <1>11 DEF MoveUdpResult, HeldIs, ClientConnection
<1>12. ASSUME NEW f \in Slot \cup {Null}, MoveAskAuthNormal(c, f) PROVE Served(c)'
  BY <1>12 DEF MoveAskAuthNormal, HeldIs, Runs, ClientConnection
<1>13. ASSUME NEW f \in Slot \cup {Null}, MoveAskConn(c, f) PROVE Served(c)'
  BY <1>13 DEF MoveAskConn, HeldIs, Runs, ClientConnection
<1>14. ASSUME NEW f \in Slot \cup {Null}, MoveAskUdp(c, f) PROVE Served(c)'
  BY <1>14 DEF MoveAskUdp, HeldIs, Runs, ClientConnection
<1>15. ASSUME NEW b \in BOOLEAN, NEW g \in Slot \cup {Null}, MoveAuthResult(c, b, g)
       PROVE  Served(c)'
  BY <1>15 DEF MoveAuthResult, ClientConnection
<1>16. ASSUME NEW b \in BOOLEAN, NEW g \in Slot \cup {Null}, MoveDeviceResult(c, b, g)
       PROVE  Served(c)'
  BY <1>16 DEF MoveDeviceResult, ClientConnection
<1>17. ASSUME NEW b \in BOOLEAN, MoveConnResult(c, b) PROVE Served(c)'
  BY <1>17 DEF MoveConnResult, HeldIs, ClientConnection
<1>18. QED
  BY <1>1, <1>2, <1>3, <1>4, <1>5, <1>6, <1>7, <1>8, <1>9, <1>10, <1>11, <1>12, <1>13, <1>14,
     <1>15, <1>16, <1>17 DEF Move, Answered

\* Every move keeps what is known of a marked connection.
LEMMA MarksStep ==
    ASSUME TypeOK, NEW c \in Conn, OneQuestion(c), Marks(c), Move(c)
    PROVE  Marks(c)'
<1>0. conn[c] \in ClientConnection BY CellTypes
<1>. USE <1>0 DEF Marks, Opening, SameRequested, Live
<1>1. CASE Untouched(c) BY <1>1 DEF Untouched
<1>2. CASE MoveNew(c) BY <1>2 DEF MoveNew, Blank
<1>3. CASE MoveGone(c) BY <1>3 DEF MoveGone, Blank
<1>4. CASE MoveWrites(c) \/ MovePeerClosed(c) \/ MoveCloseConnection(c) \/ MoveHeaderKept(c)
  BY <1>4 DEF MoveWrites, MovePeerClosed, MoveCloseConnection, MoveHeaderKept, ClientConnection
<1>5. CASE MoveS5Challenge(c) BY <1>5 DEF MoveS5Challenge, Runs, ClientConnection
<1>6. CASE MoveHttpRaw(c) BY <1>6 DEF MoveHttpRaw, Runs, ClientConnection
<1>7. CASE MoveHttpNormal(c) BY <1>7 DEF MoveHttpNormal, Runs, ClientConnection
<1>8. CASE MoveAskAuth(c) BY <1>8 DEF MoveAskAuth, Runs, ClientConnection
<1>9. CASE MoveRefused(c) BY <1>9 DEF MoveRefused, Runs, ClientConnection
<1>10. CASE MoveBodyKept(c) \/ MoveRelayed(c) BY <1>10 DEF MoveBodyKept, MoveRelayed
<1>11. CASE MoveUdpResult(c) BY <1>11 DEF MoveUdpResult, ClientConnection
<1>12. ASSUME NEW f \in Slot \cup {Null}, MoveAskAuthNormal(c, f) PROVE Marks(c)'
  BY <1>12 DEF MoveAskAuthNormal, Runs, ClientConnection
<1>13. ASSUME NEW f \in Slot \cup {Null}, MoveAskConn(c, f) PROVE Marks(c)'
  BY <1>13 DEF MoveAskConn, Runs, ClientConnection
<1>14. ASSUME NEW f \in Slot \cup {Null}, MoveAskUdp(c, f) PROVE Marks(c)'
  BY <1>14 DEF MoveAskUdp, Runs, ClientConnection
<1>15. ASSUME NEW b \in BOOLEAN, NEW g \in Slot \cup {Null}, MoveAuthResult(c, b, g)
       PROVE  Marks(c)'
  BY <1>15 DEF MoveAuthResult, ClientConnection
<1>16. ASSUME NEW b \in BOOLEAN, NEW g \in Slot \cup {Null}, MoveDeviceResult(c, b, g)
       PROVE  Marks(c)'
  BY <1>16 DEF MoveDeviceResult, ClientConnection, OneQuestion, Idle
<1>17. ASSUME NEW b \in BOOLEAN, MoveConnResult(c, b) PROVE Marks(c)'
  BY <1>17 DEF MoveConnResult, ClientConnection
<1>18. QED
  BY <1>1, <1>2, <1>3, <1>4, <1>5, <1>6, <1>7, <1>8, <1>9, <1>10, <1>11, <1>12, <1>13, <1>14,
     <1>15, <1>16, <1>17 DEF Move, Answered

\* No move starts to forward without a relay connection.
LEMMA ForwardsStep ==
    ASSUME TypeOK, NEW c \in Conn, OneQuestion(c), Forwards(c), Move(c)
    PROVE  Forwards(c)'
<1>0. /\ conn[c] \in ClientConnection
      /\ stream[c] \in [content : Seq(Nat), relayed : Seq(Nat), consumed : Nat, refused : Nat]
      /\ \A n \in Nat : Append(stream[c].content, n) # <<>>
  <2>1. /\ conn[c] \in ClientConnection
        /\ stream[c] \in [content : Seq(Nat), relayed : Seq(Nat), consumed : Nat, refused : Nat]
    BY CellTypes
  <2>2. \A s \in Seq(Nat), n \in Nat : Append(s, n) # <<>> OBVIOUS
  <2>3. QED BY <2>1, <2>2
<1>. USE <1>0 DEF Forwards, SameStream
<1>1. CASE Untouched(c) BY <1>1 DEF Untouched
<1>2. CASE MoveNew(c) BY <1>2 DEF MoveNew, Blank, OneQuestion, Live
<1>3. CASE MoveGone(c) BY <1>3 DEF MoveGone, Blank, NoData
<1>4. CASE MoveWrites(c) \/ MovePeerClosed(c) \/ MoveCloseConnection(c)
  BY <1>4 DEF MoveWrites, MovePeerClosed, MoveCloseConnection, ClientConnection
<1>5. CASE MoveS5Challenge(c) BY <1>5 DEF MoveS5Challenge, ClientConnection
<1>6. CASE MoveHttpRaw(c) BY <1>6 DEF MoveHttpRaw, ClientConnection
<1>7. CASE MoveHttpNormal(c)
  <2>1. conn'[c].RelaySideConnectionId = conn[c].RelaySideConnectionId
        /\ conn'[c].DataProcessor = "OnHttpNormalHeaderProcessor"
        /\ stream'[c].relayed = stream[c].relayed
    BY <1>7 DEF MoveHttpNormal, ClientConnection
  <2>2. QED BY <2>1
<1>8. CASE MoveAskAuth(c) BY <1>8 DEF MoveAskAuth, ClientConnection
<1>9. CASE MoveRefused(c) BY <1>9 DEF MoveRefused, ClientConnection
<1>10. CASE MoveBodyKept(c)
  <2>1. /\ conn'[c] = conn[c] /\ stream'[c].relayed = stream[c].relayed
        /\ stream[c].content # <<>> /\ conn[c].DataProcessor = "OnHttpBody"
        /\ stream'[c].content = Append(stream[c].content, stream[c].consumed + 1)
    BY <1>10 DEF MoveBodyKept, Runs
  <2>2. stream'[c].content # <<>> BY <2>1
  <2>3. QED BY <2>1, <2>2
<1>11. CASE MoveRelayed(c)
  BY <1>11 DEF MoveRelayed, Runs
<1>12. CASE MoveUdpResult(c) BY <1>12 DEF MoveUdpResult, ClientConnection
<1>13. CASE MoveHeaderKept(c)
  <2>1. conn'[c].RelaySideConnectionId = conn[c].RelaySideConnectionId
        /\ conn'[c].DataProcessor = "OnHttpNormalHeaderProcessor"
        /\ stream'[c].relayed = stream[c].relayed
    BY <1>13 DEF MoveHeaderKept, Runs, ClientConnection
  <2>2. QED BY <2>1
<1>14. ASSUME NEW f \in Slot \cup {Null}, MoveAskAuthNormal(c, f) PROVE Forwards(c)'
  <2>1. /\ conn'[c].RelaySideConnectionId = conn[c].RelaySideConnectionId
        /\ conn'[c].DataProcessor \in {"OnHttpNormalHeaderProcessor", "OnHttpBody"}
        /\ stream'[c].relayed = stream[c].relayed
        /\ stream'[c].content = Append(stream[c].content, 2)
    BY <1>14 DEF MoveAskAuthNormal, Runs, ClientConnection
  <2>2. stream'[c].content # <<>> BY <2>1
  <2>3. QED BY <2>1, <2>2
<1>15. ASSUME NEW f \in Slot \cup {Null}, MoveAskConn(c, f) PROVE Forwards(c)'
  BY <1>15 DEF MoveAskConn, Runs, ClientConnection
<1>16. ASSUME NEW f \in Slot \cup {Null}, MoveAskUdp(c, f) PROVE Forwards(c)'
  BY <1>16 DEF MoveAskUdp, Runs, ClientConnection
<1>17. ASSUME NEW b \in BOOLEAN, NEW g \in Slot \cup {Null}, MoveAuthResult(c, b, g)
       PROVE  Forwards(c)'
  BY <1>17 DEF MoveAuthResult, ClientConnection
<1>18. ASSUME NEW b \in BOOLEAN, NEW g \in Slot \cup {Null}, MoveDeviceResult(c, b, g)
       PROVE  Forwards(c)'
  BY <1>18 DEF MoveDeviceResult, ClientConnection
<1>19. ASSUME NEW b \in BOOLEAN, MoveConnResult(c, b) PROVE Forwards(c)'
  <2>1. /\ conn'[c].RelaySideConnectionId = (conn[c].RelaySideConnectionId \/ b)
        /\ ~b => conn'[c].DataProcessor = conn[c].DataProcessor
    BY <1>19 DEF MoveConnResult, ClientConnection
  <2>2. ~b => stream'[c] = stream[c] BY <1>19 DEF MoveConnResult
  <2>3. QED BY <2>1, <2>2
<1>20. QED
  BY <1>1, <1>2, <1>3, <1>4, <1>5, <1>6, <1>7, <1>8, <1>9, <1>10, <1>11, <1>12, <1>13, <1>14,
     <1>15, <1>16, <1>17, <1>18, <1>19 DEF Move, Answered

-----------------------------------------------------------------------------
(* The pieces of a plain http client.                                      *)

\* The pieces of s are the request line, its header (once, and once more for each of
\* n refusals) and the body, k of them consumed.
OrderedPieces(s, k, n) ==
    LET header == n + HeaderPieces(k) IN
    /\ Len(s) = 1 + header + BodyPieces(k)
    /\ s[1] = 1
    /\ \A i \in 2 .. Len(s) : s[i] = IF i <= 1 + header THEN 2 ELSE i - header + 1

\* What a plain http client sent is in order, and behind the header once it was read.
HttpInOrder(c) == conn[c].Type = "HTTP_NORMAL" =>
    /\ OrderedPieces(stream[c].relayed \o stream[c].content, stream[c].consumed,
                     stream[c].refused)
    /\ stream[c].consumed >= 1
    /\ conn[c].DataProcessor = "OnHttpNormalHeaderProcessor" => stream[c].consumed = 1
    /\ conn[c].DataProcessor = "OnHttpBody" => stream[c].consumed >= 2
    /\ conn[c].RelaySideConnectionId => stream[c].content = <<>>

\* No header was refused before the request line.
Unrefused(c) ==
    ~Live(c) \/ conn[c].DataProcessor = "OnGuessProxyType" => stream[c].refused = 0

InOrder(c) == Unrefused(c) /\ HttpInOrder(c)

\* Another header behind the header: one that is refused, or the one that is consumed.
LEMMA PiecesHeader ==
    ASSUME NEW s \in Seq(Nat), NEW n \in Nat, OrderedPieces(s, 1, n)
    PROVE  OrderedPieces(Append(s, 2), 1, n + 1) /\ OrderedPieces(Append(s, 2), 2, n)
<1>. DEFINE t == Append(s, 2)
<1>1. /\ BodyPieces(1) = 0 /\ BodyPieces(2) = 0
      /\ HeaderPieces(1) = 0 /\ HeaderPieces(2) = 1
  BY DEF BodyPieces, HeaderPieces
<1>2. /\ Len(s) \in Nat /\ Len(t) = Len(s) + 1 /\ t[Len(s) + 1] = 2
      /\ \A i \in 1 .. Len(s) : t[i] = s[i]
  OBVIOUS
<1>3. Len(s) = 1 + n /\ s[1] = 1 /\ \A i \in 2 .. Len(s) : s[i] = 2
  BY <1>1 DEF OrderedPieces
<1>. HIDE DEF t
<1>4. \A i \in 2 .. Len(t) : t[i] = 2 BY <1>2, <1>3
<1>5. t[1] = 1 BY <1>2, <1>3
<1>6. Len(t) = 2 + n BY <1>2, <1>3
<1>7. OrderedPieces(t, 1, n + 1) /\ OrderedPieces(t, 2, n)
  BY <1>1, <1>4, <1>5, <1>6 DEF OrderedPieces
<1>8. QED BY <1>7 DEF t

\* So does the next piece behind the pieces that were consumed.
LEMMA PiecesBody ==
    ASSUME NEW s \in Seq(Nat), NEW k \in Nat, NEW n \in Nat, k >= 2, OrderedPieces(s, k, n)
    PROVE  OrderedPieces(Append(s, k + 1), k + 1, n)
<1>. DEFINE t == Append(s, k + 1)
<1>1. /\ BodyPieces(k) = k - 2 /\ BodyPieces(k + 1) = k - 1
      /\ HeaderPieces(k) = 1 /\ HeaderPieces(k + 1) = 1
  BY DEF BodyPieces, HeaderPieces
<1>2. /\ Len(s) \in Nat /\ Len(t) = Len(s) + 1 /\ t[Len(s) + 1] = k + 1
      /\ \A i \in 1 .. Len(s) : t[i] = s[i]
  OBVIOUS
<1>3. /\ Len(s) = n + k /\ s[1] = 1
      /\ \A i \in 2 .. Len(s) : s[i] = IF i <= n + 2 THEN 2 ELSE i - n
  BY <1>1 DEF OrderedPieces
<1>. HIDE DEF t
<1>4. t[1] = 1 /\ Len(t) = n + k + 1 BY <1>2, <1>3
<1>5. ASSUME NEW i \in 2 .. Len(t) PROVE t[i] = IF i <= n + 2 THEN 2 ELSE i - n
  <2>1. CASE i = Len(s) + 1 BY <2>1, <1>2, <1>3
  <2>2. CASE i # Len(s) + 1
    <3>1. i \in 2 .. Len(s) BY <1>2, <2>2
    <3>2. QED BY <3>1, <1>2, <1>3
  <2>3. QED BY <2>1, <2>2
<1>6. OrderedPieces(t, k + 1, n)
  <2>1. Len(t) = 1 + (n + HeaderPieces(k + 1)) + BodyPieces(k + 1) BY <1>1, <1>4
  <2>2. \A i \in 2 .. Len(t) :
           t[i] = IF i <= 1 + (n + HeaderPieces(k + 1))
                  THEN 2 ELSE i - (n + HeaderPieces(k + 1)) + 1
    BY <1>1, <1>4, <1>5
  <2>3. QED BY <1>4, <2>1, <2>2 DEF OrderedPieces
<1>7. QED BY <1>6 DEF t

\* A sequence and another with one more element behind it.
LEMMA AppendBehind ==
    ASSUME NEW r \in Seq(Nat), NEW s \in Seq(Nat), NEW n \in Nat
    PROVE  /\ r \o Append(s, n) = Append(r \o s, n) /\ r \o s \in Seq(Nat)
           /\ r \o <<>> = r /\ <<>> \o r = r
OBVIOUS

\* The header, refused or consumed, behind what is kept back.
LEMMA HeaderBehind ==
    ASSUME NEW r \in Seq(Nat), NEW s \in Seq(Nat), NEW n \in Nat, OrderedPieces(r \o s, 1, n)
    PROVE  /\ OrderedPieces(r \o Append(s, 2), 1, n + 1)
           /\ OrderedPieces(r \o Append(s, 2), 2, n)
<1>1. r \o Append(s, 2) = Append(r \o s, 2) /\ r \o s \in Seq(Nat) BY AppendBehind
<1>2. /\ OrderedPieces(Append(r \o s, 2), 1, n + 1)
      /\ OrderedPieces(Append(r \o s, 2), 2, n)
  BY <1>1, PiecesHeader
<1>3. QED BY <1>1, <1>2

\* The next piece of the body, behind what is kept back.
LEMMA BodyBehind ==
    ASSUME NEW r \in Seq(Nat), NEW s \in Seq(Nat), NEW k \in Nat, NEW n \in Nat, k >= 2,
           OrderedPieces(r \o s, k, n)
    PROVE  OrderedPieces(r \o Append(s, k + 1), k + 1, n)
<1>1. r \o Append(s, k + 1) = Append(r \o s, k + 1) /\ r \o s \in Seq(Nat) BY AppendBehind
<1>2. OrderedPieces(Append(r \o s, k + 1), k + 1, n) BY <1>1, PiecesBody
<1>3. QED BY <1>1, <1>2

\* Nobody is asked for its request line twice.
LEMMA UnrefusedStep ==
    ASSUME TypeOK, NEW c \in Conn, Unrefused(c), Move(c)
    PROVE  Unrefused(c)'
<1>0. /\ conn[c] \in ClientConnection
      /\ stream[c] \in [content : Seq(Nat), relayed : Seq(Nat), consumed : Nat, refused : Nat]
  BY CellTypes
<1>1. ASSUME /\ stream'[c].refused = stream[c].refused
             /\ conn'[c].state = conn[c].state
             /\ conn'[c].DataProcessor = "OnGuessProxyType" =>
                   conn[c].DataProcessor = "OnGuessProxyType"
      PROVE  Unrefused(c)'
  BY <1>1 DEF Unrefused, Live
<1>2. CASE Untouched(c) BY <1>1, <1>2 DEF Untouched, SameStream
<1>3. CASE MoveNew(c) BY <1>3 DEF MoveNew, Unrefused, Live, SameStream
<1>4. CASE MoveGone(c) BY <1>4 DEF MoveGone, NoData, Unrefused
<1>5. CASE MoveWrites(c) \/ MovePeerClosed(c) \/ MoveCloseConnection(c) \/ MoveUdpResult(c)
  BY <1>0, <1>1, <1>5 DEF MoveWrites, MovePeerClosed, MoveCloseConnection, MoveUdpResult,
                          ClientConnection, SameStream
<1>6. CASE MoveS5Challenge(c) \/ MoveHttpRaw(c) \/ MoveHttpNormal(c)
  BY <1>0, <1>1, <1>6 DEF MoveS5Challenge, MoveHttpRaw, MoveHttpNormal, ClientConnection,
                          SameStream
<1>7. CASE MoveAskAuth(c) BY <1>0, <1>1, <1>7 DEF MoveAskAuth, ClientConnection, SameStream
<1>8. CASE MoveRefused(c) BY <1>0, <1>1, <1>8 DEF MoveRefused, ClientConnection, SameStream
<1>9. CASE MoveHeaderKept(c)
  BY <1>0, <1>9 DEF MoveHeaderKept, Runs, Unrefused, Live, ClientConnection
<1>10. CASE MoveBodyKept(c) \/ MoveRelayed(c)
  BY <1>0, <1>1, <1>10 DEF MoveBodyKept, MoveRelayed
<1>11. ASSUME NEW f \in Slot \cup {Null}, MoveAskAuthNormal(c, f) PROVE Unrefused(c)'
  <2>1. /\ Live(c) /\ conn'[c].state = conn[c].state
        /\ conn'[c].DataProcessor # "OnGuessProxyType"
    BY <1>0, <1>11 DEF MoveAskAuthNormal, Runs, ClientConnection
  <2>2. QED BY <2>1 DEF Unrefused, Live
<1>12. ASSUME NEW f \in Slot \cup {Null}, MoveAskConn(c, f) PROVE Unrefused(c)'
  BY <1>0, <1>1, <1>12 DEF MoveAskConn, ClientConnection, SameStream
<1>13. ASSUME NEW f \in Slot \cup {Null}, MoveAskUdp(c, f) PROVE Unrefused(c)'
  BY <1>0, <1>1, <1>13 DEF MoveAskUdp, ClientConnection, SameStream
<1>14. ASSUME NEW b \in BOOLEAN, NEW g \in Slot \cup {Null}, MoveAuthResult(c, b, g)
       PROVE  Unrefused(c)'
  BY <1>0, <1>1, <1>14 DEF MoveAuthResult, ClientConnection, SameStream
<1>15. ASSUME NEW b \in BOOLEAN, NEW g \in Slot \cup {Null}, MoveDeviceResult(c, b, g)
       PROVE  Unrefused(c)'
  BY <1>0, <1>1, <1>15 DEF MoveDeviceResult, ClientConnection, SameStream
<1>16. ASSUME NEW b \in BOOLEAN, MoveConnResult(c, b) PROVE Unrefused(c)'
  <2>1. /\ conn'[c].state = conn[c].state
        /\ conn'[c].DataProcessor \in {conn[c].DataProcessor, "OnRawData"}
    BY <1>0, <1>16 DEF MoveConnResult, ClientConnection
  <2>2. SameStream(c) \/ \E x : stream'[c] = [stream[c] EXCEPT !.relayed = x, !.content = <<>>]
    BY <1>16 DEF MoveConnResult
  <2>3. stream'[c].refused = stream[c].refused BY <1>0, <2>2 DEF SameStream
  <2>4. QED BY <1>1, <2>1, <2>3
<1>17. QED
  BY <1>2, <1>3, <1>4, <1>5, <1>6, <1>7, <1>8, <1>9, <1>10, <1>11, <1>12, <1>13, <1>14,
     <1>15, <1>16 DEF Move, Answered

\* Every move keeps what a plain http client sent in order.
LEMMA HttpInOrderStep ==
    ASSUME TypeOK, NEW c \in Conn, OneQuestion(c), Served(c), Forwards(c), Unrefused(c),
           HttpInOrder(c), Move(c)
    PROVE  HttpInOrder(c)'
<1>. DEFINE r == stream[c].relayed
            s == stream[c].content
            k == stream[c].consumed
            n == stream[c].refused
<1>0. /\ conn[c] \in ClientConnection
      /\ stream[c] \in [content : Seq(Nat), relayed : Seq(Nat), consumed : Nat, refused : Nat]
      /\ r \in Seq(Nat) /\ s \in Seq(Nat) /\ k \in Nat /\ n \in Nat
  BY CellTypes
<1>1. ASSUME /\ stream'[c] = stream[c]
             /\ conn'[c].Type = "HTTP_NORMAL" =>
                   /\ conn[c].Type = "HTTP_NORMAL"
                   /\ conn'[c].DataProcessor \in {conn[c].DataProcessor, "KillConnectionOnData"}
                   /\ conn'[c].RelaySideConnectionId => conn[c].RelaySideConnectionId
      PROVE  HttpInOrder(c)'
  BY <1>1 DEF HttpInOrder
<1>2. CASE Untouched(c) BY <1>1, <1>2 DEF Untouched, SameStream
<1>3. CASE MoveNew(c) BY <1>3 DEF MoveNew, Blank, HttpInOrder
<1>4. CASE MoveGone(c) BY <1>4 DEF MoveGone, Blank, HttpInOrder
<1>5. CASE MoveWrites(c) \/ MovePeerClosed(c) \/ MoveCloseConnection(c) \/ MoveUdpResult(c)
  BY <1>0, <1>1, <1>5 DEF MoveWrites, MovePeerClosed, MoveCloseConnection, MoveUdpResult,
                          ClientConnection, SameStream
<1>6. CASE MoveS5Challenge(c) \/ MoveHttpRaw(c)
  BY <1>0, <1>1, <1>6 DEF MoveS5Challenge, MoveHttpRaw, ClientConnection, SameStream
<1>7. CASE MoveHttpNormal(c)
  <2>1. /\ conn'[c].DataProcessor = "OnHttpNormalHeaderProcessor"
        /\ conn'[c].RelaySideConnectionId = conn[c].RelaySideConnectionId
        /\ stream'[c].content = <<1>> /\ stream'[c].consumed = 1 /\ stream'[c].relayed = r
        /\ stream'[c].refused = n /\ conn[c].DataProcessor = "OnGuessProxyType"
    BY <1>0, <1>7 DEF MoveHttpNormal, Runs, ClientConnection
  <2>2. ~conn[c].RelaySideConnectionId
    BY <1>7 DEF MoveHttpNormal, Runs, OneQuestion, Opening
  <2>3. r = <<>> /\ n = 0 BY <2>1, <2>2 DEF Forwards, Unrefused
  <2>4. OrderedPieces(<<1>>, 1, 0) BY DEF OrderedPieces, HeaderPieces, BodyPieces
  <2>5. <<>> \o <<1>> = <<1>> OBVIOUS
  <2>6. QED BY <2>1, <2>2, <2>3, <2>4, <2>5 DEF HttpInOrder
<1>8. CASE MoveAskAuth(c)
  BY <1>0, <1>1, <1>8 DEF MoveAskAuth, Runs, Served, ClientConnection, SameStream
<1>9. CASE MoveRefused(c) BY <1>0, <1>1, <1>9 DEF MoveRefused, Runs, ClientConnection, SameStream
<1>10. CASE MoveHeaderKept(c)
  <2>1. /\ conn[c].DataProcessor = "OnHttpNormalHeaderProcessor"
        /\ conn'[c].DataProcessor = conn[c].DataProcessor
        /\ conn'[c].RelaySideConnectionId = conn[c].RelaySideConnectionId
        /\ stream'[c].content = Append(s, 2) /\ stream'[c].consumed = k /\ stream'[c].relayed = r
        /\ stream'[c].refused = n + 1
    BY <1>0, <1>10 DEF MoveHeaderKept, Runs, ClientConnection
  <2>2. conn[c].Type = "HTTP_NORMAL" /\ ~conn[c].RelaySideConnectionId
    BY <2>1 DEF Served, OneQuestion, Opening
  <2>3. k = 1 /\ OrderedPieces(r \o s, 1, n) BY <2>1, <2>2 DEF HttpInOrder
  <2>5. OrderedPieces(r \o Append(s, 2), 1, n + 1)
    <3>. HIDE DEF r, s, k, n
    <3>1. QED BY <1>0, <2>3, HeaderBehind
  <2>6. QED BY <2>1, <2>2, <2>3, <2>5 DEF HttpInOrder
<1>11. CASE MoveBodyKept(c)
  <2>1. /\ conn[c].DataProcessor = "OnHttpBody" /\ conn'[c] = conn[c] /\ s # <<>>
        /\ stream'[c].content = Append(s, k + 1) /\ stream'[c].consumed = k + 1
        /\ stream'[c].relayed = r /\ stream'[c].refused = n
    BY <1>0, <1>11 DEF MoveBodyKept, Runs
  <2>2. conn[c].Type = "HTTP_NORMAL" BY <2>1 DEF Served
  <2>3. k >= 2 /\ OrderedPieces(r \o s, k, n) /\ ~conn[c].RelaySideConnectionId
    BY <2>1, <2>2 DEF HttpInOrder
  <2>4. OrderedPieces(r \o Append(s, k + 1), k + 1, n)
    <3>. HIDE DEF r, s, k, n
    <3>1. QED BY <1>0, <2>3, BodyBehind
  <2>5. k + 1 >= 1 /\ k + 1 >= 2 /\ conn'[c].DataProcessor # "OnHttpNormalHeaderProcessor"
        /\ ~conn'[c].RelaySideConnectionId
    BY <1>0, <2>1, <2>3
  <2>6. QED BY <2>1, <2>4, <2>5 DEF HttpInOrder
<1>12. CASE MoveRelayed(c)
  <2>1. /\ \/ conn[c].DataProcessor = "OnHttpBody" /\ s = <<>>
           \/ conn[c].DataProcessor = "OnRawData"
        /\ conn'[c] = conn[c] /\ stream'[c].content = s /\ stream'[c].consumed = k + 1
        /\ stream'[c].relayed = Append(r, k + 1) /\ stream'[c].refused = n
    BY <1>0, <1>12 DEF MoveRelayed, Runs
  <2>2. CASE conn[c].DataProcessor = "OnRawData" BY <2>1, <2>2 DEF Served, HttpInOrder
  <2>3. CASE conn[c].DataProcessor = "OnHttpBody" /\ s = <<>>
    <3>1. conn[c].Type = "HTTP_NORMAL" BY <2>3 DEF Served
    <3>2. k >= 2 /\ OrderedPieces(r \o s, k, n) BY <2>3, <3>1 DEF HttpInOrder
    <3>3. OrderedPieces(r, k, n) BY <1>0, <2>3, <3>2, AppendBehind
    <3>4. OrderedPieces(Append(r, k + 1), k + 1, n) BY <1>0, <3>2, <3>3, PiecesBody
    <3>5. Append(r, k + 1) \o <<>> = Append(r, k + 1) BY <1>0
    <3>. HIDE DEF r, s, k, n
    <3>6. QED BY <1>0, <2>1, <2>3, <3>1, <3>2, <3>4, <3>5 DEF HttpInOrder
  <2>4. QED BY <2>1, <2>2, <2>3
<1>13. ASSUME NEW f \in Slot \cup {Null}, MoveAskAuthNormal(c, f) PROVE HttpInOrder(c)'
  <2>1. /\ conn[c].DataProcessor = "OnHttpNormalHeaderProcessor"
        /\ conn'[c].DataProcessor = IF f = Null THEN "OnHttpNormalHeaderProcessor" ELSE "OnHttpBody"
        /\ conn'[c].RelaySideConnectionId = conn[c].RelaySideConnectionId
        /\ stream'[c].content = Append(s, 2) /\ stream'[c].consumed = (IF f = Null THEN k ELSE 2)
        /\ stream'[c].refused = (IF f = Null THEN n + 1 ELSE n) /\ stream'[c].relayed = r
    BY <1>0, <1>13 DEF MoveAskAuthNormal, Runs, ClientConnection
  <2>2. conn[c].Type = "HTTP_NORMAL" /\ ~conn[c].RelaySideConnectionId
    BY <2>1 DEF Served, OneQuestion, Opening
  <2>3. k = 1 /\ OrderedPieces(r \o s, 1, n) BY <2>1, <2>2 DEF HttpInOrder
  <2>5. OrderedPieces(r \o Append(s, 2), 1, n + 1) /\ OrderedPieces(r \o Append(s, 2), 2, n)
    <3>. HIDE DEF r, s, k, n
    <3>1. QED BY <1>0, <2>3, HeaderBehind
  <2>6. QED BY <2>1, <2>2, <2>3, <2>5 DEF HttpInOrder
<1>14. ASSUME NEW f \in Slot \cup {Null}, MoveAskConn(c, f) PROVE HttpInOrder(c)'
  BY <1>0, <1>1, <1>14 DEF MoveAskConn, ClientConnection, SameStream
<1>15. ASSUME NEW f \in Slot \cup {Null}, MoveAskUdp(c, f) PROVE HttpInOrder(c)'
  BY <1>0, <1>1, <1>15 DEF MoveAskUdp, ClientConnection, SameStream
<1>16. ASSUME NEW b \in BOOLEAN, NEW g \in Slot \cup {Null}, MoveAuthResult(c, b, g)
       PROVE  HttpInOrder(c)'
  BY <1>0, <1>1, <1>16 DEF MoveAuthResult, ClientConnection, SameStream
<1>17. ASSUME NEW b \in BOOLEAN, NEW g \in Slot \cup {Null}, MoveDeviceResult(c, b, g)
       PROVE  HttpInOrder(c)'
  BY <1>0, <1>1, <1>17 DEF MoveDeviceResult, ClientConnection, SameStream
<1>18. ASSUME NEW b \in BOOLEAN, MoveConnResult(c, b) PROVE HttpInOrder(c)'
  <2>1. CASE b /\ conn[c].Type = "HTTP_NORMAL"
    <3>1. /\ conn'[c].DataProcessor = conn[c].DataProcessor
          /\ stream'[c].relayed = r \o s /\ stream'[c].content = <<>> /\ stream'[c].consumed = k
          /\ stream'[c].refused = n
      BY <1>0, <1>18, <2>1 DEF MoveConnResult, ClientConnection
    <3>2. (r \o s) \o <<>> = r \o s BY <1>0
    <3>. HIDE DEF r, s, k, n
    <3>3. QED BY <2>1, <3>1, <3>2 DEF HttpInOrder, r, s, k, n
  <2>2. CASE ~(b /\ conn[c].Type = "HTTP_NORMAL")
    BY <1>0, <1>1, <1>18, <2>2 DEF MoveConnResult, ClientConnection, SameStream
  <2>3. QED BY <2>1, <2>2
<1>19. QED
  BY <1>2, <1>3, <1>4, <1>5, <1>6, <1>7, <1>8, <1>9, <1>10, <1>11, <1>12, <1>13, <1>14,
     <1>15, <1>16, <1>17, <1>18 DEF Move, Answered

\* So a header is there once, and once more for each time it was refused.
LEMMA InOrderStep ==
    ASSUME TypeOK, NEW c \in Conn, OneQuestion(c), Served(c), Forwards(c), InOrder(c), Move(c)
    PROVE  InOrder(c)'
<1>1. Unrefused(c) /\ HttpInOrder(c) BY DEF InOrder
<1>2. QED BY <1>1, UnrefusedStep, HttpInOrderStep DEF InOrder

-----------------------------------------------------------------------------
(* The udp channels.                                                       *)

\* No channel and no connection changes whom it is bound to, and nobody dies.
KeepsBinding ==
    /\ \A h \in Chan : chan'[h].parent = chan[h].parent
    /\ \A d \in Conn : /\ conn'[d].BindUdpChannel = conn[d].BindUdpChannel
                       /\ Live(d) => Live(d)'

\* The handlers that ask and the answers bind no channel, but for one.
LEMMA AskKeepsBinding ==
    ASSUME TypeOK, NEW c, NEW w, NEW a,
           AsksAuth(c, a, w) \/ OnS5TargetTcp(c, a, w)
    PROVE  KeepsBinding
<1>0. DOMAIN conn = Conn /\ (\A d \in Conn : conn[d] \in ClientConnection) /\ chan \in Channels
  BY TypeParts
<1>1. UNCHANGED chan
  BY DEF AsksAuth, OnS5ChallengeNoAuth, OnS5AuthInfo, OnHttpRawHeaderProcessor,
         OnHttpNormalHeaderProcessor, OnS5TargetTcp
<1>2. ASSUME NEW d \in Conn
      PROVE  conn'[d].BindUdpChannel = conn[d].BindUdpChannel /\ conn'[d].state = conn[d].state
  <2>. USE <1>0 DEF ClientConnection
  <2>1. CASE \E t, p : RequestAuthentication(c, t, p, a, w) BY <2>1 DEF RequestAuthentication
  <2>2. CASE AsksAuth(c, a, w)
    BY <2>1, <2>2 DEF AsksAuth, OnS5ChallengeNoAuth, OnS5AuthInfo, OnHttpRawHeaderProcessor,
       OnHttpNormalHeaderProcessor
  <2>3. CASE OnS5TargetTcp(c, a, w) BY <2>3 DEF OnS5TargetTcp
  <2>4. QED BY <2>2, <2>3
<1>3. QED BY <1>1, <1>2 DEF KeepsBinding, Live

\* So do the answers.
LEMMA AnswerKeepsBinding ==
    ASSUME IInv, NEW f \in Slot, NEW w \in BOOLEAN, NEW a,
           \/ OnAuthResult(f, a, w) \/ OnAcquireDeviceResult(f, a, w)
           \/ OnAcquireDeviceConnectionResult(f, w) \/ OnAcquireDeviceUdpChannelResult(f, w)
    PROVE  KeepsBinding
<1>0. (\A d \in Conn : conn[d] \in ClientConnection) /\ chan \in Channels
  BY TypeParts DEF IInv
<1>1. \A h \in Chan : chan'[h].parent = chan[h].parent
  <2>1. CASE UNCHANGED chan BY <2>1
  <2>2. CASE OnAcquireDeviceUdpChannelResult(f, w)
    <3>1. ASSUME NEW h \in Chan PROVE chan'[h].parent = chan[h].parent
      BY <1>0, <2>2 DEF OnAcquireDeviceUdpChannelResult, Channels
    <3>2. QED BY <3>1
  <2>3. QED
    BY <2>1, <2>2 DEF OnAuthResult, OnAcquireDeviceResult, OnAcquireDeviceConnectionResult
<1>2. PICK c \in Conn : Answered(c) /\ Others(c) BY AnswerMoves
<1>3. conn[c] \in ClientConnection BY <1>0
<1>4. conn'[c].BindUdpChannel = conn[c].BindUdpChannel /\ conn'[c].state = conn[c].state
  BY <1>2, <1>3 DEF Answered, MoveAuthResult, MoveDeviceResult, MoveConnResult, MoveUdpResult,
                    ClientConnection
<1>5. \A d \in Conn \ {c} : conn'[d] = conn[d] BY <1>2 DEF Others, Untouched
<1>6. QED BY <1>1, <1>4, <1>5 DEF KeepsBinding, Live

\* The handlers that edit or accept a connection or copy data bind no channel either.
LEMMA EditKeepsBinding ==
    ASSUME IInv, \/ \E c \in Conn, w \in BOOLEAN : ClientEdits(c, w)
                 \/ Copies \/ \E c \in Conn : OnNewConnection(c)
    PROVE  KeepsBinding
<1>0. conn \in [Conn -> ClientConnection] /\ chan \in Channels BY TypeParts DEF IInv
<1>1. CASE \E c \in Conn, w \in BOOLEAN : ClientEdits(c, w)
  <2>1. PICK c \in Conn, w \in BOOLEAN : ClientEdits(c, w) BY <1>1
  <2>2. PICK r \in ClientConnection : conn' = [conn EXCEPT ![c] = r] /\ Alike(conn[c], r)
    BY <1>0, <2>1, ClientEditsConn DEF Edits
  <2>3. UNCHANGED chan
    BY <2>1 DEF ClientEdits, OnPeerClose, KillConnectionOnData, PeerClosed, OnFlush, RefuseAndWait,
         OnS5Challenge, OnS5TargetRefused, OnHttpChallenge, PostData, CloseConnection
  <2>4. conn'[c] = r /\ \A d \in Conn \ {c} : conn'[d] = conn[d] BY <1>0, <2>2, ConnUpdate
  <2>5. QED BY <2>2, <2>3, <2>4 DEF KeepsBinding, Live, Alike
<1>2. CASE Copies
  <2>1. UNCHANGED conn BY <1>2 DEF Copies, OnHttpBody, OnRawData, OnUdpData, PostDataUdp
  <2>2. UNCHANGED chan \/ \E g \in Chan : chan' = [chan EXCEPT ![g].clientSeen = TRUE]
    BY <1>2 DEF Copies, OnHttpBody, OnRawData, OnUdpData, PostDataUdp
  <2>3. \A h \in Chan : chan'[h].parent = chan[h].parent BY <1>0, <2>2 DEF Channels
  <2>4. QED BY <2>1, <2>3 DEF KeepsBinding, Live
<1>3. ASSUME NEW c \in Conn, OnNewConnection(c) PROVE KeepsBinding
  <2>1. /\ conn' = [conn EXCEPT ![c] = Blank("live")] /\ UNCHANGED chan
        /\ conn[c].state = "unused"
    BY <1>3 DEF OnNewConnection
  <2>2. conn[c].BindUdpChannel = Null
    BY <2>1 DEF IInv, OneQuestionAtATime, OneQuestion, Live
  <2>3. QED BY <1>0, <2>1, <2>2 DEF KeepsBinding, Live, Blank
<1>4. QED BY <1>1, <1>2, <1>3

\* Every step but a bind and an unbind.
LEMMA UdpStep ==
    ASSUME IInv, UdpChannelOwnership, Next
    PROVE  UdpChannelOwnership'
<1>0. /\ conn \in [Conn -> ClientConnection] /\ chan \in Channels
      /\ Null \notin Conn \cup Slot \cup Chan
      /\ \A c \in Conn : OneQuestion(c)
  BY TypeParts, ParameterAssumption DEF IInv, OneQuestionAtATime
<1>1. ASSUME KeepsBinding PROVE UdpChannelOwnership'
  <2>1. \A h \in Chan : chan[h].parent \in Conn \cup {Null} BY <1>0 DEF Channels
  <2>2. \A c \in Conn : conn[c].BindUdpChannel \in Chan \cup {Null}
    BY <1>0 DEF ClientConnection
  <2>3. QED BY <1>1, <2>1, <2>2 DEF KeepsBinding, UdpChannelOwnership
<1>2. ASSUME NEW c \in Conn, NEW h \in Chan, NEW w, NEW a, OnS5TargetUdp(c, h, a, w)
      PROVE  UdpChannelOwnership'
  <2>1. /\ Live(c) /\ conn[c].BindUdpChannel = Null /\ chan[h].parent = Null
        /\ chan' = [chan EXCEPT ![h] = [FreeChannel EXCEPT !.parent = c]]
    BY <1>0, <1>2 DEF OnS5TargetUdp, DataFor, ClientEvent, OneQuestion
  <2>2. /\ chan'[h].parent = c
        /\ \A g \in Chan \ {h} : chan'[g] = chan[g]
    BY <1>0, <2>1 DEF FreeChannel, Channels
  <2>3. \A d \in Conn : /\ conn'[d].state = conn[d].state
                        /\ conn'[d].BindUdpChannel = IF d = c THEN h ELSE conn[d].BindUdpChannel
    BY <1>0, <1>2 DEF OnS5TargetUdp, ClientConnection
  <2>4. ASSUME NEW g \in Chan, chan'[g].parent # Null
        PROVE  conn'[chan'[g].parent].state = "live" /\ conn'[chan'[g].parent].BindUdpChannel = g
    <3>1. CASE g = h BY <2>1, <2>2, <2>3, <3>1 DEF Live
    <3>2. CASE g # h
      <4>1. PICK d \in Conn : d = chan[g].parent BY <1>0, <2>2, <2>4, <3>2 DEF Channels
      <4>2. Live(d) /\ conn[d].BindUdpChannel = g /\ d # c
        BY <1>0, <2>1, <2>2, <2>4, <3>2, <4>1 DEF UdpChannelOwnership
      <4>3. QED BY <2>2, <2>3, <3>2, <4>1, <4>2 DEF Live
    <3>3. QED BY <3>1, <3>2
  <2>5. ASSUME NEW d \in Conn, conn'[d].BindUdpChannel # Null
        PROVE  chan'[conn'[d].BindUdpChannel].parent = d
    <3>1. CASE d = c BY <2>2, <2>3, <3>1
    <3>2. CASE d # c
      <4>1. PICK g \in Chan : g = conn[d].BindUdpChannel
        BY <1>0, <2>3, <2>5, <3>2 DEF ClientConnection
      <4>2. chan[g].parent = d BY <1>0, <4>1 DEF UdpChannelOwnership
      <4>3. g # h BY <1>0, <2>1, <4>2
      <4>4. QED BY <2>2, <2>3, <3>2, <4>1, <4>2, <4>3
    <3>3. QED BY <3>1, <3>2
  <2>6. QED BY <2>4, <2>5 DEF UdpChannelOwnership, Live
<1>3. ASSUME NEW c \in Conn, ExcuteKillConnection(c) PROVE UdpChannelOwnership'
  <2>1. /\ conn' = [conn EXCEPT ![c] = Blank("gone")]
        /\ chan' = [h \in Chan |-> IF h = conn[c].BindUdpChannel THEN FreeChannel ELSE chan[h]]
    BY <1>3 DEF ExcuteKillConnection, DestroyConnection, ChannelReleased
  <2>2. conn'[c].BindUdpChannel = Null /\ \A d \in Conn \ {c} : conn'[d] = conn[d]
    BY <1>0, <2>1 DEF Blank
  <2>3. ASSUME NEW g \in Chan, chan'[g].parent # Null
        PROVE  conn'[chan'[g].parent].state = "live" /\ conn'[chan'[g].parent].BindUdpChannel = g
    <3>1. g # conn[c].BindUdpChannel /\ chan'[g] = chan[g] BY <2>1, <2>3 DEF FreeChannel
    <3>2. PICK d \in Conn : d = chan[g].parent BY <1>0, <2>3, <3>1 DEF Channels
    <3>3. Live(d) /\ conn[d].BindUdpChannel = g /\ d # c
      BY <2>3, <3>1, <3>2 DEF UdpChannelOwnership
    <3>4. QED BY <2>2, <3>1, <3>2, <3>3 DEF Live
  <2>4. ASSUME NEW d \in Conn, conn'[d].BindUdpChannel # Null
        PROVE  chan'[conn'[d].BindUdpChannel].parent = d
    <3>1. d # c /\ conn'[d] = conn[d] BY <2>2, <2>4
    <3>2. PICK g \in Chan : g = conn[d].BindUdpChannel
      BY <1>0, <2>4, <3>1 DEF ClientConnection
    <3>3. chan[g].parent = d BY <1>0, <3>2 DEF UdpChannelOwnership
    <3>4. g # conn[c].BindUdpChannel
      BY <1>0, <3>1, <3>2, <3>3 DEF UdpChannelOwnership
    <3>5. QED BY <2>1, <3>1, <3>2, <3>3, <3>4
  <2>5. QED BY <2>3, <2>4 DEF UdpChannelOwnership, Live
<1>4. ASSUME UNCHANGED <<conn, chan>> PROVE UdpChannelOwnership'
  BY <1>1, <1>4 DEF KeepsBinding, Live
<1>5. CASE Tick
  <2>1. ASSUME NEW f \in Slot, NEW w \in BOOLEAN, NEW a,
               \/ OnAuthResult(f, a, w) \/ OnAcquireDeviceResult(f, a, w)
               \/ OnAcquireDeviceConnectionResult(f, w) \/ OnAcquireDeviceUdpChannelResult(f, w)
        PROVE  UdpChannelOwnership'
    BY <1>1, <2>1, AnswerKeepsBinding
  <2>2. CASE (\E d \in {0, 1} : TickBegin(d)) \/ EndLoop
             \/ \E c \in Conn : DeferKillTimeoutConnection(c)
    BY <1>4, <2>2 DEF TickBegin, EndLoop, DeferKillTimeoutConnection
  <2>3. QED BY <1>3, <1>5, <2>1, <2>2 DEF Tick
<1>6. CASE Services
  <2>1. ASSUME NEW c \in Conn, NEW w \in BOOLEAN, CloseConnection(c) \/ PostData(c, w)
        PROVE  UdpChannelOwnership'
    BY <1>1, <2>1, EditKeepsBinding DEF ClientEdits
  <2>2. ASSUME NEW k, NEW f, NEW a, AnswerFuture(k, f, a) PROVE UdpChannelOwnership'
    BY <1>4, <2>2 DEF AnswerFuture
  <2>3. ASSUME NEW h \in Chan, PostDataUdp(h) PROVE UdpChannelOwnership'
    BY <1>1, <2>3, EditKeepsBinding DEF Copies
  <2>4. QED BY <1>6, <2>1, <2>2, <2>3 DEF Services
<1>7. CASE Client
  <2>1. ASSUME NEW c \in Conn, ClientData(c) PROVE UdpChannelOwnership'
    <3>1. ASSUME NEW w \in BOOLEAN, \/ RefuseAndWait(c, w) \/ OnS5Challenge(c, w)
                                    \/ OnS5TargetRefused(c, w) \/ OnHttpChallenge(c)
                                    \/ KillConnectionOnData(c)
          PROVE  UdpChannelOwnership'
      BY <1>1, <3>1, EditKeepsBinding DEF ClientEdits
    <3>2. CASE OnHttpBody(c) \/ OnRawData(c) BY <1>1, <3>2, EditKeepsBinding DEF Copies
    <3>3. ASSUME NEW w, NEW a, AsksAuth(c, a, w) \/ OnS5TargetTcp(c, a, w)
          PROVE  UdpChannelOwnership'
      BY <1>1, <3>3, AskKeepsBinding DEF IInv
    <3>4. CASE OnS5TargetUnknownAddress(c) BY <1>4, <3>4 DEF OnS5TargetUnknownAddress
    <3>5. QED BY <1>2, <2>1, <3>1, <3>2, <3>3, <3>4 DEF ClientData, AsksAuth
  <2>2. ASSUME NEW c \in Conn, OnNewConnection(c) \/ OnPeerClose(c) \/ OnFlush(c)
        PROVE  UdpChannelOwnership'
    BY <1>1, <2>2, EditKeepsBinding DEF ClientEdits
  <2>3. ASSUME NEW h \in Chan, OnUdpData(h) PROVE UdpChannelOwnership'
    BY <1>1, <2>3, EditKeepsBinding DEF Copies
  <2>4. QED BY <1>7, <2>1, <2>2, <2>3 DEF Client
<1>8. QED BY <1>5, <1>6, <1>7 DEF Next

-----------------------------------------------------------------------------
(* The timeout lists.                                                      *)

\* The facts about lists, of the lists of this service.
Lists == INSTANCE TimeoutListProofs WITH Node <- Conn, MaxAge <- IdleTimeout

\* The operations of a list are those the facts about lists are about.
LEMMA SameLists ==
    /\ \A l : (Ordered(l) <=> Lists!Ordered(l)) /\ (Ordered(l)' <=> Lists!Ordered(l)')
    /\ \A l : Members(l) = Lists!Members(l)
    /\ \A c, l : /\ StampAndGrabTail(c, l) <=> Lists!StampAndGrabTail(c, l)
                 /\ GrabTail(c, l) <=> Lists!GrabTail(c, l)
    /\ \A c : Unlink(c) <=> Lists!Unlink(c)
    /\ \A d : Elapse(d) <=> Lists!Elapse(d)
    /\ ListInit <=> Lists!ListInit
BY DEF Ordered, Lists!Ordered, Members, Lists!Members, StampAndGrabTail, Lists!StampAndGrabTail,
       GrabTail, Lists!GrabTail, Unlink, Lists!Unlink, Elapse, Lists!Elapse, ListInit, Lists!ListInit

\* The lists that a timeout loop of Tick looks at.
Timed == ListName \ {"kill"}

\* Nobody on l is older than its timeout.
Young(l) == \A c \in Members(l) : age[c] < Timeout(l)

\* The links of the lists, and the order of those that are looked at.
ListsOK == Lists!LinksOK /\ \A l \in Timed : Ordered(l)

\* Who is on which list: a connection that waits for its death is marked, unless a
\* timeout loop of this Tick put it there.
Placed(c) ==
    /\ Live(c) <=> place[c] # "none"
    /\ place[c] = "graceful" => conn[c].DeleteMark
    /\ place[c] = "kill" /\ phase \notin {"init", "idle", "graceful", "kill"}
         => conn[c].DeleteMark

\* What the timeout loops of this Tick that have ended left behind.
NoneOld ==
    /\ phase \in {"idle", "graceful", "kill", "io"} => Young("init")
    /\ phase \in {"graceful", "kill", "io"} => Young("idle")
    /\ phase \in {"kill", "io"} => Young("graceful")

\* What holds of the lists; there are finitely many live connections.
ListInv == ListsOK /\ (\A c \in Conn : Placed(c)) /\ NoneOld /\ IsFiniteSet(LiveSet)

-----------------------------------------------------------------------------
(* What a step can do to the lists.                                        *)

\* No connection comes or goes, and none loses its mark.
Stays == \A d \in Conn : (Live(d)' <=> Live(d)) /\ (conn[d].DeleteMark => conn'[d].DeleteMark)

\* The moves of the lists: none, or a connection is accepted, kept alive, closed by the
\* relay, closed by the client, expired, destroyed; or time passes.
ListQuiet ==
    /\ UNCHANGED listVars /\ Stays
    /\ (phase' = phase) \/ (phase = "io" /\ phase' = "aborted")

ListNew(c) ==
    /\ phase = "io" /\ UNCHANGED phase /\ ~Live(c)
    /\ StampAndGrabTail(c, "init") /\ conn' = [conn EXCEPT ![c] = Blank("live")]

ListAlive(c) ==
    /\ phase \in {"io", "udp"} /\ UNCHANGED phase /\ Live(c) /\ Stays
    /\ ~conn[c].DeleteMark /\ StampAndGrabTail(c, "idle")

ListGraceful(c) ==
    /\ phase = "io" /\ UNCHANGED phase /\ Live(c) /\ Stays /\ conn'[c].DeleteMark
    /\ ~conn[c].DeleteMark /\ StampAndGrabTail(c, "graceful")

ListKill(c) ==
    /\ phase = "io" /\ UNCHANGED phase /\ Live(c) /\ Stays /\ conn'[c].DeleteMark
    /\ GrabTail(c, "kill")

ListTimeout(c) ==
    /\ phase \in {"init", "idle", "graceful"} /\ place[c] = phase /\ UNCHANGED <<phase, conn>>
    /\ GrabTail(c, "kill")

ListUnlink(c) ==
    /\ phase = "kill" /\ UNCHANGED phase /\ Unlink(c) /\ conn' = [conn EXCEPT ![c] = Blank("gone")]

ListElapse(d) == phase = "io" /\ phase' = "auth" /\ UNCHANGED conn /\ Elapse(d)

\* What a step does to the lists is one of these.
ListMove ==
    \/ ListQuiet
    \/ \E c \in Conn : \/ ListNew(c) \/ ListAlive(c) \/ ListGraceful(c) \/ ListKill(c)
                       \/ ListTimeout(c) \/ ListUnlink(c)
    \/ \E d \in {0, 1} : ListElapse(d)
    \/ EndLoop

\* A step that edits one connection a little makes none come or go.
LEMMA EditStays ==
    ASSUME IInv, NEW c \in Conn, NEW w \in BOOLEAN, ClientEdits(c, w)
    PROVE  Stays /\ phase = "io" /\ UNCHANGED phase /\ Live(c)
<1>0. conn \in [Conn -> ClientConnection] /\ conn[c] \in ClientConnection
  BY TypeParts DEF IInv
<1>1. PICK r \in ClientConnection : conn' = [conn EXCEPT ![c] = r] /\ Alike(conn[c], r)
  BY <1>0, ClientEditsConn DEF Edits
<1>2. conn'[c] = r /\ \A d \in Conn \ {c} : conn'[d] = conn[d] BY <1>0, <1>1, ConnUpdate
<1>3. conn[c].DeleteMark => conn'[c].DeleteMark
  BY <1>0 DEF ClientEdits, OnPeerClose, KillConnectionOnData, PeerClosed, OnFlush, RefuseAndWait,
     OnS5Challenge, OnS5TargetRefused, OnHttpChallenge, PostData, CloseConnection,
     DeferGracefulKill, ClientConnection
<1>4. phase = "io" /\ UNCHANGED phase /\ Live(c)
  BY DEF ClientEdits, OnPeerClose, KillConnectionOnData, PeerClosed, OnFlush, RefuseAndWait,
     OnS5Challenge, OnS5TargetRefused, OnHttpChallenge, PostData, CloseConnection, DataFor,
     ClientEvent
<1>5. QED BY <1>1, <1>2, <1>3, <1>4 DEF Stays, Live, Alike

\* The handlers that edit one connection, copy data or accept, as moves of the lists.
LEMMA EditListMove ==
    ASSUME IInv, UdpChannelOwnership,
           \/ \E c \in Conn, w \in BOOLEAN : ClientEdits(c, w)
           \/ Copies \/ \E c \in Conn : OnNewConnection(c)
    PROVE  ListMove
<1>0. conn \in [Conn -> ClientConnection] /\ chan \in Channels BY TypeParts DEF IInv
<1>1. ASSUME NEW c \in Conn, NEW w \in BOOLEAN, ClientEdits(c, w) PROVE ListMove
  <2>1. Stays /\ phase = "io" /\ UNCHANGED phase /\ Live(c) BY <1>1, EditStays
  <2>2. CASE OnPeerClose(c) \/ KillConnectionOnData(c)
    <3>1. conn'[c].DeleteMark /\ (UNCHANGED listVars \/ GrabTail(c, "kill"))
      BY <1>0, <2>2 DEF OnPeerClose, KillConnectionOnData, PeerClosed, ClientConnection
    <3>2. QED BY <2>1, <3>1 DEF ListMove, ListQuiet, ListKill
  <2>3. CASE OnFlush(c)
    <3>1. \/ UNCHANGED listVars
          \/ GrabTail(c, "kill") /\ conn[c].DeleteMark
      BY <2>3 DEF OnFlush
    <3>2. QED BY <2>1, <3>1 DEF ListMove, ListQuiet, ListKill, Stays
  <2>4. CASE CloseConnection(c)
    <3>1. /\ ~conn[c].DeleteMark /\ conn'[c].DeleteMark
          /\ (UNCHANGED listVars \/ StampAndGrabTail(c, "graceful"))
      BY <1>0, <2>4 DEF CloseConnection, DeferGracefulKill, ClientConnection
    <3>2. QED BY <2>1, <3>1 DEF ListMove, ListQuiet, ListGraceful
  <2>5. CASE PostData(c, w)
    <3>1. UNCHANGED listVars \/ (~conn[c].DeleteMark /\ StampAndGrabTail(c, "idle"))
      BY <2>5 DEF PostData, KeepAlive
    <3>2. QED BY <2>1, <3>1 DEF ListMove, ListQuiet, ListAlive
  <2>6. CASE UNCHANGED listVars BY <2>1, <2>6 DEF ListMove, ListQuiet
  <2>7. QED
    BY <1>1, <2>2, <2>3, <2>4, <2>5, <2>6 DEF ClientEdits, RefuseAndWait, OnS5Challenge,
       OnS5TargetRefused, OnHttpChallenge
<1>2. CASE Copies
  <2>1. phase = "io" /\ UNCHANGED <<phase, conn>>
    BY <1>2 DEF Copies, OnHttpBody, OnRawData, OnUdpData, PostDataUdp, DataFor, ClientEvent
  <2>2. \E c \in Conn : Live(c) /\ KeepAlive(c)
    <3>1. CASE \E c \in Conn : OnHttpBody(c) \/ OnRawData(c)
      BY <3>1 DEF OnHttpBody, OnRawData, DataFor, ClientEvent
    <3>2. ASSUME NEW h \in Chan, OnUdpData(h) \/ PostDataUdp(h)
          PROVE  \E c \in Conn : Live(c) /\ KeepAlive(c)
      <4>1. PICK c \in Conn : c = chan[h].parent
        BY <1>0, <3>2 DEF OnUdpData, PostDataUdp, Channels
      <4>2. Live(c) BY <3>2, <4>1 DEF OnUdpData, PostDataUdp, UdpChannelOwnership
      <4>3. KeepAlive(c) BY <3>2, <4>1 DEF OnUdpData, PostDataUdp
      <4>4. QED BY <4>2, <4>3
    <3>3. QED BY <1>2, <3>1, <3>2 DEF Copies
  <2>3. Stays BY <2>1 DEF Stays, Live
  <2>4. QED BY <2>1, <2>2, <2>3 DEF ListMove, ListQuiet, ListAlive, KeepAlive
<1>3. ASSUME NEW c \in Conn, OnNewConnection(c) PROVE ListMove
  BY <1>3 DEF OnNewConnection, ListMove, ListNew, Live
<1>4. QED BY <1>1, <1>2, <1>3

\* The handlers that ask, and the answers.
LEMMA AskListMove ==
    ASSUME IInv, NEW c \in Conn, NEW w, NEW a,
           AsksAuth(c, a, w) \/ OnS5TargetTcp(c, a, w) \/ \E h \in Chan : OnS5TargetUdp(c, h, a, w)
    PROVE  ListMove
<1>0. DOMAIN conn = Conn /\ \A d \in Conn : conn[d] \in ClientConnection
  BY TypeParts DEF IInv
<1>1. UNCHANGED <<listVars, phase>>
  BY DEF AsksAuth, OnS5ChallengeNoAuth, OnS5AuthInfo, OnHttpRawHeaderProcessor,
         OnHttpNormalHeaderProcessor, OnS5TargetTcp, OnS5TargetUdp
<1>2. ASSUME NEW d \in Conn
      PROVE  conn'[d].DeleteMark = conn[d].DeleteMark /\ conn'[d].state = conn[d].state
  <2>. USE <1>0 DEF ClientConnection
  <2>1. CASE \E t, p : RequestAuthentication(c, t, p, a, w) BY <2>1 DEF RequestAuthentication
  <2>2. CASE AsksAuth(c, a, w)
    BY <2>1, <2>2 DEF AsksAuth, OnS5ChallengeNoAuth, OnS5AuthInfo, OnHttpRawHeaderProcessor,
       OnHttpNormalHeaderProcessor
  <2>3. CASE OnS5TargetTcp(c, a, w) BY <2>3 DEF OnS5TargetTcp
  <2>4. ASSUME NEW h \in Chan, OnS5TargetUdp(c, h, a, w)
        PROVE  conn'[d].DeleteMark = conn[d].DeleteMark /\ conn'[d].state = conn[d].state
    <3>1. \E x, y : conn' = [conn EXCEPT ![c].DataProcessor = "KillConnectionOnData",
                                         ![c].BindUdpChannel = h, ![c].Type = x, ![c].writes = y]
      BY <2>4 DEF OnS5TargetUdp
    <3>2. QED BY <3>1
  <2>5. QED BY <2>2, <2>3, <2>4
<1>3. Stays BY <1>2 DEF Stays, Live
<1>4. QED BY <1>1, <1>3 DEF ListMove, ListQuiet

\* The answers as moves of the lists: only that of a udp channel keeps alive.
LEMMA AnswerListMove ==
    ASSUME IInv, NEW f \in Slot, NEW w \in BOOLEAN, NEW a,
           \/ OnAuthResult(f, a, w) \/ OnAcquireDeviceResult(f, a, w)
           \/ OnAcquireDeviceConnectionResult(f, w) \/ OnAcquireDeviceUdpChannelResult(f, w)
    PROVE  ListMove
<1>0. \A d \in Conn : conn[d] \in ClientConnection BY TypeParts DEF IInv
<1>1. PICK c \in Conn : Answered(c) /\ Others(c) BY AnswerMoves
<1>2. conn[c] \in ClientConnection BY <1>0
<1>3. conn'[c].DeleteMark = conn[c].DeleteMark /\ conn'[c].state = conn[c].state
  BY <1>1, <1>2 DEF Answered, MoveAuthResult, MoveDeviceResult, MoveConnResult, MoveUdpResult,
                    ClientConnection
<1>4. \A d \in Conn \ {c} : conn'[d] = conn[d] BY <1>1 DEF Others, Untouched
<1>5. Stays BY <1>3, <1>4 DEF Stays, Live
<1>6. CASE UNCHANGED <<listVars, phase>> BY <1>5, <1>6 DEF ListMove, ListQuiet
<1>7. CASE OnAcquireDeviceUdpChannelResult(f, w)
  <2>1. phase = "udp" /\ UNCHANGED phase /\ f \in Ready("udp")
    BY <1>7 DEF OnAcquireDeviceUdpChannelResult
  <2>2. PICK o \in Conn : o = future["udp"][f].owner /\ Live(o) BY <2>1, AnswerOwner
  <2>3. UNCHANGED listVars \/ KeepAlive(o) BY <1>7, <2>2 DEF OnAcquireDeviceUdpChannelResult
  <2>4. QED BY <1>5, <2>1, <2>2, <2>3 DEF ListMove, ListQuiet, ListAlive, KeepAlive
<1>8. QED
  BY <1>6, <1>7 DEF OnAuthResult, OnAcquireDeviceResult, OnAcquireDeviceConnectionResult

\* Every step is one of these moves of the lists.
LEMMA NextListMove ==
    ASSUME IInv, UdpChannelOwnership, Next
    PROVE  ListMove
<1>1. CASE Tick
  <2>1. ASSUME NEW f \in Slot, NEW w \in BOOLEAN, NEW a,
               \/ OnAuthResult(f, a, w) \/ OnAcquireDeviceResult(f, a, w)
               \/ OnAcquireDeviceConnectionResult(f, w) \/ OnAcquireDeviceUdpChannelResult(f, w)
        PROVE  ListMove
    BY <2>1, AnswerListMove
  <2>2. ASSUME NEW c \in Conn, DeferKillTimeoutConnection(c) PROVE ListMove
    BY <2>2 DEF DeferKillTimeoutConnection, Expired, IsHead, ListMove, ListTimeout
  <2>3. ASSUME NEW c \in Conn, ExcuteKillConnection(c) PROVE ListMove
    BY <2>3 DEF ExcuteKillConnection, DestroyConnection, ListMove, ListUnlink
  <2>4. ASSUME NEW d \in {0, 1}, TickBegin(d) PROVE ListMove
    BY <2>4 DEF TickBegin, ListMove, ListElapse
  <2>5. CASE EndLoop BY <2>5 DEF ListMove
  <2>6. QED BY <1>1, <2>1, <2>2, <2>3, <2>4, <2>5 DEF Tick
<1>2. CASE Services
  <2>1. ASSUME NEW c \in Conn, NEW w \in BOOLEAN, CloseConnection(c) \/ PostData(c, w)
        PROVE  ListMove
    BY <2>1, EditListMove DEF ClientEdits
  <2>2. ASSUME NEW k, NEW f, NEW a, AnswerFuture(k, f, a) PROVE ListMove
    BY <2>2 DEF AnswerFuture, ListMove, ListQuiet, Stays, Live
  <2>3. ASSUME NEW h \in Chan, PostDataUdp(h) PROVE ListMove BY <2>3, EditListMove DEF Copies
  <2>4. QED BY <1>2, <2>1, <2>2, <2>3 DEF Services
<1>3. CASE Client
  <2>1. ASSUME NEW c \in Conn, ClientData(c) PROVE ListMove
    <3>1. ASSUME NEW w \in BOOLEAN, \/ RefuseAndWait(c, w) \/ OnS5Challenge(c, w)
                                    \/ OnS5TargetRefused(c, w) \/ OnHttpChallenge(c)
                                    \/ KillConnectionOnData(c)
          PROVE  ListMove
      BY <3>1, EditListMove DEF ClientEdits
    <3>2. CASE OnHttpBody(c) \/ OnRawData(c) BY <3>2, EditListMove DEF Copies
    <3>3. ASSUME NEW w, NEW a, \/ AsksAuth(c, a, w) \/ OnS5TargetTcp(c, a, w)
                               \/ \E h \in Chan : OnS5TargetUdp(c, h, a, w)
          PROVE  ListMove
      BY <3>3, AskListMove
    <3>4. CASE OnS5TargetUnknownAddress(c)
      BY <3>4 DEF OnS5TargetUnknownAddress, DataFor, ClientEvent, ListMove, ListQuiet,
                 Stays, Live
    <3>5. QED BY <2>1, <3>1, <3>2, <3>3, <3>4 DEF ClientData, AsksAuth
  <2>2. ASSUME NEW c \in Conn, OnNewConnection(c) \/ OnPeerClose(c) \/ OnFlush(c) PROVE ListMove
    BY <2>2, EditListMove DEF ClientEdits
  <2>3. ASSUME NEW h \in Chan, OnUdpData(h) PROVE ListMove BY <2>3, EditListMove DEF Copies
  <2>4. QED BY <1>3, <2>1, <2>2, <2>3 DEF Client
<1>4. QED BY <1>1, <1>2, <1>3 DEF Next

-----------------------------------------------------------------------------
(* The moves keep the lists.                                               *)

\* The names and the timeouts of the lists.
LEMMA ListConstants ==
    /\ IdleTimeout \in Nat /\ {0, 1} \subseteq Nat
    /\ "none" \notin ListName /\ Timed = {"init", "idle", "graceful"} /\ Timed \subseteq ListName
    /\ "init" # "none" /\ "idle" # "none" /\ "graceful" # "none" /\ "kill" \in ListName
    /\ \A l \in Timed : l # "none" /\ l # "kill" /\ Timeout(l) \in Nat \ {0}
BY ParameterAssumption DEF ListName, Timed, Timeout

\* The lists are empty at first.
LEMMA ListsOKInit == Init => ListsOK
<1>. SUFFICES ASSUME Init PROVE ListsOK
  OBVIOUS
<1>1. Lists!ListInit BY SameLists DEF Init
<1>2. Lists!LinksOK /\ \A l : l # "none" => Lists!Ordered(l)
  BY <1>1, ListConstants, Lists!LinksInit
<1>3. QED BY <1>2, SameLists, ListConstants DEF ListsOK

\* Links and order survive every move.
LEMMA ListsOKStep ==
    ASSUME ListsOK, ListMove
    PROVE  ListsOK'
<1>0. Lists!LinksOK /\ \A l \in Timed : Lists!Ordered(l) BY SameLists DEF ListsOK
<1>1. CASE UNCHANGED listVars
  BY <1>1 DEF ListsOK, listVars, Lists!LinksOK, Lists!ListTypeOK, Lists!Linked, Ordered, Members
<1>2. ASSUME NEW c \in Conn, NEW l \in ListName, StampAndGrabTail(c, l) PROVE ListsOK'
  <2>1. Lists!StampAndGrabTail(c, l) BY <1>2, SameLists
  <2>2. Lists!LinksOK' BY <1>0, <2>1, ListConstants, Lists!LinksStamp
  <2>3. \A k \in Timed : Lists!Ordered(k)' BY <1>0, <2>1, ListConstants, Lists!OrderedStamp
  <2>4. QED BY <2>2, <2>3, SameLists DEF ListsOK
<1>3. ASSUME NEW c \in Conn, GrabTail(c, "kill") PROVE ListsOK'
  <2>1. Lists!GrabTail(c, "kill") BY <1>3, SameLists
  <2>2. Lists!LinksOK' BY <1>0, <2>1, ListConstants, Lists!LinksGrab
  <2>3. \A k \in Timed : Lists!Ordered(k)'
    BY <1>0, <2>1, ListConstants, Lists!OrderedGrabElsewhere
  <2>4. QED BY <2>2, <2>3, SameLists DEF ListsOK
<1>4. ASSUME NEW c \in Conn, Unlink(c) PROVE ListsOK'
  <2>1. Lists!Unlink(c) BY <1>4, SameLists
  <2>2. Lists!LinksOK' BY <1>0, <2>1, ListConstants, Lists!LinksUnlink
  <2>3. \A k \in Timed : Lists!Ordered(k)' BY <1>0, <2>1, ListConstants, Lists!OrderedUnlink
  <2>4. QED BY <2>2, <2>3, SameLists DEF ListsOK
<1>5. ASSUME NEW d \in {0, 1}, Elapse(d) PROVE ListsOK'
  <2>1. Lists!Elapse(d) /\ d \in Nat BY <1>5, SameLists
  <2>2. Lists!LinksOK' BY <1>0, <2>1, ListConstants, Lists!LinksElapse
  <2>3. \A k \in Timed : Lists!Ordered(k)' BY <1>0, <2>1, ListConstants, Lists!OrderedElapse
  <2>4. QED BY <2>2, <2>3, SameLists DEF ListsOK
<1>6. QED
  BY <1>1, <1>2, <1>3, <1>4, <1>5, ListConstants DEF ListMove, ListQuiet, ListNew, ListAlive,
     ListGraceful, ListKill, ListTimeout, ListUnlink, ListElapse, EndLoop, Timed

\* What a list operation does to place.
LEMMA PlaceOf ==
    ASSUME ListsOK, NEW c \in Conn
    PROVE  /\ \A l : StampAndGrabTail(c, l) \/ GrabTail(c, l) =>
                  place'[c] = l /\ \A d \in Conn \ {c} : place'[d] = place[d]
           /\ Unlink(c) => place'[c] = "none" /\ \A d \in Conn \ {c} : place'[d] = place[d]
<1>1. DOMAIN place = Conn BY DEF ListsOK, Lists!LinksOK, Lists!ListTypeOK
<1>2. QED BY <1>1 DEF StampAndGrabTail, GrabTail, Unlink

\* Everybody stays on the right list.
LEMMA PlacedStep ==
    ASSUME IInv, ListsOK, \A c \in Conn : Placed(c), ListMove, NEW e \in Conn
    PROVE  Placed(e)'
<1>0. /\ Placed(e) /\ phase \in Phase /\ conn \in [Conn -> ClientConnection]
      /\ place[e] \in ListName \cup {"none"}
  BY TypeParts DEF IInv, ListsOK, Lists!LinksOK, Lists!ListTypeOK
<1>. USE DEF Placed
<1>1. CASE ListQuiet
  <2>1. place'[e] = place[e] /\ (Live(e)' <=> Live(e)) /\ (conn[e].DeleteMark => conn'[e].DeleteMark)
        /\ (phase' = phase \/ (phase = "io" /\ phase' = "aborted"))
    BY <1>1 DEF ListQuiet, Stays, listVars
  <2>2. QED BY <1>0, <2>1
<1>2. ASSUME NEW c \in Conn, ListNew(c) PROVE Placed(e)'
  <2>1. /\ conn'[c] = Blank("live") /\ \A d \in Conn \ {c} : conn'[d] = conn[d]
        /\ place'[c] = "init" /\ \A d \in Conn \ {c} : place'[d] = place[d]
        /\ UNCHANGED phase
    BY <1>0, <1>2, PlaceOf DEF ListNew
  <2>2. QED BY <1>0, <2>1 DEF Live, Blank
<1>3. ASSUME NEW c \in Conn, ListAlive(c) \/ ListGraceful(c) \/ ListKill(c) PROVE Placed(e)'
  <2>1. \E l \in {"idle", "graceful", "kill"} :
          /\ place'[c] = l /\ \A d \in Conn \ {c} : place'[d] = place[d]
          /\ l # "idle" => conn'[c].DeleteMark
    BY <1>3, PlaceOf DEF ListAlive, ListGraceful, ListKill
  <2>2. Live(c) /\ UNCHANGED phase /\ Stays BY <1>3 DEF ListAlive, ListGraceful, ListKill
  <2>3. QED BY <1>0, <2>1, <2>2 DEF Stays
<1>4. ASSUME NEW c \in Conn, ListTimeout(c) PROVE Placed(e)'
  <2>1. /\ place'[c] = "kill" /\ \A d \in Conn \ {c} : place'[d] = place[d]
        /\ UNCHANGED <<phase, conn>> /\ phase \in {"init", "idle", "graceful"}
        /\ place[c] = phase
    BY <1>4, PlaceOf DEF ListTimeout
  <2>2. QED BY <1>0, <2>1 DEF Live
<1>5. ASSUME NEW c \in Conn, ListUnlink(c) PROVE Placed(e)'
  <2>1. /\ conn'[c] = Blank("gone") /\ \A d \in Conn \ {c} : conn'[d] = conn[d]
        /\ place'[c] = "none" /\ \A d \in Conn \ {c} : place'[d] = place[d]
        /\ UNCHANGED phase
    BY <1>0, <1>5, PlaceOf DEF ListUnlink
  <2>2. QED BY <1>0, <2>1 DEF Live, Blank
<1>6. ASSUME NEW d \in {0, 1}, ListElapse(d) PROVE Placed(e)'
  BY <1>0, <1>6 DEF ListElapse, Elapse, Live
<1>7. CASE EndLoop
  <2>1. UNCHANGED <<conn, place>> /\ phase' = Following(phase) /\ LoopDone
        /\ phase \notin {"io", "aborted"}
    BY <1>7 DEF EndLoop, listVars
  <2>2. phase = "kill" => place[e] # "kill" BY <2>1 DEF LoopDone, Members
  <2>3. phase \in {"auth", "device", "conn", "kill"} \/ phase' \in {"init", "idle", "graceful", "kill"}
    BY <1>0, <2>1 DEF Phase, Following, Loop
  <2>4. QED BY <1>0, <2>1, <2>2, <2>3 DEF Live
<1>8. QED BY <1>1, <1>2, <1>3, <1>4, <1>5, <1>6, <1>7 DEF ListMove

\* The number of live connections stays finite.
LEMMA FiniteStep ==
    ASSUME IInv, IsFiniteSet(LiveSet), ListMove
    PROVE  IsFiniteSet(LiveSet)'
<1>0. conn \in [Conn -> ClientConnection] BY TypeParts DEF IInv
<1>1. ASSUME NEW S, S \in SUBSET LiveSet \/ \E c \in Conn : S \in SUBSET (LiveSet \cup {c})
      PROVE  IsFiniteSet(S)
  <2>1. \A c \in Conn : IsFiniteSet(LiveSet \cup {c}) BY FS_AddElement
  <2>2. QED BY <1>1, <2>1, FS_Subset
<1>2. CASE \A d \in Conn : Live(d)' => Live(d)
  <2>1. LiveSet' \in SUBSET LiveSet BY <1>2 DEF LiveSet
  <2>2. QED BY <1>1, <2>1
<1>3. ASSUME NEW c \in Conn, ListNew(c) PROVE IsFiniteSet(LiveSet)'
  <2>1. \A d \in Conn \ {c} : conn'[d] = conn[d] BY <1>0, <1>3 DEF ListNew
  <2>2. LiveSet' \in SUBSET (LiveSet \cup {c}) BY <2>1 DEF LiveSet, Live
  <2>3. QED BY <1>1, <2>2
<1>4. ASSUME NEW c \in Conn, ListUnlink(c) PROVE IsFiniteSet(LiveSet)'
  BY <1>0, <1>2, <1>4 DEF ListUnlink, Live, Blank
<1>5. CASE UNCHANGED conn BY <1>2, <1>5 DEF Live
<1>6. CASE Stays BY <1>2, <1>6 DEF Stays
<1>7. QED
  BY <1>3, <1>4, <1>5, <1>6 DEF ListMove, ListQuiet, ListAlive, ListGraceful, ListKill,
     ListTimeout, ListElapse, EndLoop

\* A loop that found no expired head leaves nobody that is too old.
LEMMA LoopLeavesYoung ==
    ASSUME IInv, ListInv, NEW l \in Timed, \A c \in Conn : ~Expired(c, l)
    PROVE  Young(l)
<1>. SUFFICES ASSUME NEW c \in Members(l) PROVE age[c] < Timeout(l)
  BY DEF Young
<1>0. /\ Lists!LinksOK /\ Lists!Ordered(l) /\ c \in Lists!Members(l)
      /\ age \in [Conn -> 0 .. IdleTimeout] /\ c \in Conn
  BY SameLists DEF ListInv, ListsOK, Lists!LinksOK, Lists!ListTypeOK, Members
<1>1. Lists!IsFiniteSet(Lists!Members(l))
  <2>1. Members(l) \in SUBSET LiveSet
    BY ListConstants DEF ListInv, Placed, Members, LiveSet
  <2>2. IsFiniteSet(Members(l)) BY <2>1, FS_Subset DEF ListInv
  <2>3. IsFiniteSet(Lists!Members(l)) BY <2>2, SameLists
  <2>4. QED BY <2>3 DEF IsFiniteSet, Lists!IsFiniteSet
<1>2. PICK h \in Conn : Lists!IsHead(h, l) /\ age[h] >= age[c]
  BY <1>0, <1>1, ListConstants, Lists!HeadIsOldest
<1>3. IsHead(h, l) BY <1>2 DEF IsHead, Lists!IsHead
<1>4. ~(age[h] >= Timeout(l)) BY <1>3 DEF Expired
<1>5. Timeout(l) \in Nat BY ListConstants
<1>6. QED BY <1>0, <1>2, <1>4, <1>5

\* Nobody is left too old behind a loop of this Tick, nor between Ticks.
LEMMA NoneOldStep ==
    ASSUME IInv, ListInv, ListMove
    PROVE  NoneOld'
<1>0. /\ NoneOld /\ ListsOK /\ phase \in Phase /\ age \in [Conn -> 0 .. IdleTimeout]
      /\ DOMAIN place = Conn
  BY TypeParts DEF IInv, ListInv, ListsOK, Lists!LinksOK, Lists!ListTypeOK
<1>1. ASSUME NEW l \in Timed, Young(l), UNCHANGED <<place, age>> PROVE Young(l)'
  BY <1>1 DEF Young, Members
<1>2. ASSUME NEW c \in Conn, NEW k, NEW l \in Timed, Young(l), StampAndGrabTail(c, k)
      PROVE  Young(l)'
  BY <1>0, <1>2, ListConstants DEF Young, Members, StampAndGrabTail
<1>3. ASSUME NEW c \in Conn, NEW l \in Timed, Young(l), GrabTail(c, "kill") PROVE Young(l)'
  BY <1>0, <1>3, ListConstants DEF Young, Members, GrabTail
<1>4. ASSUME NEW c \in Conn, NEW l \in Timed, Young(l), Unlink(c) PROVE Young(l)'
  BY <1>0, <1>4, ListConstants DEF Young, Members, Unlink
<1>5. "init" \in Timed /\ "idle" \in Timed /\ "graceful" \in Timed BY ListConstants
<1>6. ASSUME \A l \in Timed : Young(l) => Young(l)', phase' \in {phase, "aborted", "auth"}
      PROVE  NoneOld'
  BY <1>0, <1>5, <1>6 DEF NoneOld
<1>7. CASE EndLoop
  <2>1. UNCHANGED <<place, age>> /\ phase' = Following(phase) /\ LoopDone
        /\ phase \notin {"io", "aborted"}
    BY <1>7 DEF EndLoop, listVars
  <2>2. \A l \in Timed : Young(l) => Young(l)' BY <1>1, <2>1
  <2>3. \A l \in Timed : phase = l => Young(l)
    <3>1. ASSUME NEW l \in Timed, phase = l PROVE \A c \in Conn : ~Expired(c, l)
      BY <2>1, <3>1 DEF LoopDone, Timed, ListName
    <3>2. QED BY <3>1, LoopLeavesYoung
  <2>4. QED BY <1>0, <1>5, <2>1, <2>2, <2>3 DEF NoneOld, Phase, Following, Loop
<1>8. CASE ListQuiet BY <1>1, <1>6, <1>8 DEF ListQuiet, listVars
<1>9. ASSUME NEW c \in Conn, ListNew(c) \/ ListAlive(c) \/ ListGraceful(c) PROVE NoneOld'
  BY <1>2, <1>6, <1>9 DEF ListNew, ListAlive, ListGraceful
<1>10. ASSUME NEW c \in Conn, ListKill(c) \/ ListTimeout(c) PROVE NoneOld'
  BY <1>3, <1>6, <1>10 DEF ListKill, ListTimeout
<1>11. ASSUME NEW c \in Conn, ListUnlink(c) PROVE NoneOld'
  BY <1>4, <1>6, <1>11 DEF ListUnlink
<1>12. ASSUME NEW d \in {0, 1}, ListElapse(d) PROVE NoneOld' BY <1>12 DEF ListElapse, NoneOld
<1>13. QED BY <1>7, <1>8, <1>9, <1>10, <1>11, <1>12 DEF ListMove

\* The lists of a step that keeps them.
LEMMA ListInvStep ==
    ASSUME IInv, ListInv, ListMove
    PROVE  ListInv'
<1>1. ListsOK' BY ListsOKStep DEF ListInv
<1>2. \A c \in Conn : Placed(c)' BY PlacedStep DEF ListInv
<1>3. IsFiniteSet(LiveSet)' BY FiniteStep DEF ListInv
<1>4. NoneOld' BY NoneOldStep
<1>5. QED BY <1>1, <1>2, <1>3, <1>4 DEF ListInv

-----------------------------------------------------------------------------
(* The second inductive invariant, and what follows from it.               *)

\* What holds of one connection beside OneQuestion.
ConnectionInv(c) == Served(c) /\ Marks(c) /\ Forwards(c) /\ InOrder(c)

\* What holds beside IInv: of the lists, of the channels and of each connection.
JInv == ListInv /\ UdpChannelOwnership /\ \A c \in Conn : ConnectionInv(c)

\* It holds before the first client.
LEMMA InitJInv == Init => JInv
<1>. SUFFICES ASSUME Init PROVE JInv
  OBVIOUS
<1>1. ListsOK BY ListsOKInit
<1>2. ASSUME NEW c \in Conn PROVE Placed(c)
  <2>1. conn[c] = Blank("unused") /\ place[c] = "none" BY DEF Init, ListInit
  <2>2. QED BY <2>1 DEF Placed, Live, Blank
<1>3. \A l \in Timed : Young(l) BY ListConstants DEF Young, Members, Init, ListInit
<1>4. IsFiniteSet(LiveSet)
  <2>1. LiveSet = {} BY DEF LiveSet, Live, Init, Blank
  <2>2. QED BY <2>1, FS_EmptySet
<1>5. UdpChannelOwnership BY DEF UdpChannelOwnership, Init, Blank, FreeChannel
<1>6. ASSUME NEW c \in Conn PROVE ConnectionInv(c)
  <2>1. /\ conn[c] = Blank("unused") /\ stream[c] = NoData /\ c \notin requested
        /\ \A k \in Kind : ~Asking(c, k)
    BY DEF Init, Asking
  <2>2. Served(c) BY <2>1 DEF Served, Blank
  <2>3. Marks(c) BY <2>1 DEF Marks, Blank, Live
  <2>4. Forwards(c) BY <2>1 DEF Forwards, Blank, NoData
  <2>5. InOrder(c) BY <2>1 DEF InOrder, Unrefused, HttpInOrder, Blank, NoData
  <2>6. QED BY <2>2, <2>3, <2>4, <2>5 DEF ConnectionInv
<1>7. QED BY <1>1, <1>2, <1>3, <1>4, <1>5, <1>6, ListConstants DEF JInv, ListInv, NoneOld

\* Every step is a move of each connection and a move of the lists.
LEMMA NextBoth ==
    ASSUME IInv, JInv, Next
    PROVE  ListMove /\ \A c \in Conn : Move(c)
<1>1. ListMove BY NextListMove DEF JInv
<1>2. \A c \in Conn : place[c] # "none" => Live(c) BY DEF JInv, ListInv, Placed
<1>3. QED BY <1>1, <1>2, NextMoves

\* It is kept by every step.
LEMMA NextJInv == ASSUME IInv, JInv, Next PROVE JInv'
<1>0. /\ TypeOK /\ FutureOwnership /\ ListInv /\ UdpChannelOwnership
      /\ \A c \in Conn : OneQuestion(c) /\ Served(c) /\ Marks(c) /\ Forwards(c) /\ InOrder(c)
  BY DEF IInv, JInv, OneQuestionAtATime, ConnectionInv
<1>1. ListMove /\ \A c \in Conn : Move(c) BY NextBoth
<1>2. ListInv' BY <1>0, <1>1, ListInvStep
<1>3. UdpChannelOwnership' BY <1>0, UdpStep
<1>4. ASSUME NEW c \in Conn PROVE ConnectionInv(c)'
  <2>1. Served(c)' BY <1>0, <1>1, ServedStep
  <2>2. Marks(c)' BY <1>0, <1>1, MarksStep
  <2>3. Forwards(c)' BY <1>0, <1>1, ForwardsStep
  <2>4. InOrder(c)' BY <1>0, <1>1, InOrderStep
  <2>5. QED BY <2>1, <2>2, <2>3, <2>4 DEF ConnectionInv
<1>5. QED BY <1>2, <1>3, <1>4 DEF JInv

\* So does a stuttering step.
LEMMA StutterJInv == ASSUME IInv, JInv, UNCHANGED vars PROVE JInv'
<1>0. /\ UNCHANGED <<phase, conn, listVars, future, held, chan, stream, requested, authRefs>>
      /\ UNCHANGED <<place, ahead, age>>
  BY DEF vars, listVars
<1>1. ListMove BY <1>0 DEF ListMove, ListQuiet, Stays, Live
<1>2. ListInv' BY <1>1, ListInvStep DEF JInv
<1>3. UdpChannelOwnership' BY <1>0 DEF JInv, UdpChannelOwnership, Live
<1>4. ASSUME NEW c \in Conn PROVE ConnectionInv(c)'
  BY <1>0 DEF JInv, ConnectionInv, Served, Marks, Forwards, InOrder, Unrefused, HttpInOrder,
              Asking, Live
<1>5. QED BY <1>2, <1>3, <1>4 DEF JInv

\* Both invariants hold in every state the service reaches.
THEOREM SecondInvariance == Spec => [](IInv /\ JInv)
<1>1. ASSUME IInv, JInv, [Next]_vars PROVE JInv' BY <1>1, NextJInv, StutterJInv
<1>2. QED BY <1>1, Invariance, InitJInv, PTL DEF Spec

\* A connection that is not destroyed is on a list that Tick looks at, and one that
\* waits for its death between Ticks is marked.
THEOREM Placement == Spec => []ListPlacement
<1>1. JInv => ListPlacement BY DEF JInv, ListInv, Placed, ListPlacement
<1>2. QED BY <1>1, SecondInvariance, PTL

\* The timeout loops of Tick, which stop at the first node that is young enough, miss
\* none that is not.
THEOREM NobodyOutlivesTimeout == Spec => []NoExpiredSurvivor
<1>1. JInv => NoExpiredSurvivor
  BY ListConstants DEF JInv, ListInv, ListsOK, NoneOld, Young, Timed, NoExpiredSurvivor
<1>2. QED BY <1>1, SecondInvariance, PTL

\* The back pointer of a udp channel is to a live connection that is bound to it: the
\* assertions of DestroyConnection and OnData.
THEOREM ChannelsOwned == Spec => []UdpChannelOwnership
<1>1. JInv => UdpChannelOwnership BY DEF JInv
<1>2. QED BY <1>1, SecondInvariance, PTL

\* No answer of a service finds a connection whose type has no branch for it.
THEOREM EveryAnswerServed == Spec => []AnswersServed
<1>1. ASSUME JInv PROVE AnswersServed
  <2>1. \A c \in Conn : Served(c) BY <1>1 DEF JInv, ConnectionInv
  <2>2. QED BY <2>1 DEF AnswersServed, Served, Asking
<1>2. QED BY <1>1, SecondInvariance, PTL

\* Data only reaches the relay of an authenticated connection with a device.
THEOREM ForwardedIfAuthorized == Spec => []ForwardingAuthorized
<1>1. ASSUME IInv, JInv PROVE ForwardingAuthorized
  <2>1. \A c \in Conn : Forwards(c) /\ OneQuestion(c)
    BY <1>1 DEF IInv, JInv, ConnectionInv, OneQuestionAtATime
  <2>2. QED BY <2>1 DEF ForwardingAuthorized, Forwards, OneQuestion
<1>2. QED BY <1>1, SecondInvariance, PTL

\* The request of a plain http client reaches the target in order and without a gap, the
\* header once and once more for each time it was refused (StreamInOrder).
THEOREM StreamKeepsOrder == Spec => []StreamInOrder
<1>1. ASSUME JInv PROVE StreamInOrder
  <2>1. \A c \in Conn : InOrder(c) BY <1>1 DEF JInv, ConnectionInv
  <2>2. QED BY <2>1 DEF StreamInOrder, InOrder, HttpInOrder, OrderedPieces
<1>2. QED BY <1>1, SecondInvariance, PTL

\* A marked connection keeps its mark and consumes nothing, or is destroyed.
LEMMA MarkedMove ==
    ASSUME TypeOK, NEW c \in Conn, Marks(c), Live(c), conn[c].DeleteMark, Move(c)
    PROVE  \/ conn'[c].state = "gone"
           \/ conn'[c].DeleteMark /\ stream'[c].consumed = stream[c].consumed
<1>0. /\ conn[c] \in ClientConnection /\ conn[c].DeleteMark
      /\ stream[c] \in [content : Seq(Nat), relayed : Seq(Nat), consumed : Nat, refused : Nat]
      /\ conn[c].open => conn[c].DataProcessor \notin Opening
  BY CellTypes DEF Marks
<1>. USE <1>0 DEF SameStream, Runs, Opening, ClientConnection
<1>1. CASE Untouched(c) \/ MoveNew(c) \/ MoveGone(c)
  BY <1>1 DEF Untouched, MoveNew, MoveGone, Blank, Live
<1>2. CASE MoveWrites(c) \/ MovePeerClosed(c) \/ MoveCloseConnection(c) \/ MoveHeaderKept(c)
  BY <1>2 DEF MoveWrites, MovePeerClosed, MoveCloseConnection, MoveHeaderKept
<1>3. CASE MoveS5Challenge(c) \/ MoveHttpRaw(c) \/ MoveHttpNormal(c) \/ MoveAskAuth(c)
  BY <1>3 DEF MoveS5Challenge, MoveHttpRaw, MoveHttpNormal, MoveAskAuth
<1>4. CASE MoveRefused(c) BY <1>4 DEF MoveRefused
<1>5. CASE MoveBodyKept(c) \/ MoveRelayed(c) BY <1>5 DEF MoveBodyKept, MoveRelayed
<1>6. ASSUME NEW f \in Slot \cup {Null},
             MoveAskAuthNormal(c, f) \/ MoveAskConn(c, f) \/ MoveAskUdp(c, f)
      PROVE  conn'[c].DeleteMark /\ stream'[c].consumed = stream[c].consumed
  BY <1>6 DEF MoveAskAuthNormal, MoveAskConn, MoveAskUdp
<1>7. ASSUME NEW b \in BOOLEAN, NEW g \in Slot \cup {Null},
             MoveAuthResult(c, b, g) \/ MoveDeviceResult(c, b, g)
      PROVE  conn'[c].DeleteMark /\ stream'[c].consumed = stream[c].consumed
  BY <1>7 DEF MoveAuthResult, MoveDeviceResult
<1>8. ASSUME NEW b \in BOOLEAN, MoveConnResult(c, b)
      PROVE  conn'[c].DeleteMark /\ stream'[c].consumed = stream[c].consumed
  <2>1. conn'[c].DeleteMark BY <1>8 DEF MoveConnResult
  <2>2. SameStream(c) \/ \E x : stream'[c] = [stream[c] EXCEPT !.relayed = x, !.content = <<>>]
    BY <1>8 DEF MoveConnResult
  <2>3. stream'[c].consumed = stream[c].consumed BY <2>2
  <2>4. QED BY <2>1, <2>3
<1>9. CASE MoveUdpResult(c) BY <1>9 DEF MoveUdpResult
<1>10. QED
  BY <1>1, <1>2, <1>3, <1>4, <1>5, <1>6, <1>7, <1>8, <1>9 DEF Move, Answered

\* No event makes a marked connection younger.
LEMMA MarkedAge ==
    ASSUME ListsOK, conn \in [Conn -> ClientConnection], NEW c \in Conn, Live(c),
           conn[c].DeleteMark, ListMove
    PROVE  conn'[c].state = "gone" \/ age'[c] >= age[c]
<1>0. age \in [Conn -> 0 .. IdleTimeout] /\ age[c] \in 0 .. IdleTimeout /\ IdleTimeout \in Nat
  BY ListConstants DEF ListsOK, Lists!LinksOK, Lists!ListTypeOK
<1>1. CASE UNCHANGED age BY <1>0, <1>1
<1>2. ASSUME NEW d \in Conn, d # c, NEW l, StampAndGrabTail(d, l) PROVE age'[c] >= age[c]
  BY <1>0, <1>2 DEF StampAndGrabTail
<1>3. ASSUME NEW d \in Conn, ListNew(d) PROVE age'[c] >= age[c] BY <1>2, <1>3 DEF ListNew
<1>4. ASSUME NEW d \in Conn, ListAlive(d) \/ ListGraceful(d) PROVE age'[c] >= age[c]
  BY <1>2, <1>4 DEF ListAlive, ListGraceful
<1>5. ASSUME NEW d \in Conn, ListUnlink(d) PROVE conn'[c].state = "gone" \/ age'[c] >= age[c]
  <2>1. CASE d = c BY <1>5, <2>1 DEF ListUnlink, Blank
  <2>2. CASE d # c BY <1>0, <1>5, <2>2 DEF ListUnlink, Unlink
  <2>3. QED BY <2>1, <2>2
<1>6. ASSUME NEW d \in {0, 1}, ListElapse(d) PROVE age'[c] >= age[c]
  BY <1>0, <1>6 DEF ListElapse, Elapse
<1>7. QED
  BY <1>1, <1>3, <1>4, <1>5, <1>6 DEF ListMove, ListQuiet, ListKill, ListTimeout, GrabTail,
     EndLoop, listVars

\* From the mark to its end a connection is not revived: no event unmarks it, makes
\* its deadline later or takes more of the client's data.
THEOREM MarkIsFinal == Spec => MarkedStaysMarked
<1>1. ASSUME IInv, JInv, Next, NEW c \in Conn, Live(c), conn[c].DeleteMark
      PROVE  \/ conn'[c].state = "gone"
             \/ /\ conn'[c].DeleteMark
                /\ age'[c] >= age[c]
                /\ stream'[c].consumed = stream[c].consumed
  <2>1. ListMove /\ Move(c) BY <1>1, NextBoth
  <2>2. TypeOK /\ Marks(c) /\ ListsOK /\ conn \in [Conn -> ClientConnection]
    BY <1>1, TypeParts DEF IInv, JInv, ConnectionInv, ListInv
  <2>3. \/ conn'[c].state = "gone"
        \/ conn'[c].DeleteMark /\ stream'[c].consumed = stream[c].consumed
    BY <1>1, <2>1, <2>2, MarkedMove
  <2>4. conn'[c].state = "gone" \/ age'[c] >= age[c] BY <1>1, <2>1, <2>2, MarkedAge
  <2>5. QED BY <2>3, <2>4
<1>2. ASSUME IInv, JInv
      PROVE  [Next]_vars =>
             [\A c \in Conn : Live(c) /\ conn[c].DeleteMark =>
                \/ conn'[c].state = "gone"
                \/ /\ conn'[c].DeleteMark
                   /\ age'[c] >= age[c]
                   /\ stream'[c].consumed = stream[c].consumed]_vars
  BY <1>1, <1>2
<1>3. QED BY <1>2, SecondInvariance, PTL DEF Spec, MarkedStaysMarked

-----------------------------------------------------------------------------
(* The proxy and the local relay service.                                  *)

\* The facts about the relay, for the relay of this machine.
RelayFacts == INSTANCE RelayLocalProofs WITH
    Client <- Conn, Channel <- {}, MaxConnection <- MaxRelayConnection,
    IdleTimeout <- RelayIdleTimeout, phase <- relayPhase, channel <- <<>>,
    proxy <- ProxyState, request <- ConnectionQuestion, known <- told,
    place <- relayPlace, ahead <- relayAhead, age <- relayAge

-----------------------------------------------------------------------------
(* The invariant of the two services.                                      *)

\* One service runs its Tick at a time.
OneTick == phase # "io" => relayPhase = "io"

\* The relay is asked for a connection after the device of the client is known, and
\* the processor that asks does not run again.
AskedOnce(c) ==
    /\ c \in requested /\ Live(c) => conn[c].DeviceReference
    /\ c \in requested => conn[c].DataProcessor # "OnS5Target"
    /\ Asking(c, "conn") => c \in requested

\* The proxy knows the relay connections that it was told of, and no other.
ToldKnown(c) == Live(c) => (c \in told <=> conn[c].RelaySideConnectionId)

\* The target has a part of what was relayed, from its beginning; all of it as long as
\* the relay connection takes data; and nothing before there is one.
Delivered(c) ==
    /\ delivered[c] \in Seq(Nat)
    /\ c \notin told => delivered[c] = <<>>
    /\ Live(c) =>
          /\ Len(delivered[c]) <= Len(stream[c].relayed)
          /\ delivered[c] = SubSeq(stream[c].relayed, 1, Len(delivered[c]))
          /\ c \in told /\ Relay!TakesData(c) => delivered[c] = stream[c].relayed

\* What holds between the two services.
LinkInv ==
    /\ OneTick /\ DOMAIN delivered = Conn
    /\ \A c \in Conn : AskedOnce(c) /\ ToldKnown(c)

LocalInv ==
    IInv /\ JInv /\ RelayFacts!IInv /\ LinkInv /\ \A c \in Conn : Delivered(c)

-----------------------------------------------------------------------------
(* The relay of this machine is the relay that the facts are about.        *)

\* Its parameters are what a relay may have.
LEMMA RelayParameters == RelayFacts!RelayAssumption
BY LocalAssumption DEF RelayFacts!RelayAssumption

\* Counting is counting, in both readings of the module.
LEMMA SameCount == \A S : Relay!Cardinality(S) = RelayFacts!Cardinality(S)
BY DEF Relay!Cardinality, RelayFacts!Cardinality

\* A call of the proxy, an event and a step of Tick are the same in both readings.
LEMMA SameProxyCall ==
    ASSUME NEW c \in Conn, Relay!Proxy(c)
    PROVE  RelayFacts!Proxy(c)
<1>1. ASSUME NEW a, Relay!CreateConnectionByName(c, a) PROVE RelayFacts!CreateConnectionByName(c, a)
  BY <1>1, SameCount DEF Relay!CreateConnectionByName, RelayFacts!CreateConnectionByName,
         Relay!Asks, RelayFacts!Asks, Relay!QueryStarted, RelayFacts!QueryStarted, Relay!listVars,
         RelayFacts!listVars
<1>2. Relay!CreateConnectionByAddress(c) => RelayFacts!CreateConnectionByAddress(c)
  BY SameCount DEF Relay!CreateConnectionByAddress, RelayFacts!CreateConnectionByAddress,
         Relay!Asks, RelayFacts!Asks, Relay!ConnectStartedOrFailed,
         RelayFacts!ConnectStartedOrFailed, Relay!ConnectStarted, RelayFacts!ConnectStarted,
         Relay!ConnectionAs, RelayFacts!ConnectionAs, Relay!Live, RelayFacts!Live, Relay!listVars,
         RelayFacts!listVars
<1>3. Relay!TakeResult(c) => RelayFacts!TakeResult(c)
  BY DEF Relay!TakeResult, RelayFacts!TakeResult, Relay!listVars, RelayFacts!listVars
<1>4. Relay!ProxyPeerClose(c) => RelayFacts!ProxyPeerClose(c)
  BY DEF Relay!ProxyPeerClose, RelayFacts!ProxyPeerClose, Relay!DeferDestroyConnection,
         RelayFacts!DeferDestroyConnection, Relay!Live, RelayFacts!Live, Relay!Waiting,
         RelayFacts!Waiting, Relay!GrabTail, RelayFacts!GrabTail, Relay!Members,
         RelayFacts!Members, Relay!listVars, RelayFacts!listVars
<1>5. Relay!ProxyMarks(c) => RelayFacts!ProxyMarks(c)
  BY DEF Relay!ProxyMarks, RelayFacts!ProxyMarks, Relay!listVars, RelayFacts!listVars
<1>6. Relay!ProxyDestroyed(c) => RelayFacts!ProxyDestroyed(c)
  BY DEF Relay!ProxyDestroyed, RelayFacts!ProxyDestroyed, Relay!listVars, RelayFacts!listVars
<1>7. QED BY <1>1, <1>2, <1>3, <1>4, <1>5, <1>6 DEF Relay!Proxy, RelayFacts!Proxy

\* So is every event of the relay,
LEMMA SameEvent ==
    ASSUME NEW c \in Conn, Relay!Event(c)
    PROVE  RelayFacts!Event(c)
<1>1. ASSUME NEW a, Relay!DnsAnswered(c, a) PROVE RelayFacts!DnsAnswered(c, a)
  BY <1>1 DEF Relay!DnsAnswered, RelayFacts!DnsAnswered, Relay!listVars, RelayFacts!listVars
<1>2. Relay!OnConnected(c) => RelayFacts!OnConnected(c)
  BY DEF Relay!OnConnected, RelayFacts!OnConnected, Relay!SocketEvent, RelayFacts!SocketEvent,
         Relay!Live, RelayFacts!Live, Relay!Waiting, RelayFacts!Waiting, Relay!Reported,
         RelayFacts!Reported, Relay!KeepAlive, RelayFacts!KeepAlive, Relay!StampAndGrabTail,
         RelayFacts!StampAndGrabTail, Relay!Members, RelayFacts!Members, Relay!listVars,
         RelayFacts!listVars
<1>3. Relay!OnPeerClose(c) => RelayFacts!OnPeerClose(c)
  BY DEF Relay!OnPeerClose, RelayFacts!OnPeerClose, Relay!SocketEvent, RelayFacts!SocketEvent,
         Relay!Live, RelayFacts!Live, Relay!Waiting, RelayFacts!Waiting,
         Relay!DeferDestroyConnection, RelayFacts!DeferDestroyConnection, Relay!GrabTail,
         RelayFacts!GrabTail, Relay!Members, RelayFacts!Members, Relay!listVars,
         RelayFacts!listVars
<1>4. Relay!OnData(c) => RelayFacts!OnData(c)
  BY DEF Relay!OnData, RelayFacts!OnData, Relay!SocketEvent, RelayFacts!SocketEvent, Relay!Live,
         RelayFacts!Live, Relay!KeepAlive, RelayFacts!KeepAlive, Relay!StampAndGrabTail,
         RelayFacts!StampAndGrabTail, Relay!Members, RelayFacts!Members, Relay!listVars,
         RelayFacts!listVars
<1>5. QED BY <1>1, <1>2, <1>3, <1>4 DEF Relay!Event, RelayFacts!Event

\* and every step of its Tick.
LEMMA SameTick == Relay!Tick => RelayFacts!Tick
BY DEF Relay!Tick, RelayFacts!Tick, Relay!TickBegin, RelayFacts!TickBegin, Relay!ProcessDnsResult,
       RelayFacts!ProcessDnsResult, Relay!Resolved, RelayFacts!Resolved, Relay!ConnectStarted,
       RelayFacts!ConnectStarted, Relay!ConnectionAs, RelayFacts!ConnectionAs,
       Relay!DeferDestroyIdleConnection, RelayFacts!DeferDestroyIdleConnection,
       Relay!DeferDestroyConnection, RelayFacts!DeferDestroyConnection,
       Relay!CleanDyingConnection, RelayFacts!CleanDyingConnection,
       Relay!DeferDestroyIdleUdpChannel, RelayFacts!DeferDestroyIdleUdpChannel,
       Relay!DeferDestroyUdpChannel, RelayFacts!DeferDestroyUdpChannel,
       Relay!CleanDyingUdpChannel, RelayFacts!CleanDyingUdpChannel, Relay!EndLoop,
       RelayFacts!EndLoop, Relay!LoopDone, RelayFacts!LoopDone, Relay!Following,
       RelayFacts!Following, Relay!Loop, RelayFacts!Loop, Relay!Live, RelayFacts!Live,
       Relay!Waiting, RelayFacts!Waiting, Relay!Expired, RelayFacts!Expired, Relay!IsHead,
       RelayFacts!IsHead, Relay!GrabTail, RelayFacts!GrabTail, Relay!Unlink, RelayFacts!Unlink,
       Relay!Elapse, RelayFacts!Elapse, Relay!Members, RelayFacts!Members, Relay!Cardinality,
       RelayFacts!Cardinality, Relay!listVars, RelayFacts!listVars

\* So a step that the relay of this machine takes, or sits out, is a step of a relay,
LEMMA SameStep ==
    ASSUME [Relay!Next]_(Relay!vars)
    PROVE  [RelayFacts!Next]_(RelayFacts!vars)
<1>1. ASSUME Relay!Next PROVE RelayFacts!Next
  BY <1>1, SameProxyCall, SameEvent, SameTick DEF Relay!Next, RelayFacts!Next
<1>2. Relay!vars = RelayFacts!vars /\ Relay!vars' = RelayFacts!vars'
  BY DEF Relay!vars, RelayFacts!vars, Relay!listVars, RelayFacts!listVars
<1>3. QED BY <1>1, <1>2

\* keeps the invariant of relays,
LEMMA RelayKeeps ==
    ASSUME RelayFacts!IInv, [Relay!Next]_(Relay!vars)
    PROVE  RelayFacts!IInv'
BY SameStep, RelayParameters, RelayFacts!NextIInv

\* and no relay connection that was told of takes data again once it took none.
LEMMA RelayStays ==
    ASSUME RelayFacts!IInv, [Relay!Next]_(Relay!vars), NEW c \in told, Relay!TakesData(c)'
    PROVE  Relay!TakesData(c)
<1>1. /\ Relay!TakesData(c)' <=> RelayFacts!TakesData(c)'
      /\ Relay!TakesData(c) <=> RelayFacts!TakesData(c)
  BY DEF Relay!TakesData, RelayFacts!TakesData, Relay!Live, RelayFacts!Live
<1>2. QED BY <1>1, SameStep, RelayParameters, RelayFacts!SilenceIsFinal

\* The relay starts as relays do.
LEMMA RelayStarts == Relay!Init => RelayFacts!IInv
<1>1. Relay!Init => RelayFacts!Init
  BY DEF Relay!Init, RelayFacts!Init, Relay!ListInit, RelayFacts!ListInit, Relay!ConnectionAs,
         RelayFacts!ConnectionAs
<1>2. QED BY <1>1, RelayParameters, RelayFacts!InitIInv

-----------------------------------------------------------------------------
(* The proxy, when the relay takes a step of its own.                      *)

\* The relay answers the question of one connection, or none: owners, places and the
\* other pools stay as they are.
LEMMA FollowsKeeps ==
    ASSUME TypeOK, NEW c \in Conn, FutureFollows(c)
    PROVE  /\ future' \in Futures
           /\ \A k \in Kind, f \in Slot : future'[k][f].owner = future[k][f].owner
           /\ \A k \in Kind \ {"conn"} : future'[k] = future[k]
<1>0. future \in Futures BY TypeParts
<1>1. PICK a \in {"none", "ok", "fail"} :
          future' = IF a = "none" THEN future
                    ELSE [future EXCEPT !["conn"] = [f \in Slot |->
                            IF f = held["conn"][c] THEN [@[f] EXCEPT !.answer = a] ELSE @[f]]]
  BY DEF FutureFollows
<1>2. CASE a = "none" BY <1>0, <1>1, <1>2
<1>3. CASE a # "none"
  <2>. DEFINE P == [f \in Slot |-> IF f = held["conn"][c]
                                   THEN [future["conn"][f] EXCEPT !.answer = a]
                                   ELSE future["conn"][f]]
  <2>1. future' = [future EXCEPT !["conn"] = P] BY <1>1, <1>3
  <2>2. future["conn"] \in [Slot -> [owner : Conn \cup {Null}, answer : Answer]]
    BY <1>0 DEF Futures
  <2>3. ASSUME NEW f \in Slot
        PROVE  /\ P[f] \in [owner : Conn \cup {Null}, answer : Answer]
               /\ P[f].owner = future["conn"][f].owner
    <3>1. future["conn"][f] \in [owner : Conn \cup {Null}, answer : Answer] BY <2>2
    <3>2. a \in Answer BY <1>3 DEF Answer
    <3>3. QED BY <3>1, <3>2
  <2>. HIDE DEF P
  <2>4. P \in [Slot -> [owner : Conn \cup {Null}, answer : Answer]] BY <2>3 DEF P
  <2>5. /\ future'["conn"] = P
        /\ \A k \in Kind \ {"conn"} : future'[k] = future[k]
    BY <1>0, <2>1 DEF Futures
  <2>6. future' \in Futures BY <1>0, <2>1, <2>4 DEF Futures
  <2>7. \A k \in Kind, f \in Slot : future'[k][f].owner = future[k][f].owner
    BY <2>3, <2>5
  <2>8. QED BY <2>5, <2>6, <2>7
<1>4. QED BY <1>2, <1>3

\* What the relay does to the proxy between Ticks keeps both of its invariants.
LEMMA JointStep ==
    ASSUME IInv, JInv, phase = "io",
           UNCHANGED <<phase, held, chan, stream, requested, authRefs>>,
           NEW c \in Conn, FutureFollows(c), Edits(c) \/ UNCHANGED conn,
           ListMove, \A d \in Conn : Move(d)
    PROVE  IInv' /\ JInv'
<1>0. /\ TypeOK /\ FutureOwnership /\ ListInv /\ UdpChannelOwnership /\ AuthBalance
      /\ \A d \in Conn : /\ OneQuestion(d) /\ Served(d) /\ Marks(d) /\ Forwards(d)
                         /\ InOrder(d)
  BY DEF IInv, JInv, OneQuestionAtATime, ConnectionInv
<1>1. /\ phase \in Phase /\ conn \in [Conn -> ClientConnection] /\ future \in Futures
      /\ held \in Pointers /\ requested \in SUBSET Conn /\ authRefs \in [Conn -> Nat]
      /\ chan \in Channels /\ stream \in Streams
  BY <1>0, TypeParts
<1>2. /\ future' \in Futures
      /\ \A k \in Kind, f \in Slot : future'[k][f].owner = future[k][f].owner
      /\ future'["auth"] = future["auth"]
  BY <1>0, FollowsKeeps
<1>3. conn' \in [Conn -> ClientConnection] /\ \A d \in Conn : Alike(conn[d], conn'[d])
  <2>1. CASE Edits(c)
    <3>1. PICK r \in ClientConnection : conn' = [conn EXCEPT ![c] = r] /\ Alike(conn[c], r)
      BY <2>1 DEF Edits
    <3>2. /\ conn' \in [Conn -> ClientConnection] /\ conn'[c] = r
          /\ \A d \in Conn \ {c} : conn'[d] = conn[d]
      BY <1>1, <3>1, ConnUpdate
    <3>3. QED BY <3>1, <3>2 DEF Alike
  <2>2. CASE UNCHANGED conn BY <1>1, <2>2 DEF Alike
  <2>3. QED BY <2>1, <2>2
<1>4. ListInv' BY <1>0, ListInvStep
<1>5. ListTypeOK'
  <2>1. Lists!ListTypeOK' BY <1>4 DEF ListInv, ListsOK, Lists!LinksOK
  <2>2. QED BY <2>1 DEF ListTypeOK, Lists!ListTypeOK, Members, Lists!Members
<1>6. TypeOK' BY <1>1, <1>2, <1>3, <1>5, TypeFrom
<1>7. FutureOwnership'
  <2>1. \A k \in Kind, f \in Slot : future[k][f].owner \in Conn \cup {Null}
    BY <1>1 DEF Futures
  <2>2. \A d \in Conn : Live(d)' = Live(d) BY <1>3 DEF Live, Alike
  <2>3. \A k \in Kind, d \in Conn : held[k][d] \in Slot \cup {Null} BY <1>1 DEF Pointers
  <2>4. QED BY <1>0, <1>2, <2>1, <2>2, <2>3 DEF FutureOwnership
<1>8. OneQuestionAtATime'
  <2>1. SUFFICES ASSUME NEW d \in Conn PROVE OneQuestion(d)'
    BY DEF OneQuestionAtATime
  <2>2. OneQuestion(d) /\ Alike(conn[d], conn'[d]) BY <1>0, <1>3
  <2>3. QED BY <2>2 DEF OneQuestion, Asking, Idle, Live, Alike, Opening
<1>9. AuthBalance'
  <2>1. \A d \in Conn : conn'[d].LocalAuthId = conn[d].LocalAuthId BY <1>3 DEF Alike
  <2>2. QED BY <1>0, <1>2, <2>1, AuthUntouched
<1>10. IInv' BY <1>6, <1>7, <1>8, <1>9 DEF IInv, AuthDrained
<1>11. UdpChannelOwnership'
  <2>1. \A d \in Conn : /\ conn'[d].BindUdpChannel = conn[d].BindUdpChannel
                        /\ Live(d)' = Live(d)
    BY <1>3 DEF Alike, Live
  <2>2. \A h \in Chan : chan[h].parent \in Conn \cup {Null} BY <1>1 DEF Channels
  <2>3. QED BY <1>0, <2>1, <2>2 DEF UdpChannelOwnership
<1>12. ASSUME NEW d \in Conn PROVE ConnectionInv(d)'
  <2>1. Served(d)' BY <1>0, ServedStep
  <2>2. Marks(d)' BY <1>0, MarksStep
  <2>3. Forwards(d)' BY <1>0, ForwardsStep
  <2>4. InOrder(d)' BY <1>0, InOrderStep
  <2>5. QED BY <2>1, <2>2, <2>3, <2>4 DEF ConnectionInv
<1>13. QED BY <1>4, <1>10, <1>11, <1>12 DEF JInv

-----------------------------------------------------------------------------
(* What a step does to the link between the two.                           *)

\* Who was told of a relay connection has asked for it and waits no longer, and a relay
\* connection is made for who asked.
LEMMA RelaySays ==
    ASSUME RelayFacts!IInv, NEW c \in Conn
    PROVE  /\ told \in SUBSET Conn
           /\ c \in told => c \in requested /\ ConnectionQuestion[c] = "done"
           /\ Relay!Live(c) => c \in requested
<1>1. /\ told \in SUBSET Conn
      /\ c \in told => ConnectionQuestion[c] = "done"
      /\ connection[c].state # "unused" => ConnectionQuestion[c] # "unasked"
  BY DEF RelayFacts!IInv, RelayFacts!TypeOK, RelayFacts!QuestionInOrder
<1>2. ConnectionQuestion[c] # "unasked" => c \in requested BY DEF ConnectionQuestion
<1>3. QED BY <1>1, <1>2 DEF Relay!Live

\* The handler that asks for a relay connection is never the next one again.
LEMMA AskedOnceStep ==
    ASSUME TypeOK, NEW c \in Conn, OneQuestion(c), OneQuestion(c)', Marks(c), AskedOnce(c), Move(c)
    PROVE  AskedOnce(c)'
<1>0. /\ conn[c] \in ClientConnection /\ Null \notin Slot
      /\ Asking(c, "conn")' <=> held'["conn"][c] # Null
      /\ Asking(c, "conn") <=> held["conn"][c] # Null
      /\ Live(c)' <=> conn'[c].state = "live"
  BY CellTypes DEF Asking, Live
<1>. USE <1>0 DEF AskedOnce, SameHeld, SameRequested, Runs, ClientConnection
<1>1. CASE Untouched(c) BY <1>1 DEF Untouched, Live
<1>2. CASE MoveNew(c) BY <1>2 DEF MoveNew, Marks, Blank, Live
<1>3. CASE MoveGone(c) BY <1>3 DEF MoveGone, Blank, Live
<1>4. CASE MoveWrites(c) \/ MovePeerClosed(c) \/ MoveCloseConnection(c) \/ MoveHeaderKept(c)
  BY <1>4 DEF MoveWrites, MovePeerClosed, MoveCloseConnection, MoveHeaderKept, Live
<1>5. CASE MoveS5Challenge(c) \/ MoveHttpRaw(c) \/ MoveHttpNormal(c)
  BY <1>5 DEF MoveS5Challenge, MoveHttpRaw, MoveHttpNormal, Live
<1>6. CASE MoveAskAuth(c) BY <1>6 DEF MoveAskAuth, HeldIs, Live
<1>7. CASE MoveRefused(c) BY <1>7 DEF MoveRefused, Live
<1>8. CASE MoveBodyKept(c) \/ MoveRelayed(c) BY <1>8 DEF MoveBodyKept, MoveRelayed, Live
<1>9. ASSUME NEW f \in Slot \cup {Null}, MoveAskAuthNormal(c, f) \/ MoveAskUdp(c, f)
      PROVE  AskedOnce(c)'
  BY <1>9 DEF MoveAskAuthNormal, MoveAskUdp, HeldIs, Live
<1>10. ASSUME NEW f \in Slot \cup {Null}, MoveAskConn(c, f) PROVE AskedOnce(c)'
  BY <1>10 DEF MoveAskConn, HeldIs, OneQuestion, Live
<1>11. ASSUME NEW b \in BOOLEAN, NEW g \in Slot \cup {Null}, MoveAuthResult(c, b, g)
       PROVE  AskedOnce(c)'
  BY <1>11 DEF MoveAuthResult, Live
<1>12. ASSUME NEW b \in BOOLEAN, NEW g \in Slot \cup {Null}, MoveDeviceResult(c, b, g)
       PROVE  AskedOnce(c)'
  <2>1. ~conn[c].DeviceReference /\ c \notin requested
    BY <1>12 DEF MoveDeviceResult, OneQuestion
  <2>2. QED BY <1>12, <2>1 DEF MoveDeviceResult, OneQuestion, Asking, Live
<1>13. ASSUME NEW b \in BOOLEAN, MoveConnResult(c, b) PROVE AskedOnce(c)'
  BY <1>13 DEF MoveConnResult, HeldIs, Live
<1>14. CASE MoveUdpResult(c) BY <1>14 DEF MoveUdpResult, HeldIs, Live
<1>15. QED
  BY <1>1, <1>2, <1>3, <1>4, <1>5, <1>6, <1>7, <1>8, <1>9, <1>10, <1>11, <1>12, <1>13, <1>14
  DEF Move, Answered

\* A live connection learns of a relay connection only when its question is answered.
LEMMA KnownStep ==
    ASSUME TypeOK, NEW c \in Conn, Move(c), Live(c)', Asking(c, "conn") => Asking(c, "conn")'
    PROVE  \/ Live(c) /\ conn'[c].RelaySideConnectionId = conn[c].RelaySideConnectionId
           \/ conn[c].state = "unused" /\ ~conn'[c].RelaySideConnectionId
<1>0. /\ conn[c] \in ClientConnection /\ conn[c].state \in {"unused", "live", "gone"}
      /\ Asking(c, "conn")' <=> held'["conn"][c] # Null
      /\ Asking(c, "conn") <=> held["conn"][c] # Null
      /\ Live(c)' <=> conn'[c].state = "live"
  BY CellTypes DEF Asking, Live, ClientConnection
<1>. USE <1>0 DEF Runs, ClientConnection
<1>1. CASE Untouched(c) BY <1>1 DEF Untouched, Live
<1>2. CASE MoveNew(c) \/ MoveGone(c) BY <1>2 DEF MoveNew, MoveGone, Blank
<1>4. CASE MoveWrites(c) \/ MovePeerClosed(c) \/ MoveCloseConnection(c) \/ MoveHeaderKept(c)
  BY <1>4 DEF MoveWrites, MovePeerClosed, MoveCloseConnection, MoveHeaderKept, Live
<1>5. CASE MoveS5Challenge(c) \/ MoveHttpRaw(c) \/ MoveHttpNormal(c) \/ MoveAskAuth(c)
  BY <1>5 DEF MoveS5Challenge, MoveHttpRaw, MoveHttpNormal, MoveAskAuth, Live
<1>7. CASE MoveRefused(c) \/ MoveBodyKept(c) \/ MoveRelayed(c)
  BY <1>7 DEF MoveRefused, MoveBodyKept, MoveRelayed, Live
<1>9. ASSUME NEW f \in Slot \cup {Null},
             MoveAskAuthNormal(c, f) \/ MoveAskConn(c, f) \/ MoveAskUdp(c, f)
      PROVE  Live(c) /\ conn'[c].RelaySideConnectionId = conn[c].RelaySideConnectionId
  BY <1>9 DEF MoveAskAuthNormal, MoveAskConn, MoveAskUdp, Live
<1>11. ASSUME NEW b \in BOOLEAN, NEW g \in Slot \cup {Null},
              MoveAuthResult(c, b, g) \/ MoveDeviceResult(c, b, g)
       PROVE  Live(c) /\ conn'[c].RelaySideConnectionId = conn[c].RelaySideConnectionId
  BY <1>11 DEF MoveAuthResult, MoveDeviceResult, Live
<1>13. ASSUME NEW b \in BOOLEAN, MoveConnResult(c, b) PROVE FALSE
  BY <1>13 DEF MoveConnResult, HeldIs
<1>14. CASE MoveUdpResult(c) BY <1>14 DEF MoveUdpResult, Live
<1>15. QED
  BY <1>1, <1>2, <1>4, <1>5, <1>7, <1>9, <1>11, <1>13, <1>14 DEF Move, Answered

\* A step in which every live connection that waits for a relay connection waits on, and
\* nothing is relayed.
Undisturbed ==
    \A d \in Conn : Live(d)' =>
        /\ Asking(d, "conn") => Asking(d, "conn")'
        /\ stream'[d].relayed = stream[d].relayed

\* Before a client is accepted nothing was relayed for it.
LEMMA NothingBefore ==
    ASSUME IInv, JInv, NEW c \in Conn, ~conn[c].RelaySideConnectionId
    PROVE  stream[c].relayed = <<>>
BY DEF JInv, ConnectionInv, Forwards

\* The proxy's part of the link: asked once, told what it knows.
LEMMA AskedStep ==
    ASSUME LocalInv, IInv', \A d \in Conn : Move(d)
    PROVE  \A d \in Conn : AskedOnce(d)'
<1>1. ASSUME NEW d \in Conn PROVE AskedOnce(d)'
  <2>1. TypeOK /\ OneQuestion(d) /\ OneQuestion(d)' /\ Marks(d) /\ AskedOnce(d) /\ Move(d)
    BY DEF LocalInv, LinkInv, IInv, JInv, OneQuestionAtATime, ConnectionInv
  <2>2. QED BY <2>1, AskedOnceStep
<1>2. QED BY <1>1

\* A step in which nobody is told an id and no data passes keeps the invariant if each
\* of the two services keeps its own.
LEMMA LinkStep ==
    ASSUME LocalInv, IInv', JInv', \A d \in Conn : Move(d), [Relay!Next]_(Relay!vars), OneTick',
           UNCHANGED <<told, delivered>>, Undisturbed
    PROVE  LocalInv'
<1>0. /\ TypeOK /\ IInv /\ JInv /\ RelayFacts!IInv /\ TypeOK' /\ OneTick /\ DOMAIN delivered = Conn
      /\ \A d \in Conn : Marks(d) /\ AskedOnce(d) /\ ToldKnown(d) /\ Delivered(d)
  BY DEF LocalInv, LinkInv, IInv, JInv, ConnectionInv
<1>1. RelayFacts!IInv' BY <1>0, RelayKeeps
<1>2. \A d \in Conn : AskedOnce(d)' BY AskedStep
<1>3. ASSUME NEW d \in Conn, Live(d)'
      PROVE  \/ Live(d) /\ conn'[d].RelaySideConnectionId = conn[d].RelaySideConnectionId
             \/ /\ ~Live(d) /\ ~conn'[d].RelaySideConnectionId /\ d \notin told
                /\ stream[d].relayed = <<>>
  <2>1. \/ Live(d) /\ conn'[d].RelaySideConnectionId = conn[d].RelaySideConnectionId
        \/ conn[d].state = "unused" /\ ~conn'[d].RelaySideConnectionId
    BY <1>0, <1>3, KnownStep DEF Undisturbed
  <2>2. CASE conn[d].state = "unused" /\ ~conn'[d].RelaySideConnectionId
    <3>1. d \notin requested BY <1>0, <2>2 DEF Marks
    <3>2. d \notin told BY <1>0, <3>1, RelaySays
    <3>3. ~Live(d) BY <2>2 DEF Live
    <3>4. ~conn[d].RelaySideConnectionId
      BY <1>0, <3>3 DEF IInv, OneQuestionAtATime, OneQuestion
    <3>5. QED BY <1>0, <2>2, <3>2, <3>3, <3>4, NothingBefore
  <2>3. QED BY <2>1, <2>2
<1>4. ASSUME NEW d \in Conn PROVE ToldKnown(d)'
  BY <1>0, <1>3 DEF ToldKnown
<1>5. ASSUME NEW d \in Conn PROVE Delivered(d)'
  <2>1. /\ delivered' = delivered /\ told' = told
        /\ delivered[d] \in Seq(Nat) /\ (d \notin told => delivered[d] = <<>>)
    BY <1>0 DEF Delivered
  <2>2. ASSUME Live(d)'
        PROVE  /\ Len(delivered[d]) <= Len(stream'[d].relayed)
               /\ delivered[d] = SubSeq(stream'[d].relayed, 1, Len(delivered[d]))
    <3>1. stream'[d].relayed = stream[d].relayed BY <2>2 DEF Undisturbed
    <3>2. CASE Live(d) BY <1>0, <3>1, <3>2 DEF Delivered
    <3>3. CASE ~Live(d)
      <4>1. stream'[d].relayed = <<>> /\ delivered[d] = <<>> BY <1>3, <2>1, <2>2, <3>1, <3>3
      <4>2. QED BY <4>1
    <3>4. QED BY <3>2, <3>3
  <2>3. ASSUME Live(d)', d \in told, Relay!TakesData(d)'
        PROVE  delivered[d] = stream'[d].relayed
    <3>1. Live(d) /\ stream'[d].relayed = stream[d].relayed
      BY <1>3, <2>3 DEF Undisturbed
    <3>2. Relay!TakesData(d)
      BY <1>0, <2>3, RelayStays
    <3>3. QED BY <1>0, <2>3, <3>1, <3>2 DEF Delivered
  <2>4. QED BY <2>1, <2>2, <2>3 DEF Delivered
<1>6. QED BY <1>0, <1>1, <1>2, <1>4, <1>5 DEF LocalInv, LinkInv

\* A step of the proxy, or none, keeps the proxy's invariants.
LEMMA ProxyStep ==
    ASSUME LocalInv, Next \/ UNCHANGED vars
    PROVE  IInv' /\ JInv' /\ ListMove /\ \A d \in Conn : Move(d)
<1>1. IInv /\ JInv BY DEF LocalInv
<1>2. CASE Next BY <1>1, <1>2, NextIInv, NextJInv, NextBoth
<1>3. CASE UNCHANGED vars
  <2>1. UNCHANGED <<conn, held, stream, requested, phase, listVars>> BY <1>3 DEF vars
  <2>2. ListMove BY <2>1 DEF ListMove, ListQuiet, Stays, Live
  <2>3. QED BY <1>1, <1>3, <2>1, <2>2, StutterIInv, StutterJInv, IdleMoves DEF Move
<1>4. QED BY <1>2, <1>3

-----------------------------------------------------------------------------
(* Steps of the proxy that the relay does not see.                         *)

\* No question for a relay connection is put or answered, and no connection is marked
\* or ends.
Unseen ==
    /\ UNCHANGED <<requested, future["conn"], held["conn"]>>
    /\ \A d \in Conn :
          \/ conn'[d].state = conn[d].state /\ conn'[d].DeleteMark = conn[d].DeleteMark
          \/ conn[d].state = "unused" /\ conn'[d] = Blank("live")

\* The proxy relays nothing.
RelayedSame == \A d \in Conn : stream'[d].relayed = stream[d].relayed

\* Then the relay's view of the proxy is the same.
LEMMA UnseenSame ==
    ASSUME Unseen
    PROVE  ProxyState' = ProxyState /\ ConnectionQuestion' = ConnectionQuestion
<1>1. ProxyState' = ProxyState
  <2>1. ASSUME NEW d \in Conn PROVE ProxyState'[d] = ProxyState[d]
    BY <2>1 DEF Unseen, ProxyState, Live, Blank
  <2>2. QED BY <2>1 DEF ProxyState
<1>2. ConnectionQuestion' = ConnectionQuestion BY DEF Unseen, ConnectionQuestion
<1>3. QED BY <1>1, <1>2

\* The relay's view and the relayed data are all the link depends on.
LEMMA UnseenStep ==
    ASSUME LocalInv, Next \/ UNCHANGED vars, Unseen, RelayedSame,
           UNCHANGED <<relayVars, told, delivered>>, OneTick'
    PROVE  LocalInv' /\ [Relay!Next]_(Relay!vars) /\ ListMove /\ \A d \in Conn : Move(d)
<1>1. IInv' /\ JInv' /\ ListMove /\ \A d \in Conn : Move(d) BY ProxyStep
<1>2. UNCHANGED Relay!vars BY UnseenSame DEF relayVars, Relay!vars, Relay!listVars
<1>3. Undisturbed BY DEF Undisturbed, Unseen, RelayedSame, Asking
<1>4. QED BY <1>1, <1>2, <1>3, LinkStep

\* RequestAuthentication is about another pool.
LEMMA AuthUnseen ==
    ASSUME TypeOK, NEW c \in Conn, NEW t, NEW p, NEW a, NEW w,
           RequestAuthentication(c, t, p, a, w), UNCHANGED requested
    PROVE  Unseen
<1>0. conn \in [Conn -> ClientConnection] /\ future \in Futures /\ held \in Pointers
  BY TypeParts
<1>1. future'["conn"] = future["conn"]
  BY <1>0 DEF RequestAuthentication, Filled, Futures
<1>2. held'["conn"] = held["conn"] BY <1>0 DEF RequestAuthentication, Pointers
<1>3. ASSUME NEW d \in Conn
      PROVE  conn'[d].state = conn[d].state /\ conn'[d].DeleteMark = conn[d].DeleteMark
  <2>1. conn[d] \in ClientConnection BY <1>0
  <2>2. QED BY <1>0, <2>1 DEF RequestAuthentication, ClientConnection
<1>4. QED BY <1>1, <1>2, <1>3 DEF Unseen

\* A header goes to Http.Content.
LEMMA HeaderUnseen ==
    ASSUME stream \in Streams, NEW c \in Conn, stream' \in {HeaderRefused(c), HeaderConsumed(c)}
    PROVE  RelayedSame
<1>1. CASE stream' = HeaderRefused(c) BY <1>1 DEF HeaderRefused, RelayedSame, Streams
<1>2. CASE stream' = HeaderConsumed(c) BY <1>2 DEF HeaderConsumed, RelayedSame, Streams
<1>3. QED BY <1>1, <1>2

\* ClientStep is what the relay is not told of.
LEMMA ClientStepUnseen ==
    ASSUME TypeOK, NEW c \in Conn, ClientStep(c)
    PROVE  Unseen /\ RelayedSame
<1>0. /\ conn \in [Conn -> ClientConnection] /\ conn[c] \in ClientConnection
      /\ stream \in Streams
      /\ \A d \in Conn :
            stream[d] \in [content : Seq(Nat), relayed : Seq(Nat), consumed : Nat, refused : Nat]
  BY TypeParts DEF Streams
<1>1. UNCHANGED stream => RelayedSame BY DEF RelayedSame
<1>2. CASE OnNewConnection(c)
  BY <1>0, <1>1, <1>2 DEF OnNewConnection, Unseen
<1>3. CASE OnFlush(c)
  BY <1>0, <1>1, <1>3 DEF OnFlush, Unseen, ClientConnection
<1>4. CASE OnHttpChallenge(c)
  <2>1. UNCHANGED stream \/ stream' = [stream EXCEPT ![c].content = <<1>>, ![c].consumed = 1]
    BY <1>4 DEF OnHttpChallenge
  <2>2. RelayedSame
    <3>1. CASE stream' = [stream EXCEPT ![c].content = <<1>>, ![c].consumed = 1]
      BY <1>0, <3>1 DEF RelayedSame, Streams
    <3>2. QED BY <1>1, <2>1, <3>1
  <2>3. \E t, p : conn' = [conn EXCEPT ![c].Type = t, ![c].DataProcessor = p]
    BY <1>4 DEF OnHttpChallenge
  <2>4. UNCHANGED <<requested, future, held>> BY <1>4 DEF OnHttpChallenge
  <2>5. Unseen BY <1>0, <2>3, <2>4 DEF Unseen, ClientConnection
  <2>6. QED BY <2>2, <2>5
<1>5. ASSUME NEW w \in BOOLEAN, RefuseAndWait(c, w) PROVE Unseen /\ RelayedSame
  <2>1. UNCHANGED stream \/ stream' = HeaderRefused(c) BY <1>5 DEF RefuseAndWait
  <2>3. RelayedSame BY <1>0, <1>1, <2>1, HeaderUnseen
  <2>2. Unseen BY <1>0, <1>5 DEF RefuseAndWait, Unseen, ClientConnection
  <2>4. QED BY <2>2, <2>3
<1>6. ASSUME NEW w \in BOOLEAN, OnS5Challenge(c, w) \/ OnS5TargetRefused(c, w)
      PROVE  Unseen /\ RelayedSame
  <2>1. UNCHANGED <<requested, future, held, stream>>
    BY <1>6 DEF OnS5Challenge, OnS5TargetRefused
  <2>2. CASE OnS5Challenge(c, w)
    <3>1. conn' = [conn EXCEPT ![c].Type = "S5_CHALLENGE", ![c].DataProcessor = "OnS5AuthInfo",
                               ![c].writes = @ \/ w]
      BY <2>2 DEF OnS5Challenge
    <3>2. QED BY <1>0, <1>1, <2>1, <3>1 DEF Unseen, ClientConnection
  <2>3. CASE OnS5TargetRefused(c, w)
    <3>1. conn' = [conn EXCEPT ![c].DataProcessor = "KillConnectionOnData", ![c].writes = @ \/ w]
      BY <2>3 DEF OnS5TargetRefused
    <3>2. QED BY <1>0, <1>1, <2>1, <3>1 DEF Unseen, ClientConnection
  <2>4. QED BY <1>6, <2>2, <2>3
<1>7. ASSUME NEW w \in BOOLEAN, NEW a, OnS5ChallengeNoAuth(c, a, w) \/ OnS5AuthInfo(c, a, w)
      PROVE  Unseen /\ RelayedSame
  BY <1>1, <1>7, AuthUnseen DEF OnS5ChallengeNoAuth, OnS5AuthInfo
<1>8. ASSUME NEW w \in BOOLEAN, NEW a, OnHttpRawHeaderProcessor(c, a, w)
      PROVE  Unseen /\ RelayedSame
  <2>1. CASE RequestAuthentication(c, conn[c].Type, "KillConnectionOnData", a, w)
    BY <1>1, <1>8, <2>1, AuthUnseen DEF OnHttpRawHeaderProcessor
  <2>2. CASE /\ conn' = [conn EXCEPT ![c].DataProcessor = "KillConnectionOnData",
                                     ![c].writes = @ \/ w]
             /\ UNCHANGED <<future, held, authRefs>>
    BY <1>0, <1>1, <1>8, <2>2 DEF OnHttpRawHeaderProcessor, Unseen, ClientConnection
  <2>3. QED BY <1>8, <2>1, <2>2 DEF OnHttpRawHeaderProcessor
<1>9. ASSUME NEW w \in BOOLEAN, NEW a, OnHttpNormalHeaderProcessor(c, a, w)
      PROVE  Unseen /\ RelayedSame
  <2>1. Unseen BY <1>9, AuthUnseen DEF OnHttpNormalHeaderProcessor
  <2>2. stream' \in {HeaderRefused(c), HeaderConsumed(c)}
    BY <1>9 DEF OnHttpNormalHeaderProcessor
  <2>3. RelayedSame BY <1>0, <2>2, HeaderUnseen
  <2>4. QED BY <2>1, <2>3
<1>10. CASE conn[c].DeleteMark /\ PeerClosed(c)
  BY <1>0, <1>1, <1>10 DEF PeerClosed, Unseen, ClientConnection
<1>11. QED
  BY <1>2, <1>3, <1>4, <1>5, <1>6, <1>7, <1>8, <1>9, <1>10
  DEF ClientStep, OnPeerClose, KillConnectionOnData

\* The invariant after a step, what the relay sees of it, and what it may do to the proxy's
\* lists and to each of its connections.
Kept ==
    LocalInv' /\ [Relay!Next]_(Relay!vars) /\ ListMove /\ \A d \in Conn : Move(d)

\* A step that the relay is not told of keeps both services' invariants.
LEMMA ClientStepKeeps ==
    ASSUME LocalInv, NEW c \in Conn, ClientStep(c)
    PROVE  Kept
<1>1. TypeOK BY DEF LocalInv, IInv
<1>2. Unseen /\ RelayedSame BY <1>1, ClientStepUnseen
<1>3. Next
  <2>1. OnNewConnection(c) \/ OnFlush(c) \/ OnPeerClose(c) \/ ClientData(c)
    BY DEF ClientStep, ClientData
  <2>2. QED BY <2>1 DEF Next, Client
<1>4. OneTick' BY DEF ClientStep, Between, OneTick, relayVars, OnNewConnection, OnFlush,
        OnHttpChallenge, RefuseAndWait, OnS5Challenge, OnS5TargetRefused, OnS5ChallengeNoAuth,
        OnS5AuthInfo, OnHttpRawHeaderProcessor, OnHttpNormalHeaderProcessor
<1>5. UNCHANGED <<relayVars, told, delivered>> BY DEF ClientStep, linkVars
<1>6. QED BY <1>2, <1>3, <1>4, <1>5, UnseenStep DEF Kept

\* An answer of the authentication service.
LEMMA AuthAnswersKeeps ==
    ASSUME LocalInv, NEW f \in Slot, NEW a \in Answer, AuthAnswers(f, a)
    PROVE  Kept
<1>1. AnswerFuture("auth", f, a) /\ phase = "io" /\ UNCHANGED <<relayVars, told, delivered>>
  BY DEF AuthAnswers, Between, linkVars
<1>2. Next BY <1>1 DEF Next, Services
<1>3. future \in Futures BY TypeParts DEF LocalInv, IInv
<1>4. future'["conn"] = future["conn"] BY <1>1, <1>3 DEF AnswerFuture, Futures
<1>5. Unseen /\ RelayedSame /\ UNCHANGED phase
  BY <1>1, <1>4 DEF AnswerFuture, Unseen, RelayedSame
<1>6. OneTick' BY <1>1, <1>5 DEF OneTick
<1>7. QED BY <1>1, <1>2, <1>5, <1>6, UnseenStep DEF Kept

\* The clock, the timeouts and the ends of the loops of the proxy's Tick.
LEMMA TickKeeps ==
    ASSUME LocalInv, UNCHANGED <<relayVars, linkVars>>,
           \/ \E d \in {0, 1} : TickBegin(d) /\ relayPhase = "io"
           \/ EndLoop \/ \E c \in Conn : DeferKillTimeoutConnection(c)
    PROVE  Kept
<1>1. Next BY DEF Next, Tick
<1>2. UNCHANGED <<conn, future, held, stream, requested>>
  BY DEF TickBegin, EndLoop, DeferKillTimeoutConnection
<1>3. Unseen /\ RelayedSame BY <1>2 DEF Unseen, RelayedSame
<1>4. OneTick'
  BY DEF LocalInv, LinkInv, OneTick, EndLoop, DeferKillTimeoutConnection, relayVars
<1>5. UNCHANGED <<told, delivered>> BY DEF linkVars
<1>6. QED BY <1>1, <1>3, <1>4, <1>5, UnseenStep DEF Kept

\* The device is asked of the relay, which answers at once and remembers nothing.
LEMMA DeviceAcquiredKeeps ==
    ASSUME LocalInv, NEW f \in Slot, NEW w \in BOOLEAN, DeviceAcquired(f, w)
    PROVE  Kept
<1>1. PICK a \in {"ok", "fail"} : OnAuthResult(f, a, w) /\ UNCHANGED <<relayVars, linkVars>>
  BY DEF DeviceAcquired, Relay!AcquireDevice
<1>2. Next
  <2>1. a \in Immediate("device") BY DEF Immediate
  <2>2. QED BY <1>1, <2>1 DEF Next, Tick
<1>3. /\ conn \in [Conn -> ClientConnection] /\ future \in Futures /\ held \in Pointers
      /\ IInv
  BY TypeParts DEF LocalInv, IInv
<1>4. f \in Ready("auth") BY <1>1 DEF OnAuthResult
<1>5. PICK c \in Conn : c = future["auth"][f].owner BY <1>3, <1>4, AnswerOwner
<1>6. future'["conn"] = future["conn"]
  <2>1. Released("auth", c) \in Futures /\ Released("auth", c)["conn"] = future["conn"]
    BY <1>3, ReleasedType DEF Released, Futures
  <2>2. \E g : future' = Filled(Released("auth", c), "device", g, c, a)
    BY <1>1, <1>5 DEF OnAuthResult
  <2>3. QED BY <2>1, <2>2 DEF Filled, Futures
<1>7. held'["conn"] = held["conn"] BY <1>1, <1>3, <1>5 DEF OnAuthResult, Pointers
<1>8. ASSUME NEW d \in Conn
      PROVE  conn'[d].state = conn[d].state /\ conn'[d].DeleteMark = conn[d].DeleteMark
  <2>1. conn[d] \in ClientConnection BY <1>3
  <2>2. QED BY <1>1, <1>3, <2>1 DEF OnAuthResult, ClientConnection
<1>9. Unseen /\ RelayedSame /\ UNCHANGED phase
  BY <1>1, <1>6, <1>7, <1>8 DEF OnAuthResult, Unseen, RelayedSame
<1>10. OneTick' BY <1>1, <1>9 DEF LocalInv, LinkInv, OneTick, relayVars
<1>11. UNCHANGED <<relayVars, told, delivered>> BY <1>1 DEF linkVars
<1>12. QED BY <1>2, <1>9, <1>10, <1>11, UnseenStep DEF Kept

\* What the relay is asked when a device was found for an http client, and what it sees
\* if the pool had no future.
LEMMA DeviceResultSeen ==
    ASSUME IInv, NEW f \in Slot, NEW a \in {"pending", "fail"}, NEW w \in BOOLEAN,
           OnAcquireDeviceResult(f, a, w), NEW c \in Conn, c = future["device"][f].owner
    PROVE  /\ UNCHANGED <<phase, stream>>
           /\ \A d \in Conn \ {c} : held'["conn"][d] = held["conn"][d]
           /\ Live(c) /\ ~conn[c].DeviceReference /\ held["conn"][c] = Null
           /\ held'["conn"][c] = held["conn"][c] => Unseen
<1>1. /\ conn \in [Conn -> ClientConnection] /\ future \in Futures /\ held \in Pointers
      /\ conn[c] \in ClientConnection
  BY TypeParts DEF IInv
<1>2. f \in Ready("device") BY DEF OnAcquireDeviceResult
<1>3. Live(c) /\ Asking(c, "device") BY <1>2, AnswerOwner
<1>4. OneQuestion(c) BY DEF IInv, OneQuestionAtATime
<1>5. ~conn[c].DeviceReference /\ held["conn"][c] = Null
  BY <1>3, <1>4 DEF OneQuestion, Asking
<1>6. PICK n : held' = [held EXCEPT !["device"][c] = Null, !["conn"][c] = n]
  BY DEF OnAcquireDeviceResult
<1>7. \A d \in Conn \ {c} : held'["conn"][d] = held["conn"][d] BY <1>1, <1>6 DEF Pointers
<1>8. ASSUME held'["conn"][c] = held["conn"][c] PROVE Unseen
  <2>. DEFINE found == future["device"][f].answer # "fail"
              http == conn[c].Type \in {"HTTP_RAW", "HTTP_NORMAL"}
              g == AcquireFuture("conn")
  <2>1. held'["conn"][c] = IF found /\ http THEN g ELSE held["conn"][c]
    BY <1>1 DEF OnAcquireDeviceResult, Pointers
  <2>2. ~(found /\ http /\ g # Null) BY <1>5, <1>8, <2>1
  <2>3. UNCHANGED requested BY <2>2 DEF OnAcquireDeviceResult
  <2>4. future' = Released("device", c) BY <2>2 DEF OnAcquireDeviceResult, Filled
  <2>5. future'["conn"] = future["conn"] BY <1>1, <2>4 DEF Released, Futures
  <2>6. held'["conn"] = held["conn"] BY <1>1, <1>6, <1>8 DEF Pointers
  <2>7. ASSUME NEW d \in Conn
        PROVE  conn'[d].state = conn[d].state /\ conn'[d].DeleteMark = conn[d].DeleteMark
    <3>1. conn[d] \in ClientConnection BY <1>1
    <3>2. QED BY <1>1, <3>1 DEF OnAcquireDeviceResult, ClientConnection
  <2>8. QED BY <2>3, <2>5, <2>6, <2>7 DEF Unseen
<1>9. UNCHANGED <<phase, stream>> BY DEF OnAcquireDeviceResult
<1>10. QED BY <1>3, <1>5, <1>7, <1>8, <1>9

\* The proxy asks the relay for a connection: it never asked for this one before, so
\* the relay hears a first question.
LEMMA AskingKeeps ==
    ASSUME LocalInv, Next, relayPhase = "io", UNCHANGED <<phase, stream, linkVars>>, NEW c \in Conn,
           Live(c), c \notin requested, held["conn"][c] = Null,
           \A d \in Conn \ {c} : held'["conn"][d] = held["conn"][d],
           \/ held'["conn"][c] = held["conn"][c] /\ Unseen /\ UNCHANGED relayVars
           \/ \E answer \in {"pending", "ok", "fail"} : Relay!QueryStarted(c, answer)
           \/ Relay!ConnectStartedOrFailed(c)
    PROVE  Kept
<1>1. IInv' /\ JInv' /\ ListMove /\ \A d \in Conn : Move(d) BY ProxyStep
<1>2. UNCHANGED <<told, delivered>> BY DEF linkVars
<1>3. CASE Unseen /\ UNCHANGED relayVars
  <2>1. RelayedSame BY DEF RelayedSame
  <2>2. OneTick' BY <1>3 DEF OneTick, relayVars
  <2>3. QED BY <1>2, <1>3, <2>1, <2>2, UnseenStep DEF Kept
<1>4. CASE \/ \E answer \in {"pending", "ok", "fail"} : Relay!QueryStarted(c, answer)
           \/ Relay!ConnectStartedOrFailed(c)
  <2>1. Relay!Asks(c)
    BY DEF Relay!Asks, ProxyState, Live, ConnectionQuestion
  <2>2. Relay!Next
    BY <1>4, <2>1 DEF Relay!Next, Relay!Proxy, Relay!CreateConnectionByName,
       Relay!CreateConnectionByAddress
  <2>3. UNCHANGED relayPhase BY <1>4 DEF Relay!QueryStarted, Relay!ConnectStartedOrFailed
  <2>4. OneTick' BY <2>3 DEF OneTick
  <2>5. Undisturbed BY DEF Undisturbed, Asking
  <2>6. QED BY <1>1, <1>2, <2>2, <2>4, <2>5, LinkStep DEF Kept
<1>5. QED BY <1>3, <1>4

\* The device for an http client, whose connection is asked for at once.
LEMMA DeviceTakenKeeps ==
    ASSUME LocalInv, NEW f \in Slot, NEW w \in BOOLEAN, DeviceTaken(f, w)
    PROVE  Kept
<1>1. PICK a \in {"pending", "fail"} : OnAcquireDeviceResult(f, a, w)
  BY DEF DeviceTaken
<1>2. Next
  <2>1. a \in Immediate("conn") BY DEF Immediate
  <2>2. QED BY <1>1, <2>1 DEF Next, Tick
<1>3. IInv BY DEF LocalInv
<1>4. f \in Ready("device") BY <1>1 DEF OnAcquireDeviceResult
<1>5. PICK c \in Conn : c = future["device"][f].owner BY <1>3, <1>4, AnswerOwner
<1>6. /\ UNCHANGED <<phase, stream>>
      /\ \A d \in Conn \ {c} : held'["conn"][d] = held["conn"][d]
      /\ Live(c) /\ ~conn[c].DeviceReference /\ held["conn"][c] = Null
      /\ held'["conn"][c] = held["conn"][c] => Unseen
  BY <1>1, <1>3, <1>5, DeviceResultSeen
<1>7. c \notin requested BY <1>6 DEF LocalInv, LinkInv, AskedOnce
<1>8. relayPhase = "io" BY <1>1 DEF LocalInv, LinkInv, OneTick, OnAcquireDeviceResult
<1>9. UNCHANGED linkVars /\ RelayAsked(c, FALSE) BY <1>5 DEF DeviceTaken
<1>10. \/ held'["conn"][c] = held["conn"][c] /\ UNCHANGED relayVars
       \/ \E answer \in {"pending", "ok", "fail"} : Relay!QueryStarted(c, answer)
  BY <1>9 DEF RelayAsked
<1>11. QED BY <1>2, <1>6, <1>7, <1>8, <1>9, <1>10, AskingKeeps

\* The target of a socks client.
LEMMA NamesTargetKeeps ==
    ASSUME LocalInv, NEW c \in Conn, ClientNamesTarget(c)
    PROVE  Kept
<1>1. PICK w \in BOOLEAN, a \in {"pending", "fail"} : OnS5TargetTcp(c, a, w)
  BY DEF ClientNamesTarget
<1>2. Next
  <2>1. a \in Immediate("conn") BY DEF Immediate
  <2>2. QED BY <1>1, <2>1 DEF Next, Client, ClientData
<1>3. IInv /\ OneQuestion(c) /\ conn \in [Conn -> ClientConnection] /\ future \in Futures
      /\ held \in Pointers /\ conn[c] \in ClientConnection
  BY TypeParts DEF LocalInv, IInv, OneQuestionAtATime
<1>4. Live(c) /\ conn[c].DataProcessor = "OnS5Target" /\ UNCHANGED <<phase, stream>>
  BY <1>1 DEF OnS5TargetTcp, DataFor, ClientEvent
<1>5. c \notin requested BY <1>4 DEF LocalInv, LinkInv, AskedOnce
<1>6. held["conn"][c] = Null BY <1>3, <1>4 DEF OneQuestion, Idle, Asking
<1>7. held' = [held EXCEPT !["conn"][c] = AcquireFuture("conn")] BY <1>1 DEF OnS5TargetTcp
<1>8. \A d \in Conn \ {c} : held'["conn"][d] = held["conn"][d] BY <1>3, <1>7 DEF Pointers
<1>9. ASSUME held'["conn"][c] = held["conn"][c] PROVE Unseen
  <2>1. AcquireFuture("conn") = Null BY <1>3, <1>6, <1>7, <1>9 DEF Pointers
  <2>2. UNCHANGED requested BY <1>1, <2>1 DEF OnS5TargetTcp
  <2>3. future' = future BY <1>1, <2>1 DEF OnS5TargetTcp, Filled
  <2>4. held'["conn"] = held["conn"] BY <1>3, <1>7, <1>9 DEF Pointers
  <2>5. ASSUME NEW d \in Conn
        PROVE  conn'[d].state = conn[d].state /\ conn'[d].DeleteMark = conn[d].DeleteMark
    <3>1. conn[d] \in ClientConnection BY <1>3
    <3>2. QED BY <1>1, <1>3, <3>1 DEF OnS5TargetTcp, ClientConnection
  <2>6. QED BY <2>2, <2>3, <2>4, <2>5 DEF Unseen
<1>10. relayPhase = "io" /\ UNCHANGED linkVars /\ RelayAsked(c, TRUE)
  BY DEF ClientNamesTarget, Between
<1>11. \/ held'["conn"][c] = held["conn"][c] /\ UNCHANGED relayVars
       \/ \E answer \in {"pending", "ok", "fail"} : Relay!QueryStarted(c, answer)
       \/ Relay!ConnectStartedOrFailed(c)
  BY <1>10 DEF RelayAsked
<1>12. QED BY <1>2, <1>4, <1>5, <1>6, <1>8, <1>9, <1>10, <1>11, AskingKeeps

\* The client closes, and the relay is told if it has to be.
LEMMA ClosesKeeps ==
    ASSUME LocalInv, NEW c \in Conn, ClientCloses(c)
    PROVE  Kept
<1>1. Next BY DEF ClientCloses, Next, Client, ClientData
<1>2. IInv' /\ JInv' /\ ListMove /\ \A d \in Conn : Move(d) BY <1>1, ProxyStep
<1>3. Relay!Next BY DEF ClientCloses, Relay!Next, Relay!Proxy
<1>4. UNCHANGED <<phase, held, stream>>
  BY DEF ClientCloses, OnPeerClose, KillConnectionOnData, PeerClosed
<1>5. UNCHANGED <<relayPhase, told, delivered>> /\ phase = "io"
  BY DEF ClientCloses, Between, linkVars, Relay!ProxyPeerClose
<1>6. OneTick' BY <1>4, <1>5 DEF OneTick
<1>7. Undisturbed BY <1>4 DEF Undisturbed, Asking
<1>8. QED BY <1>2, <1>3, <1>5, <1>6, <1>7, LinkStep DEF Kept

\* The connection of the client ends, and the relay is not told.
LEMMA DestroyedKeeps ==
    ASSUME LocalInv, NEW c \in Conn, ClientDestroyed(c)
    PROVE  Kept
<1>1. Next BY DEF ClientDestroyed, Next, Tick
<1>2. IInv' /\ JInv' /\ ListMove /\ \A d \in Conn : Move(d) BY <1>1, ProxyStep
<1>3. Relay!Next BY DEF ClientDestroyed, Relay!Next, Relay!Proxy
<1>4. UNCHANGED <<phase, relayPhase, told, delivered>>
  BY DEF ClientDestroyed, ExcuteKillConnection, linkVars, Relay!ProxyDestroyed
<1>5. OneTick' BY <1>4 DEF LocalInv, LinkInv, OneTick
<1>6. conn \in [Conn -> ClientConnection] /\ held \in Pointers /\ stream \in Streams
  BY TypeParts DEF LocalInv, IInv
<1>7. Undisturbed
  <2>1. SUFFICES ASSUME NEW d \in Conn, Live(d)'
                 PROVE  /\ Asking(d, "conn") => Asking(d, "conn")'
                        /\ stream'[d].relayed = stream[d].relayed
    BY DEF Undisturbed
  <2>2. d # c
    BY <1>6, <2>1 DEF ClientDestroyed, ExcuteKillConnection, DestroyConnection, Live, Blank
  <2>3. stream'[d] = stream[d]
    BY <1>6, <2>2 DEF ClientDestroyed, ExcuteKillConnection, DestroyConnection, Streams
  <2>4. held'["conn"][d] = held["conn"][d]
    BY <1>6, <2>2
    DEF ClientDestroyed, ExcuteKillConnection, DestroyConnection, FuturesReleased, Pointers
  <2>5. QED BY <2>3, <2>4 DEF Asking
<1>8. QED BY <1>2, <1>3, <1>4, <1>5, <1>7, LinkStep DEF Kept

\* Steps of the relay that the proxy does not see.
LEMMA RelayAloneKeeps ==
    ASSUME LocalInv, UNCHANGED <<vars, told, delivered>>, Relay!Next, OneTick'
    PROVE  Kept
<1>1. IInv' /\ JInv' /\ ListMove /\ \A d \in Conn : Move(d) BY ProxyStep
<1>2. Undisturbed BY DEF vars, Undisturbed, Asking
<1>3. QED BY <1>1, <1>2, LinkStep DEF Kept

\* An answer of the dns service.
LEMMA DnsAnsweredKeeps ==
    ASSUME LocalInv, NEW c \in Conn, DnsAnswered(c)
    PROVE  Kept
<1>1. UNCHANGED <<vars, told, delivered>> BY DEF DnsAnswered, linkVars
<1>2. Relay!Next BY DEF DnsAnswered, Relay!Next, Relay!Event
<1>3. OneTick' BY DEF DnsAnswered, Between, OneTick, vars, Relay!DnsAnswered
<1>4. QED BY <1>1, <1>2, <1>3, RelayAloneKeeps

\* The Tick of the relay, but for the answers it gives.
LEMMA RelayTickKeeps ==
    ASSUME LocalInv, RelayTick, ~\E c \in Conn : QueryAnswerTaken(c)
    PROVE  Kept
<1>1. UNCHANGED <<vars, linkVars>> BY DEF RelayTick, RelayTickBegin
<1>2. Relay!Next BY DEF RelayTick, RelayTickBegin, Relay!Next, Relay!Tick
<1>3. phase = "io"
  <2>1. CASE \E d \in {0, 1} : RelayTickBegin(d) BY <2>1 DEF RelayTickBegin, Between
  <2>2. CASE relayPhase # "io" BY <2>2 DEF LocalInv, LinkInv, OneTick
  <2>3. QED
    BY <2>1, <2>2 DEF RelayTick, Relay!DeferDestroyIdleConnection, Relay!CleanDyingConnection,
       Relay!EndLoop
<1>4. OneTick' BY <1>1, <1>3 DEF OneTick, vars
<1>5. QED BY <1>1, <1>2, <1>4, RelayAloneKeeps DEF linkVars

\* A step of the relay that may answer a question, and changes a connection of the proxy
\* as the proxy's own handlers do.
LEMMA RelayJointKeeps ==
    ASSUME LocalInv, phase = "io",
           UNCHANGED <<phase, held, chan, stream, requested, authRefs, told, delivered>>,
           NEW c \in Conn, FutureFollows(c), Edits(c) \/ UNCHANGED conn, ListMove,
           \A d \in Conn : Move(d), Relay!Next
    PROVE  Kept
<1>1. IInv' /\ JInv' BY JointStep DEF LocalInv
<1>2. Undisturbed BY DEF Undisturbed, Asking
<1>3. OneTick' BY DEF OneTick
<1>4. QED BY <1>1, <1>2, <1>3, LinkStep DEF Kept

\* The same when the proxy's connections do not change.
LEMMA RelayAnswersKeeps ==
    ASSUME LocalInv, phase = "io",
           UNCHANGED <<phase, conn, listVars, held, chan, stream, requested, authRefs, linkVars>>,
           NEW c \in Conn, FutureFollows(c), Relay!Next
    PROVE  Kept
<1>1. \A d \in Conn : Move(d) BY IdleMoves DEF Move
<1>2. ListMove BY DEF ListMove, ListQuiet, Stays, Live
<1>3. UNCHANGED <<told, delivered>> BY DEF linkVars
<1>4. QED BY <1>1, <1>2, <1>3, RelayJointKeeps

\* The target is connected, or its name was resolved or not.
LEMMA ConnectedKeeps ==
    ASSUME LocalInv, NEW c \in Conn, TargetConnected(c) \/ QueryAnswerTaken(c)
    PROVE  Kept
<1>1. Relay!Next
  BY DEF TargetConnected, QueryAnswerTaken, Relay!Next, Relay!Event, Relay!Tick
<1>2. phase = "io"
  BY DEF TargetConnected, Between, QueryAnswerTaken, Relay!ProcessDnsResult, LocalInv, LinkInv,
     OneTick
<1>3. /\ FutureFollows(c)
      /\ UNCHANGED <<phase, conn, listVars, held, chan, stream, requested, authRefs, linkVars>>
  BY DEF TargetConnected, QueryAnswerTaken
<1>4. QED BY <1>1, <1>2, <1>3, RelayAnswersKeeps

\* The target closes: the proxy's connection is marked.
LEMMA TargetClosesKeeps ==
    ASSUME LocalInv, NEW c \in Conn, TargetCloses(c)
    PROVE  Kept
<1>1. Relay!Next BY DEF TargetCloses, Relay!Next, Relay!Event
<1>2. /\ phase = "io" /\ FutureFollows(c)
      /\ UNCHANGED <<phase, held, chan, stream, requested, authRefs, linkVars>>
  BY DEF TargetCloses, Between
<1>3. CASE UNCHANGED <<conn, listVars>> BY <1>1, <1>2, <1>3, RelayAnswersKeeps
<1>4. CASE Live(c) /\ ~conn[c].DeleteMark /\ DeferGracefulKill(c)
  <2>1. c \in requested
    BY RelaySays DEF LocalInv, TargetCloses, Relay!OnPeerClose, Relay!SocketEvent
  <2>2. conn \in [Conn -> ClientConnection] /\ conn[c] \in ClientConnection
    BY TypeParts DEF LocalInv, IInv
  <2>3. conn' = [conn EXCEPT ![c] = [conn[c] EXCEPT !.DeleteMark = TRUE]]
    BY <1>4 DEF DeferGracefulKill
  <2>4. PICK r : r = [conn[c] EXCEPT !.DeleteMark = TRUE] OBVIOUS
  <2>5. r \in ClientConnection /\ Alike(conn[c], r) /\ r.DeleteMark
    BY <2>2, <2>4 DEF ClientConnection, Alike
  <2>6. /\ conn'[c] = r /\ \A d \in Conn \ {c} : conn'[d] = conn[d]
    BY <2>2, <2>3, <2>4, <2>5, ConnUpdate
  <2>7. Edits(c) BY <2>3, <2>4, <2>5 DEF Edits
  <2>8. Stays
    BY <2>5, <2>6 DEF Stays, Live, Alike
  <2>9. ListMove
    <3>1. CASE conn[c].writes
      BY <1>2, <1>4, <2>5, <2>6, <2>8, <3>1 DEF ListMove, ListGraceful, DeferGracefulKill
    <3>2. CASE ~conn[c].writes
      BY <1>2, <1>4, <2>8, <3>2 DEF ListMove, ListQuiet, DeferGracefulKill
    <3>3. QED BY <3>1, <3>2
  <2>10. MoveCloseConnection(c)
    BY <1>2, <1>4, <2>1, <2>4, <2>6 DEF MoveCloseConnection, SameHeld, SameRequested, SameStream
  <2>11. \A d \in Conn : Move(d)
    BY <1>2, <2>6, <2>10 DEF Move, Untouched, SameHeld, SameRequested, SameStream
  <2>12. UNCHANGED <<told, delivered>> BY <1>2 DEF linkVars
  <2>13. QED BY <1>1, <1>2, <2>7, <2>9, <2>11, <2>12, RelayJointKeeps
<1>5. QED BY <1>3, <1>4 DEF TargetCloses

\* Data of the target, for the client.
LEMMA TargetSendsKeeps ==
    ASSUME LocalInv, NEW c \in Conn, NEW w \in BOOLEAN, TargetSendsData(c, w)
    PROVE  Kept
<1>1. Relay!Next BY DEF TargetSendsData, Relay!Next, Relay!Event
<1>2. /\ phase = "io"
      /\ UNCHANGED <<phase, future, held, chan, stream, requested, authRefs, told, delivered>>
  BY DEF TargetSendsData, Between
<1>3. FutureFollows(c) BY <1>2 DEF FutureFollows
<1>4. CASE UNCHANGED <<conn, listVars>>
  <2>1. \A d \in Conn : Move(d) BY <1>2, <1>4, IdleMoves DEF Move
  <2>2. ListMove BY <1>2, <1>4 DEF ListMove, ListQuiet, Stays, Live
  <2>3. QED BY <1>1, <1>2, <1>3, <1>4, <2>1, <2>2, RelayJointKeeps
<1>5. CASE /\ Live(c) /\ ~conn[c].DeleteMark /\ KeepAlive(c)
           /\ conn' = [conn EXCEPT ![c].writes = @ \/ w]
  <2>1. conn \in [Conn -> ClientConnection] /\ conn[c] \in ClientConnection
    BY TypeParts DEF LocalInv, IInv
  <2>2. PICK b \in BOOLEAN : b = (conn[c].writes \/ w) BY <2>1 DEF ClientConnection
  <2>3. PICK r : r = [conn[c] EXCEPT !.writes = b] OBVIOUS
  <2>4. r \in ClientConnection /\ Alike(conn[c], r) /\ r.DeleteMark = conn[c].DeleteMark
    BY <2>1, <2>3 DEF ClientConnection, Alike
  <2>5. conn' = [conn EXCEPT ![c] = r] BY <1>5, <2>2, <2>3
  <2>6. conn'[c] = r /\ \A d \in Conn \ {c} : conn'[d] = conn[d]
    BY <2>1, <2>4, <2>5, ConnUpdate
  <2>7. Edits(c) BY <2>4, <2>5 DEF Edits
  <2>8. Stays BY <2>4, <2>6 DEF Stays, Live, Alike
  <2>9. ListMove BY <1>2, <1>5, <2>8 DEF ListMove, ListAlive, KeepAlive
  <2>10. MoveWrites(c)
    BY <1>2, <2>3, <2>6 DEF MoveWrites, SameHeld, SameRequested, SameStream
  <2>11. \A d \in Conn : Move(d)
    BY <1>2, <2>6, <2>10 DEF Move, Untouched, SameHeld, SameRequested, SameStream
  <2>12. QED BY <1>1, <1>2, <1>3, <2>7, <2>9, <2>11, RelayJointKeeps
<1>6. QED BY <1>4, <1>5 DEF TargetSendsData

-----------------------------------------------------------------------------
(* Steps in which data of a client passes.                                 *)

\* What was the beginning of some data is still after more of it,
LEMMA PrefixStays ==
    ASSUME NEW s \in Seq(Nat), NEW t \in Seq(Nat), NEW u \in Seq(Nat), Len(s) <= Len(t),
           s = SubSeq(t, 1, Len(s))
    PROVE  Len(s) <= Len(t \o u) /\ s = SubSeq(t \o u, 1, Len(s))
<1>1. /\ t \o u \in Seq(Nat) /\ Len(t \o u) = Len(t) + Len(u)
      /\ \A i \in 1 .. Len(t) : (t \o u)[i] = t[i]
      /\ Len(s) \in Nat /\ Len(t) \in Nat /\ Len(u) \in Nat
  BY ConcatProperties
<1>2. \A i \in 1 .. Len(s) : t[i] \in Nat /\ (t \o u)[i] \in Nat BY <1>1
<1>3. /\ SubSeq(t, 1, Len(s)) \in Seq(Nat) /\ Len(SubSeq(t, 1, Len(s))) = Len(s)
      /\ \A i \in 1 .. Len(s) : SubSeq(t, 1, Len(s))[i] = t[i]
  BY <1>1, <1>2, SubSeqProperties
<1>4. /\ SubSeq(t \o u, 1, Len(s)) \in Seq(Nat) /\ Len(SubSeq(t \o u, 1, Len(s))) = Len(s)
      /\ \A i \in 1 .. Len(s) : SubSeq(t \o u, 1, Len(s))[i] = (t \o u)[i]
  BY <1>1, <1>2, SubSeqProperties
<1>5. \A i \in 1 .. Len(s) : s[i] = SubSeq(t \o u, 1, Len(s))[i]
  <2>1. \A i \in 1 .. Len(s) : s[i] = t[i] BY <1>3
  <2>2. QED BY <1>1, <1>4, <2>1
<1>6. s = SubSeq(t \o u, 1, Len(s))
  <2>. DEFINE p == SubSeq(t \o u, 1, Len(s))
  <2>1. p \in Seq(Nat) /\ Len(s) = Len(p) /\ \A i \in 1 .. Len(s) : s[i] = p[i]
    BY <1>4, <1>5
  <2>. HIDE DEF p
  <2>2. s = p BY <2>1, SeqEqual
  <2>3. QED BY <2>2 DEF p
<1>7. QED BY <1>1, <1>6

\* and who has all of it and gets what is new has all of it.
LEMMA RestAppended ==
    ASSUME NEW t \in Seq(Nat), NEW u \in Seq(Nat)
    PROVE  t \o SubSeq(t \o u, Len(t) + 1, Len(t \o u)) = t \o u
<1>1. /\ t \o u \in Seq(Nat) /\ Len(t \o u) = Len(t) + Len(u)
      /\ \A i \in 1 .. Len(t) + Len(u) :
            (t \o u)[i] = IF i <= Len(t) THEN t[i] ELSE u[i - Len(t)]
      /\ Len(t) \in Nat /\ Len(u) \in Nat
  BY ConcatProperties
<1>2. \A i \in Len(t) + 1 .. Len(t \o u) : (t \o u)[i] \in Nat BY <1>1
<1>. DEFINE r == SubSeq(t \o u, Len(t) + 1, Len(t \o u))
<1>3. /\ r \in Seq(Nat)
      /\ Len(r) = IF Len(t) + 1 <= Len(t \o u) THEN Len(t \o u) - (Len(t) + 1) + 1 ELSE 0
      /\ \A i \in 1 .. Len(t \o u) - (Len(t) + 1) + 1 : r[i] = (t \o u)[Len(t) + 1 + i - 1]
  <2>. DEFINE v == t \o u
              m == Len(t) + 1
              n == Len(v)
  <2>1. m \in Int /\ n \in Int BY <1>1
  <2>2. \A i \in m .. n : v[i] \in Nat BY <1>2
  <2>. HIDE DEF v, m, n
  <2>3. /\ SubSeq(v, m, n) \in Seq(Nat)
        /\ Len(SubSeq(v, m, n)) = IF m <= n THEN n - m + 1 ELSE 0
        /\ \A i \in 1 .. n - m + 1 : SubSeq(v, m, n)[i] = v[m + i - 1]
    BY <2>1, <2>2, SubSeqProperties
  <2>4. QED BY <2>3 DEF v, m, n
<1>. HIDE DEF r
<1>4. Len(r) = Len(u) /\ \A i \in 1 .. Len(u) : r[i] = u[i]
  <2>1. Len(r) = Len(u) BY <1>1, <1>3
  <2>2. ASSUME NEW i \in 1 .. Len(u) PROVE r[i] = u[i]
    <3>1. i \in 1 .. Len(t \o u) - (Len(t) + 1) + 1 /\ Len(t) + 1 + i - 1 = Len(t) + i
      BY <1>1
    <3>2. r[i] = (t \o u)[Len(t) + i] BY <1>3, <3>1
    <3>3. Len(t) + i \in 1 .. Len(t) + Len(u) /\ ~(Len(t) + i <= Len(t))
          /\ Len(t) + i - Len(t) = i
      BY <1>1
    <3>4. QED BY <1>1, <3>2, <3>3
  <2>3. QED BY <2>1, <2>2
<1>5. r = u BY <1>3, <1>4, SeqEqual
<1>6. QED BY <1>5 DEF r

\* What is relayed for a client is delivered if the relay connection takes data, and
\* dropped for ever if it does not.
LEMMA DataDelivered ==
    ASSUME LocalInv, NEW c \in Conn, Live(c), Live(c)', NEW u \in Seq(Nat),
           stream'[c].relayed = stream[c].relayed \o u, DataPosted(c),
           UNCHANGED connection, ToldKnown(c)', c \in told => c \in told'
    PROVE  Delivered(c)'
<1>. DEFINE old == stream[c].relayed
            new == stream'[c].relayed
<1>0. /\ old \in Seq(Nat) /\ ToldKnown(c) /\ Delivered(c) /\ DOMAIN delivered = Conn
      /\ IInv /\ JInv
  <2>1. TypeOK BY DEF LocalInv, IInv
  <2>2. stream[c] \in [content : Seq(Nat), relayed : Seq(Nat), consumed : Nat, refused : Nat]
    BY <2>1, CellTypes
  <2>3. old \in Seq(Nat) BY <2>2
  <2>4. QED BY <2>3 DEF LocalInv, LinkInv
<1>1. Relay!TakesData(c)' <=> Relay!TakesData(c) BY DEF Relay!TakesData, Relay!Live
<1>2. new = old \o u /\ new \in Seq(Nat) /\ Len(new) \in Nat
  <2>1. old \o u \in Seq(Nat) BY <1>0, ConcatProperties
  <2>2. QED BY <2>1
<1>3. c \notin told => old = <<>> BY <1>0, NothingBefore DEF ToldKnown
<1>4. CASE conn'[c].RelaySideConnectionId /\ Relay!TakesData(c)
  <2>1. delivered'[c] = delivered[c] \o SubSeq(new, Len(old) + 1, Len(new))
    BY <1>0, <1>4 DEF DataPosted
  <2>2. delivered[c] = old
    <3>1. CASE c \in told BY <1>0, <1>4, <3>1 DEF Delivered
    <3>2. CASE c \notin told BY <1>0, <1>3, <3>2 DEF Delivered
    <3>3. QED BY <3>1, <3>2
  <2>. HIDE DEF old, new
  <2>3. delivered'[c] = new BY <1>0, <1>2, <2>1, <2>2, RestAppended
  <2>4. c \in told' BY <1>4 DEF ToldKnown
  <2>5. SubSeq(new, 1, Len(new)) = new BY <1>2, SubSeqFull
  <2>6. QED BY <1>2, <2>3, <2>4, <2>5 DEF Delivered, new
<1>5. CASE ~(conn'[c].RelaySideConnectionId /\ Relay!TakesData(c))
  <2>1. delivered' = delivered BY <1>5 DEF DataPosted
  <2>2. /\ delivered[c] \in Seq(Nat) /\ (c \notin told => delivered[c] = <<>>)
        /\ Len(delivered[c]) <= Len(old) /\ delivered[c] = SubSeq(old, 1, Len(delivered[c]))
    BY <1>0 DEF Delivered
  <2>3. ~(c \in told' /\ Relay!TakesData(c)') BY <1>1, <1>5 DEF ToldKnown
  <2>. HIDE DEF old, new
  <2>4. /\ Len(delivered[c]) <= Len(new)
        /\ delivered[c] = SubSeq(new, 1, Len(delivered[c]))
    BY <1>0, <1>2, <2>2, PrefixStays
  <2>5. QED BY <2>1, <2>2, <2>3, <2>4 DEF Delivered, new
<1>6. QED BY <1>4, <1>5

\* So a step of the proxy in which data of one client passes, or its relay connection
\* becomes known, keeps the invariant.
LEMMA DataStep ==
    ASSUME LocalInv, Next, [Relay!Next]_(Relay!vars), OneTick',
           NEW c \in Conn, Live(c), Live(c)', NEW u \in Seq(Nat),
           stream'[c].relayed = stream[c].relayed \o u, DataPosted(c), UNCHANGED connection,
           \A d \in Conn \ {c} : /\ conn'[d] = conn[d] /\ stream'[d] = stream[d]
                                 /\ d \in told' <=> d \in told,
           ToldKnown(c)', c \in told => c \in told'
    PROVE  Kept
<1>1. IInv' /\ JInv' /\ ListMove /\ \A d \in Conn : Move(d) BY ProxyStep
<1>2. RelayFacts!IInv' BY RelayKeeps DEF LocalInv
<1>3. \A d \in Conn : AskedOnce(d)' BY <1>1, AskedStep
<1>4. DOMAIN delivered' = Conn /\ \A d \in Conn \ {c} : delivered'[d] = delivered[d]
  BY DEF LocalInv, LinkInv, DataPosted
<1>5. ASSUME NEW d \in Conn PROVE ToldKnown(d)'
  <2>1. CASE d = c BY <2>1
  <2>2. CASE d # c BY <2>2 DEF LocalInv, LinkInv, ToldKnown, Live
  <2>3. QED BY <2>1, <2>2
<1>6. ASSUME NEW d \in Conn PROVE Delivered(d)'
  <2>1. CASE d = c BY <2>1, DataDelivered
  <2>2. CASE d # c
    <3>1. Delivered(d) BY DEF LocalInv
    <3>2. Relay!TakesData(d)' <=> Relay!TakesData(d) BY DEF Relay!TakesData, Relay!Live
    <3>3. /\ delivered'[d] = delivered[d] /\ stream'[d] = stream[d] /\ Live(d)' = Live(d)
          /\ d \in told' <=> d \in told
      BY <1>4, <2>2 DEF Live
    <3>4. QED BY <3>1, <3>2, <3>3 DEF Delivered
  <2>3. QED BY <2>1, <2>2
<1>7. QED BY <1>1, <1>2, <1>3, <1>4, <1>5, <1>6 DEF Kept, LocalInv, LinkInv

\* Data of the client: kept, or relayed.
LEMMA SendsKeeps ==
    ASSUME LocalInv, NEW c \in Conn, ClientSendsData(c)
    PROVE  Kept
<1>0. /\ IInv /\ TypeOK /\ stream \in Streams
      /\ stream[c] \in [content : Seq(Nat), relayed : Seq(Nat), consumed : Nat, refused : Nat]
      /\ DOMAIN stream = Conn
  BY TypeParts, CellTypes DEF LocalInv, IInv, Streams
<1>1. Next BY DEF ClientSendsData, Next, Client, ClientData
<1>2. /\ UNCHANGED <<phase, conn, future, held, requested>> /\ Live(c)
      /\ DataFor(c, "OnHttpBody") \/ DataFor(c, "OnRawData")
  BY DEF ClientSendsData, OnRawData, OnHttpBody, DataFor, ClientEvent
<1>3. UNCHANGED <<relayVars, told>> /\ DataPosted(c) BY DEF ClientSendsData
<1>4. UNCHANGED Relay!vars
  <2>1. Unseen BY <1>2 DEF Unseen
  <2>2. QED BY <1>3, <2>1, UnseenSame DEF relayVars, Relay!vars, Relay!listVars
<1>5. OneTick' BY <1>2, <1>3 DEF ClientSendsData, Between, OneTick
<1>6. UNCHANGED connection BY <1>3 DEF relayVars
<1>7. stream' \in {stream, Buffered(c), Relayed(c)}
  BY DEF ClientSendsData, OnRawData, OnHttpBody
<1>8. /\ \A d \in Conn \ {c} : stream'[d] = stream[d]
      /\ \E u \in Seq(Nat) : stream'[c].relayed = stream[c].relayed \o u
  <2>1. CASE Recorded(c) /\ stream' = Relayed(c)
    <3>1. stream'[c].relayed = Append(stream[c].relayed, stream[c].consumed + 1)
      BY <1>0, <2>1 DEF Relayed
    <3>2. <<stream[c].consumed + 1>> \in Seq(Nat) BY <1>0
    <3>3. stream'[c].relayed = stream[c].relayed \o <<stream[c].consumed + 1>>
      <4>1. PICK n \in Nat, t \in Seq(Nat) : n = stream[c].consumed + 1 /\ t = stream[c].relayed
        BY <1>0
      <4>2. Append(t, n) = t \o <<n>> BY AppendIsConcat
      <4>3. QED BY <3>1, <4>1, <4>2
    <3>4. \A d \in Conn \ {c} : stream'[d] = stream[d] BY <1>0, <2>1 DEF Relayed
    <3>5. QED BY <3>2, <3>3, <3>4
  <2>2. CASE ~(Recorded(c) /\ stream' = Relayed(c))
    <3>1. UNCHANGED stream \/ (Recorded(c) /\ stream' = Buffered(c))
      BY <1>7, <2>2 DEF Buffered, Relayed
    <3>2. stream'[c].relayed = stream[c].relayed /\ \A d \in Conn \ {c} : stream'[d] = stream[d]
      <4>1. CASE UNCHANGED stream BY <4>1
      <4>2. CASE Recorded(c) /\ stream' = Buffered(c) BY <1>0, <4>2 DEF Buffered
      <4>3. QED BY <3>1, <4>1, <4>2
    <3>3. stream[c].relayed \in Seq(Nat) /\ <<>> \in Seq(Nat) BY <1>0
    <3>4. stream'[c].relayed = stream[c].relayed \o <<>> BY <3>2, <3>3, ConcatEmptySeq
    <3>5. QED BY <3>2, <3>3, <3>4
  <2>3. QED BY <2>1, <2>2
<1>9. PICK u \in Seq(Nat) : stream'[c].relayed = stream[c].relayed \o u BY <1>8
<1>10. ToldKnown(c)' BY <1>2, <1>3 DEF LocalInv, LinkInv, ToldKnown, Live
<1>11. Live(c)' BY <1>2 DEF Live
<1>12. QED BY <1>1, <1>2, <1>3, <1>4, <1>5, <1>6, <1>8, <1>9, <1>10, <1>11, DataStep

\* The proxy reads the answer of the relay, is told the id, and relays what it kept.
LEMMA ConnectionTakenKeeps ==
    ASSUME LocalInv, NEW f \in Slot, NEW w \in BOOLEAN, ConnectionTaken(f, w)
    PROVE  Kept
<1>. DEFINE made == future["conn"][f].answer # "fail"
<1>1. IInv /\ f \in Ready("conn") /\ OnAcquireDeviceConnectionResult(f, w)
  BY DEF LocalInv, ConnectionTaken, OnAcquireDeviceConnectionResult
<1>2. PICK c \in Conn : c = future["conn"][f].owner /\ Live(c) /\ Asking(c, "conn")
  BY <1>1, AnswerOwner
<1>3. DataPosted(c) /\ Relay!TakeResult(c)
  BY <1>2 DEF ConnectionTaken
<1>4. Next BY <1>1 DEF Next, Tick
<1>5. Relay!Next BY <1>3 DEF Relay!Next, Relay!Proxy
<1>6. /\ conn \in [Conn -> ClientConnection] /\ conn[c] \in ClientConnection
      /\ future \in Futures /\ TypeOK /\ stream \in Streams /\ DOMAIN stream = Conn
      /\ stream[c] \in [content : Seq(Nat), relayed : Seq(Nat), consumed : Nat, refused : Nat]
  BY <1>1, TypeParts, CellTypes DEF IInv, Streams
<1>7. held["conn"][c] = f /\ f # Null
  BY <1>1, <1>2, ParameterAssumption DEF IInv, FutureOwnership
<1>8. ~conn[c].RelaySideConnectionId
  BY <1>1, <1>2 DEF IInv, OneQuestionAtATime, OneQuestion
<1>9. c \notin told BY <1>2, <1>8 DEF LocalInv, LinkInv, ToldKnown
<1>10. made <=> ConnectionQuestion[c] = "ok"
  <2>1. ConnectionQuestion[c] # "unasked"
    BY <1>3 DEF Relay!TakeResult
  <2>2. c \in requested BY <2>1 DEF ConnectionQuestion
  <2>3. future["conn"][f].answer \in Answer \ {"pending"} BY <1>1, <1>6 DEF Futures, Ready
  <2>4. QED BY <1>7, <2>2, <2>3 DEF ConnectionQuestion, Answer
<1>11. told' = IF ConnectionQuestion[c] = "ok" THEN told \cup {c} ELSE told
  BY <1>3 DEF Relay!TakeResult
<1>12. UNCHANGED <<relayPhase, connection, phase>>
  BY <1>1, <1>3 DEF Relay!TakeResult, OnAcquireDeviceConnectionResult
<1>13. OneTick' BY <1>12 DEF LocalInv, LinkInv, OneTick
<1>14. /\ conn'[c].RelaySideConnectionId <=> made
       /\ conn'[c].state = conn[c].state
       /\ \A d \in Conn \ {c} : conn'[d] = conn[d]
  BY <1>1, <1>2, <1>6, <1>8 DEF OnAcquireDeviceConnectionResult, ClientConnection
<1>15. Live(c)' BY <1>2, <1>14 DEF Live
<1>16. ToldKnown(c)' BY <1>9, <1>10, <1>11, <1>14 DEF ToldKnown
<1>17. stream' = ContentPosted(c) \/ stream' = stream
  BY <1>1, <1>2 DEF OnAcquireDeviceConnectionResult
<1>18. /\ \A d \in Conn \ {c} : stream'[d] = stream[d]
       /\ \E u \in Seq(Nat) : stream'[c].relayed = stream[c].relayed \o u
  <2>1. CASE stream' = ContentPosted(c)
    <3>1. stream'[c].relayed = stream[c].relayed \o stream[c].content
      BY <1>6, <2>1 DEF ContentPosted
    <3>2. \A d \in Conn \ {c} : stream'[d] = stream[d] BY <1>6, <2>1 DEF ContentPosted
    <3>3. QED BY <1>6, <3>1, <3>2
  <2>2. CASE stream' = stream
    <3>1. stream[c].relayed \in Seq(Nat) /\ <<>> \in Seq(Nat) BY <1>6
    <3>2. stream'[c].relayed = stream[c].relayed \o <<>> BY <2>2, <3>1, ConcatEmptySeq
    <3>3. QED BY <2>2, <3>1, <3>2
  <2>3. QED BY <1>17, <2>1, <2>2
<1>19. PICK u \in Seq(Nat) : stream'[c].relayed = stream[c].relayed \o u BY <1>18
<1>20. /\ \A d \in Conn \ {c} : d \in told' <=> d \in told
       /\ c \in told => c \in told'
  BY <1>11
<1>21. \A d \in Conn \ {c} : /\ conn'[d] = conn[d] /\ stream'[d] = stream[d]
                             /\ d \in told' <=> d \in told
  BY <1>14, <1>18, <1>20
<1>. HIDE DEF made
<1>22. QED
  BY <1>2, <1>3, <1>4, <1>5, <1>12, <1>13, <1>15, <1>16, <1>19, <1>20, <1>21, DataStep

-----------------------------------------------------------------------------
(* Every step, and what follows.                                           *)

\* Every step of the two keeps the invariant, and the relay sees a step of a relay or none.
LEMMA LocalNextKeeps ==
    ASSUME LocalInv, [LocalNext]_allVars
    PROVE  Kept
<1>1. CASE \E c \in Conn : ClientStep(c) BY <1>1, ClientStepKeeps
<1>2. CASE \E c \in Conn : ClientNamesTarget(c) BY <1>2, NamesTargetKeeps
<1>3. CASE \E c \in Conn : ClientCloses(c) BY <1>3, ClosesKeeps
<1>4. CASE \E c \in Conn : ClientSendsData(c) BY <1>4, SendsKeeps
<1>5. CASE \E c \in Conn : DnsAnswered(c) BY <1>5, DnsAnsweredKeeps
<1>6. CASE \E c \in Conn : Target(c)
  BY <1>6, ConnectedKeeps, TargetClosesKeeps, TargetSendsKeeps DEF Target
<1>7. CASE \E f \in Slot, a \in Answer : AuthAnswers(f, a) BY <1>7, AuthAnswersKeeps
<1>8. CASE ProxyTick
  <2>1. CASE \E d \in {0, 1} : ProxyTickBegin(d)
    <3>1. /\ UNCHANGED <<relayVars, linkVars>>
          /\ \E d \in {0, 1} : TickBegin(d) /\ relayPhase = "io"
      BY <2>1 DEF ProxyTickBegin, Between
    <3>2. QED BY <3>1, TickKeeps
  <2>2. CASE \E f \in Slot, w \in BOOLEAN :
                DeviceAcquired(f, w) \/ DeviceTaken(f, w) \/ ConnectionTaken(f, w)
    BY <2>2, DeviceAcquiredKeeps, DeviceTakenKeeps, ConnectionTakenKeeps
  <2>3. CASE \E c \in Conn : ClientDestroyed(c) BY <2>3, DestroyedKeeps
  <2>4. CASE /\ EndLoop \/ \E c \in Conn : DeferKillTimeoutConnection(c)
             /\ UNCHANGED <<relayVars, linkVars>>
    BY <2>4, TickKeeps
  <2>5. QED BY <1>8, <2>1, <2>2, <2>3, <2>4 DEF ProxyTick
<1>9. CASE RelayTick
  <2>1. CASE \E c \in Conn : QueryAnswerTaken(c) BY <2>1, ConnectedKeeps
  <2>2. QED BY <1>9, <2>1, RelayTickKeeps
<1>10. CASE UNCHANGED allVars
  <2>1. /\ UNCHANGED <<vars, relayVars, told, delivered, phase, conn, future, held, stream,
                       requested, relayPhase>>
    BY <1>10 DEF allVars, linkVars, vars, relayVars
  <2>2. Unseen /\ RelayedSame BY <2>1 DEF Unseen, RelayedSame
  <2>3. OneTick' BY <2>1 DEF LocalInv, LinkInv, OneTick
  <2>4. QED BY <2>1, <2>2, <2>3, UnseenStep DEF Kept
<1>11. QED
  BY <1>1, <1>2, <1>3, <1>4, <1>5, <1>6, <1>7, <1>8, <1>9, <1>10 DEF LocalNext

\* It holds before the first client.
LEMMA InitLocalInv == LocalInit => LocalInv
<1>. SUFFICES ASSUME LocalInit PROVE LocalInv
  OBVIOUS
<1>1. Init /\ Relay!Init BY DEF LocalInit
<1>2. IInv /\ JInv BY <1>1, InitIInv, InitJInv
<1>3. RelayFacts!IInv BY <1>1, RelayStarts
<1>4. LinkInv
  BY DEF LocalInit, Init, LinkInv, OneTick, AskedOnce, ToldKnown, Live, Asking, Blank
<1>5. ASSUME NEW c \in Conn PROVE Delivered(c)
  <2>1. ~Live(c) /\ delivered[c] = <<>> BY DEF LocalInit, Init, Live, Blank
  <2>2. QED BY <2>1 DEF Delivered
<1>6. QED BY <1>2, <1>3, <1>4, <1>5 DEF LocalInv

\* The invariant of the two services holds in every state.
THEOREM LocalInvariance == LocalSpec => []LocalInv
<1>1. LocalInv /\ [LocalNext]_allVars => LocalInv' BY LocalNextKeeps DEF Kept
<1>2. QED BY <1>1, InitLocalInv, PTL DEF LocalSpec

\* The relay sees of the proxy what it assumes: the behaviours of the two services are
\* behaviours of RelayLocal.
THEOREM RelayServed == LocalSpec => RelaySeesProxy
<1>1. LocalInit => Relay!Init BY DEF LocalInit
<1>2. LocalInv /\ [LocalNext]_allVars => [Relay!Next]_(Relay!vars)
  BY LocalNextKeeps DEF Kept
<1>3. QED
  BY <1>1, <1>2, LocalInvariance, PTL DEF LocalSpec, RelaySeesProxy, Relay!Spec

\* Client data reaches the target as far as the relay connection takes it.
THEOREM DataReaches == LocalSpec => []DataReachesTarget
<1>1. LocalInv => DataReachesTarget BY DEF LocalInv, Delivered, DataReachesTarget
<1>2. QED BY <1>1, LocalInvariance, PTL

\* Between the two services the proxy keeps what it keeps for itself: the futures are
\* owned, one question is open at a time, the accounts are balanced, every connection
\* is on the list of its deadline and none outlives it, every answer has a branch,
\* data is forwarded only for who may, and http requests stay in order.
THEOREM ProxyKept ==
    LocalSpec => [](/\ FutureOwnership /\ OneQuestionAtATime /\ AuthBalance
                    /\ ListPlacement /\ NoExpiredSurvivor
                    /\ AnswersServed /\ ForwardingAuthorized /\ StreamInOrder)
<1>1. ASSUME LocalInv
      PROVE  /\ FutureOwnership /\ OneQuestionAtATime /\ AuthBalance
             /\ ListPlacement /\ NoExpiredSurvivor
             /\ AnswersServed /\ ForwardingAuthorized /\ StreamInOrder
  <2>1. FutureOwnership /\ OneQuestionAtATime /\ AuthBalance BY <1>1 DEF LocalInv, IInv
  <2>2. ListPlacement BY <1>1 DEF LocalInv, JInv, ListInv, Placed, ListPlacement
  <2>3. NoExpiredSurvivor
    BY <1>1, ListConstants
    DEF LocalInv, JInv, ListInv, ListsOK, NoneOld, Young, Timed, NoExpiredSurvivor
  <2>4. \A c \in Conn : Served(c) /\ Forwards(c) /\ InOrder(c) /\ OneQuestion(c)
    BY <1>1, <2>1 DEF LocalInv, JInv, ConnectionInv, OneQuestionAtATime
  <2>5. AnswersServed BY <2>4 DEF AnswersServed, Served, Asking
  <2>6. ForwardingAuthorized BY <2>4 DEF ForwardingAuthorized, Forwards, OneQuestion
  <2>7. StreamInOrder BY <2>4 DEF StreamInOrder, InOrder, HttpInOrder, OrderedPieces
  <2>8. QED BY <2>1, <2>2, <2>3, <2>5, <2>6, <2>7
<1>2. QED BY <1>1, LocalInvariance, PTL

\* And so does the relay: a question that is open is backed by a connection on its way
\* or by a name being resolved, and each connection is on the list its Tick looks at.
THEOREM RelayKept == LocalSpec => [](Relay!QuestionBacked /\ Relay!RelayPlacement)
<1>1. LocalInv => Relay!QuestionBacked /\ Relay!RelayPlacement
  BY DEF LocalInv, RelayFacts!IInv, Relay!QuestionBacked, Relay!RelayPlacement,
         RelayFacts!QuestionBacked, RelayFacts!RelayPlacement, Relay!Live, RelayFacts!Live,
         Relay!Waiting, RelayFacts!Waiting
<1>2. QED BY <1>1, LocalInvariance, PTL

\* A step of the relay does not revive a marked connection either, though the relay
\* marks connections of the proxy and keeps them alive.
THEOREM MarkIsFinalLocally == LocalSpec => MarkedStaysMarked
<1>1. ASSUME LocalInv, [LocalNext]_allVars, NEW c \in Conn, Live(c), conn[c].DeleteMark
      PROVE  \/ conn'[c].state = "gone"
             \/ /\ conn'[c].DeleteMark
                /\ age'[c] >= age[c]
                /\ stream'[c].consumed = stream[c].consumed
  <2>1. ListMove /\ Move(c) BY <1>1, LocalNextKeeps DEF Kept
  <2>2. TypeOK /\ Marks(c) /\ ListsOK /\ conn \in [Conn -> ClientConnection]
    BY <1>1, TypeParts DEF LocalInv, IInv, JInv, ConnectionInv, ListInv
  <2>3. \/ conn'[c].state = "gone"
        \/ conn'[c].DeleteMark /\ stream'[c].consumed = stream[c].consumed
    BY <1>1, <2>1, <2>2, MarkedMove
  <2>4. conn'[c].state = "gone" \/ age'[c] >= age[c] BY <1>1, <2>1, <2>2, MarkedAge
  <2>5. QED BY <2>3, <2>4
<1>2. ASSUME LocalInv
      PROVE  [LocalNext]_allVars =>
             [\A c \in Conn : Live(c) /\ conn[c].DeleteMark =>
                \/ conn'[c].state = "gone"
                \/ /\ conn'[c].DeleteMark
                   /\ age'[c] >= age[c]
                   /\ stream'[c].consumed = stream[c].consumed]_vars
  BY <1>1, <1>2
<1>3. QED BY <1>2, LocalInvariance, PTL DEF LocalSpec, MarkedStaysMarked

\* So the relay answers each question of the real proxy once, and none that the proxy has
\* withdrawn.
THEOREM ProtocolKeptLocally == LocalSpec => RelayFacts!KeepsProtocol
<1>1. LocalInit => RelayFacts!Init
  BY DEF LocalInit, Relay!Init, RelayFacts!Init, Relay!ListInit, RelayFacts!ListInit,
         Relay!ConnectionAs, RelayFacts!ConnectionAs
<1>2. LocalInv /\ [LocalNext]_allVars => [RelayFacts!Next]_(RelayFacts!vars)
  BY LocalNextKeeps, SameStep DEF Kept
<1>3. LocalSpec => RelayFacts!Spec
  BY <1>1, <1>2, LocalInvariance, PTL DEF LocalSpec, RelayFacts!Spec
<1>4. RelayFacts!Spec => RelayFacts!KeepsProtocol
  BY RelayParameters, RelayFacts!ProtocolKept
<1>5. QED BY <1>3, <1>4, PTL
=============================================================================
