------------------------ MODULE RelayDirectoryProofs ------------------------
(***************************************************************************)
(* For any relays, slaves and places, and any number of restarts of the    *)
(* master: the manager of the device entry agrees with the observer, and   *)
(* the observer's timeout list holds exactly the relays it knows, none of  *)
(* them for too long.                                                      *)
(***************************************************************************)
EXTENDS RelayDirectory, FiniteSetTheorems, TLAPS

\* The facts about lists, for the observer's list.
Known == INSTANCE TimeoutListProofs WITH
    Node <- Index, MaxAge <- HeartbeatTimeout, ListName <- {"known"}

-----------------------------------------------------------------------------
(* The invariant.                                                          *)

\* What is under way, and to whom.
MessagesOK ==
    /\ context \in [Relay -> Id \cup {Null}]
    /\ toSlave \in [Slave -> Seq(Info)]
    /\ toObserver \in [Slave -> Seq(Info)]

ObserverOK ==
    /\ phase \in {"io", "timeout"}
    /\ info \in [Index -> Info \cup {NoInfo}]
    /\ offered \in [Index -> {"V4", "none"}]
    /\ before \in [Index -> SUBSET Index]
    /\ Known!LinksOK

IInv == MessagesOK /\ ObserverOK /\ DirectoryAgrees /\ KnownListed

USE DirectoryAssumption

\* The timeout is a bound of ages, and the list has a name of its own.
LEMMA TimeoutIsNat == HeartbeatTimeout \in Nat /\ "known" # "none"
  OBVIOUS

\* An empty entry has no relay and no id, and an entry that was announced has both.
LEMMA NullInfo ==
    /\ NoInfo.relay \notin Located /\ NoInfo.ServerId = Null
    /\ \A b \in Info : b.relay \in Relay /\ b.ServerId \in Id /\ b.ServerId # Null
                       /\ b.ServerId.index \in Index
  BY DEF NoInfo, Info, Id

\* The directory starts with nobody known and nothing offered.
LEMMA InitIInv == Init => IInv
  <1> SUFFICES ASSUME Init PROVE IInv
    OBVIOUS
  <1>1. MessagesOK
    BY DEF Init, MessagesOK
  <1>2. Known!LinksOK /\ Ordered("known")
    BY Known!LinksInit
    DEF Init, ListInit, Known!ListInit, Ordered, Known!Ordered, Members, Known!Members
  <1>3. ObserverOK
    BY <1>2 DEF Init, ObserverOK, Offer!ListInit
  <1>4. DirectoryAgrees
    BY NullInfo DEF Init, DirectoryAgrees, Offer!ListInit, Offer!Ordered, Offer!Members
  <1>5. KnownListed
    BY <1>2, NullInfo DEF Init, KnownListed, ListInit, Members
  <1> QED
    BY <1>1, <1>3, <1>4, <1>5 DEF IInv

-----------------------------------------------------------------------------
(* The messages.                                                           *)

\* Whoever's turn it is.
LEMMA DispatchedOK ==
  ASSUME MessagesOK, NEW id \in Id, NEW r \in Relay, Dispatched(id, r)
  PROVE  toSlave' \in [Slave -> Seq(Info)]
  <1> DEFINE b == [ServerId |-> id, relay |-> r]
  <1>1. b \in Info
    BY DEF Info
  <1>2. \A s \in Slave : Append(toSlave[s], b) \in Seq(Info)
    BY <1>1 DEF MessagesOK
  <1>3. toSlave \in [Slave -> Seq(Info)]
    BY DEF MessagesOK
  <1>4. CASE toSlave' = toSlave
    BY <1>3, <1>4
  <1>5. CASE toSlave' # toSlave
    <2> DEFINE h == Head(rotation)
    <2>1. toSlave' = [toSlave EXCEPT ![h] = Append(@, b)]
      BY <1>5 DEF Dispatched
    <2> HIDE DEF b, h, Info
    <2>2. h \in Slave
      BY <1>3, <1>5, <2>1
    <2> QED
      BY <1>2, <1>3, <2>1, <2>2
  <1> QED
    BY <1>4, <1>5

\* What is under way between master, slaves and observer stays well formed: an
\* info packet is always about a relay with an id.
LEMMA MessagesStay == ASSUME IInv, [Next]_vars PROVE MessagesOK'
  <1> USE DEF IInv
  <1>0. <<>> \in Seq(Info)
    OBVIOUS
  <1>1. ASSUME NEW r \in Relay, OnRelayEntryPacket(r) PROVE MessagesOK'
    BY <1>1, DispatchedOK DEF OnRelayEntryPacket, MessagesOK
  <1>2. ASSUME NEW r \in Relay, OnRelayEntryKeepAlive(r) PROVE MessagesOK'
    BY <1>2, DispatchedOK DEF OnRelayEntryKeepAlive, MessagesOK, Registered
  <1>3. ASSUME NEW r \in Relay, OnRelayEntryClean(r) PROVE MessagesOK'
    BY <1>3 DEF OnRelayEntryClean, MessagesOK
  <1>4. ASSUME NEW s \in Slave, OnDispatcherEntryPacket(s) PROVE MessagesOK'
    BY <1>4 DEF OnDispatcherEntryPacket, MessagesOK
  <1>5. ASSUME NEW s \in Slave, OnDispatcherEntryClean(s) PROVE MessagesOK'
    BY <1>0, <1>5 DEF OnDispatcherEntryClean, MessagesOK
  <1>6. ASSUME NEW s \in Slave, DispatchData(s) PROVE MessagesOK'
    BY <1>6 DEF DispatchData, MessagesOK, masterVars
  <1>7. ASSUME NEW s \in Slave, ObserverConnects(s) \/ ObserverDisconnects(s) PROVE MessagesOK'
    BY <1>0, <1>7 DEF ObserverConnects, ObserverDisconnects, MessagesOK, masterVars
  <1>8. ASSUME NEW s \in Slave, OnPacket(s) PROVE MessagesOK'
    BY <1>8 DEF OnPacket, MessagesOK, masterVars
  <1>9. CASE Restart
    BY <1>0, <1>9 DEF Restart, MessagesOK
  <1>10. CASE Tick
    BY <1>10 DEF Tick, TickBegin, RemoveTimeoutRelayInfo, EndLoop, MessagesOK, masterVars
  <1>11. ASSUME NEW f, OnDeviceChallenge(f) PROVE MessagesOK'
    BY <1>11 DEF OnDeviceChallenge, MessagesOK, masterVars
  <1>12. CASE UNCHANGED vars
    BY <1>12 DEF vars, MessagesOK, masterVars
  <1> QED
    BY <1>1, <1>2, <1>3, <1>4, <1>5, <1>6, <1>7, <1>8, <1>9, <1>10, <1>11, <1>12 DEF Next

-----------------------------------------------------------------------------
(* The observer and the manager.                                           *)

DirInv == ObserverOK /\ DirectoryAgrees /\ KnownListed

\* The list of the observer is a list of TimeoutList: its lemmas apply.
LEMMA SameLists ==
  /\ Ordered("known") <=> Known!Ordered("known")
  /\ Ordered("known")' <=> Known!Ordered("known")'
  /\ Members("known") = Known!Members("known")
  /\ \A i \in Index : /\ StampAndGrabTail(i, "known") <=> Known!StampAndGrabTail(i, "known")
                      /\ Unlink(i) <=> Known!Unlink(i)
  /\ \A d : Elapse(d) <=> Known!Elapse(d)
  BY DEF Ordered, Known!Ordered, Members, Known!Members, StampAndGrabTail,
         Known!StampAndGrabTail, Unlink, Known!Unlink, Elapse, Known!Elapse

\* The list of the located relays stays in order.
LEMMA OfferMoves ==
  ASSUME ObserverOK, DirectoryAgrees, NEW i \in Index,
         Offer!GrabTail(i, "V4") \/ Offer!Unlink(i)
  PROVE  /\ offered' \in [Index -> {"V4", "none"}] /\ before' \in [Index -> SUBSET Index]
         /\ Offer!Ordered("V4")'
         /\ \A j \in Index \ {i} : offered'[j] = offered[j]
  BY DEF ObserverOK, DirectoryAgrees, Offer!GrabTail, Offer!Unlink, Offer!Members, Offer!Ordered

\* An info packet from a slave, of a new, a known or a replaced relay.
LEMMA OnPacketKeeps ==
  ASSUME IInv, NEW s \in Slave, OnPacket(s)
  PROVE  DirInv'
  <1> DEFINE b == Head(toObserver[s])
             i == b.ServerId.index
  <1>1. b \in Info
    BY DEF OnPacket, IInv, MessagesOK
  <1>2. i \in Index /\ b.ServerId # Null /\ b.relay \in Relay
    BY <1>1, NullInfo
  <1>3. phase = "io" /\ phase' = "io" /\ StampAndGrabTail(i, "known")
        /\ IF SameRelay(info[i], b)
           THEN UNCHANGED <<info, manager, offerVars>>
           ELSE /\ info' = [info EXCEPT ![i] = b]
                /\ manager' = [manager EXCEPT ![i] = b]
                /\ IF manager[i] = b /\ ~Removed(i, info[i].ServerId)
                   THEN UNCHANGED offerVars ELSE Listed(i, b)
    BY DEF OnPacket
  <1> HIDE DEF b, i
  <1>4. info' = [info EXCEPT ![i] = b] /\ manager' = info'
    BY <1>2, <1>3 DEF SameRelay, IInv, ObserverOK, DirectoryAgrees
  <1>5. Known!LinksOK' /\ Ordered("known")'
    BY <1>2, <1>3, SameLists, TimeoutIsNat, Known!LinksStamp, Known!OrderedStamp
    DEF IInv, ObserverOK, KnownListed
  <1>6. /\ offered' \in [Index -> {"V4", "none"}] /\ before' \in [Index -> SUBSET Index]
        /\ Offer!Ordered("V4")'
        /\ \A j \in Index : offered'[j] # "none" <=> info'[j].relay \in Located
    <2>1. CASE SameRelay(info[i], b)
      BY <1>3, <2>1
      DEF IInv, ObserverOK, DirectoryAgrees, offerVars, Offer!Ordered, Offer!Members
    <2>2. CASE ~SameRelay(info[i], b)
      <3>1. Listed(i, b)
        BY <1>3, <2>2 DEF SameRelay, IInv, DirectoryAgrees
      <3>2. offered'[i] # "none" <=> b.relay \in Located
        BY <1>2, <3>1 DEF Listed, Offer!GrabTail, Offer!Unlink, IInv, ObserverOK
      <3>3. /\ offered' \in [Index -> {"V4", "none"}] /\ before' \in [Index -> SUBSET Index]
            /\ Offer!Ordered("V4")'
            /\ \A j \in Index \ {i} : offered'[j] = offered[j]
        BY <1>2, <3>1, OfferMoves DEF Listed, IInv
      <3> QED
        BY <1>2, <1>4, <3>2, <3>3 DEF IInv, ObserverOK, DirectoryAgrees
    <2> QED
      BY <2>1, <2>2
  <1>7. DirectoryAgrees'
    BY <1>4, <1>6 DEF DirectoryAgrees
  <1>8. ObserverOK'
    BY <1>1, <1>3, <1>4, <1>5, <1>6 DEF IInv, ObserverOK
  <1>9. KnownListed'
    <2>1. /\ place' = [place EXCEPT ![i] = "known"] /\ age' = [age EXCEPT ![i] = 0]
      BY <1>3 DEF StampAndGrabTail
    <2>2. place \in [Index -> {"known", "none"}] /\ age \in [Index -> 0 .. HeartbeatTimeout]
      BY DEF IInv, ObserverOK, Known!LinksOK, Known!ListTypeOK
    <2>3. \A j \in Index : place'[j] = "known" <=> info'[j].ServerId # Null
      BY <1>2, <1>4, <2>1, <2>2 DEF IInv, ObserverOK, KnownListed
    <2>4. \A j \in Members("known")' : age'[j] < HeartbeatTimeout
      BY <1>2, <1>3, <2>1, <2>2 DEF IInv, KnownListed, Members
    <2> QED
      BY <1>5, <2>3, <2>4 DEF KnownListed
  <1> QED
    BY <1>7, <1>8, <1>9 DEF DirInv

\* A challenge moves the relay it offers to the end of the line.
LEMMA OnDeviceChallengeKeeps ==
  ASSUME IInv, NEW f \in {"V4", "V6"}, OnDeviceChallenge(f)
  PROVE  DirInv'
  <1>1. PICK i \in Index : Offer!IsHead(i, f) /\ Offer!GrabTail(i, f)
    BY DEF OnDeviceChallenge
  <1>2. f = "V4"
    BY <1>1 DEF Offer!IsHead, IInv, ObserverOK
  <1>3. UNCHANGED <<phase, info, manager, place, ahead, age>>
    BY DEF OnDeviceChallenge, listVars
  <1>4. offered' = offered
    BY <1>1, <1>2 DEF Offer!IsHead, Offer!GrabTail, IInv, ObserverOK
  <1>5. before' \in [Index -> SUBSET Index] /\ Offer!Ordered("V4")'
    BY <1>1, <1>2, OfferMoves DEF IInv
  <1>6. DirectoryAgrees'
    BY <1>3, <1>4, <1>5 DEF IInv, DirectoryAgrees
  <1>7. ObserverOK'
    BY <1>3, <1>4, <1>5
    DEF IInv, ObserverOK, Known!LinksOK, Known!ListTypeOK, Known!Linked
  <1>8. KnownListed'
    BY <1>3 DEF IInv, KnownListed, Ordered, Members
  <1> QED
    BY <1>6, <1>7, <1>8 DEF DirInv

\* The clock advances, and the loop of the timeouts begins.
LEMMA TickBeginKeeps ==
  ASSUME IInv, NEW d \in {0, 1}, TickBegin(d)
  PROVE  DirInv'
  <1>1. phase' = "timeout" /\ UNCHANGED <<info, manager, offered, before>> /\ Elapse(d)
    BY DEF TickBegin, offerVars
  <1>2. Known!LinksOK' /\ Ordered("known")'
    BY <1>1, SameLists, TimeoutIsNat, Known!LinksElapse, Known!OrderedElapse
    DEF IInv, ObserverOK, KnownListed
  <1>3. DirectoryAgrees'
    BY <1>1 DEF IInv, DirectoryAgrees, Offer!Ordered, Offer!Members
  <1>4. ObserverOK'
    BY <1>1, <1>2 DEF IInv, ObserverOK
  <1>5. KnownListed'
    BY <1>1, <1>2 DEF IInv, KnownListed, Elapse
  <1> QED
    BY <1>3, <1>4, <1>5 DEF DirInv

\* A relay that was silent too long is forgotten by both.
LEMMA RemoveTimeoutRelayInfoKeeps ==
  ASSUME IInv, NEW i \in Index, RemoveTimeoutRelayInfo(i)
  PROVE  DirInv'
  <1>1. place[i] = "known" /\ info' = [info EXCEPT ![i] = NoInfo] /\ Unlink(i)
        /\ phase = "timeout" /\ phase' = "timeout"
    BY DEF RemoveTimeoutRelayInfo, Expired, IsHead
  <1>2. Removed(i, info[i].ServerId)
    BY <1>1 DEF Removed, IInv, DirectoryAgrees, KnownListed
  <1>3. manager' = [manager EXCEPT ![i] = NoInfo] /\ Offer!Unlink(i)
    BY <1>2 DEF RemoveTimeoutRelayInfo
  <1>4. Known!LinksOK' /\ Ordered("known")'
    BY <1>1, SameLists, TimeoutIsNat, Known!LinksUnlink, Known!OrderedUnlink
    DEF IInv, ObserverOK, KnownListed
  <1>5. /\ offered' \in [Index -> {"V4", "none"}] /\ before' \in [Index -> SUBSET Index]
        /\ Offer!Ordered("V4")'
        /\ \A j \in Index \ {i} : offered'[j] = offered[j]
    BY <1>3, OfferMoves DEF IInv
  <1>6. offered'[i] = "none"
    BY <1>3 DEF Offer!Unlink, IInv, ObserverOK
  <1>7. DirectoryAgrees'
    BY <1>1, <1>3, <1>5, <1>6, NullInfo DEF IInv, ObserverOK, DirectoryAgrees
  <1>8. ObserverOK'
    BY <1>1, <1>4, <1>5 DEF IInv, ObserverOK
  <1>9. KnownListed'
    <2>1. place' = [place EXCEPT ![i] = "none"]
      BY <1>1 DEF Unlink
    <2>2. place \in [Index -> {"known", "none"}]
      BY DEF IInv, ObserverOK, Known!LinksOK, Known!ListTypeOK
    <2>3. \A j \in Index : place'[j] = "known" <=> info'[j].ServerId # Null
      BY <1>1, <2>1, <2>2, NullInfo DEF IInv, ObserverOK, KnownListed
    <2> QED
      BY <1>1, <1>4, <2>3 DEF KnownListed
  <1> QED
    BY <1>7, <1>8, <1>9 DEF DirInv

\* The loop looks at the head only, and leaves nobody behind.
LEMMA EndLoopKeeps ==
  ASSUME IInv, EndLoop
  PROVE  DirInv'
  <1>1. UNCHANGED <<info, manager, offered, before, place, ahead, age>> /\ phase' = "io"
    BY DEF EndLoop, offerVars, listVars
  <1>2. DirectoryAgrees' /\ ObserverOK'
    BY <1>1 DEF IInv, ObserverOK, DirectoryAgrees, Offer!Ordered, Offer!Members,
                Known!LinksOK, Known!ListTypeOK, Known!Linked
  <1>3. \A i \in Members("known") : age[i] < HeartbeatTimeout
    <2> SUFFICES ASSUME NEW i \in Members("known") PROVE age[i] < HeartbeatTimeout
      OBVIOUS
    <2>0. Known!IsFiniteSet(Known!Members("known"))
      <3>1. Known!Members("known") \in SUBSET Index
        BY DEF Known!Members
      <3>2. IsFiniteSet(Known!Members("known"))
        BY <3>1, FS_Subset
      <3> QED
        BY <3>2 DEF IsFiniteSet, Known!IsFiniteSet
    <2>1. PICK h \in Index : Known!IsHead(h, "known") /\ age[h] >= age[i]
      BY <2>0, SameLists, TimeoutIsNat, Known!HeadIsOldest
      DEF IInv, ObserverOK, KnownListed
    <2>2. ~Expired(h)
      BY DEF EndLoop
    <2>3. age \in [Index -> 0 .. HeartbeatTimeout]
      BY DEF IInv, ObserverOK, Known!LinksOK, Known!ListTypeOK
    <2> QED
      BY <2>1, <2>2, <2>3 DEF Expired, IsHead, Known!IsHead, Members
  <1>4. KnownListed'
    BY <1>1, <1>3 DEF IInv, KnownListed, Ordered, Members
  <1> QED
    BY <1>2, <1>4 DEF DirInv

\* The steps of the master and of the slaves are none of the observer's.
LEMMA OthersKeep ==
  ASSUME IInv, UNCHANGED observerVars
  PROVE  DirInv'
  BY DEF IInv, DirInv, observerVars, offerVars, listVars, ObserverOK, DirectoryAgrees, KnownListed,
         Offer!Ordered, Offer!Members, Ordered, Members,
         Known!LinksOK, Known!ListTypeOK, Known!Linked

\* So every step keeps what the observer and the manager agree on.
LEMMA ObserverStays == ASSUME IInv, [Next]_vars PROVE DirInv'
  <1>1. ASSUME NEW r \in Relay,
               OnRelayEntryPacket(r) \/ OnRelayEntryKeepAlive(r) \/ OnRelayEntryClean(r)
        PROVE  UNCHANGED observerVars
    BY <1>1 DEF OnRelayEntryPacket, OnRelayEntryKeepAlive, OnRelayEntryClean
  <1>2. ASSUME NEW s \in Slave,
               \/ OnDispatcherEntryPacket(s) \/ OnDispatcherEntryClean(s)
               \/ DispatchData(s) \/ ObserverConnects(s) \/ ObserverDisconnects(s)
        PROVE  UNCHANGED observerVars
    BY <1>2 DEF OnDispatcherEntryPacket, OnDispatcherEntryClean, DispatchData,
                ObserverConnects, ObserverDisconnects
  <1>3. CASE Restart \/ UNCHANGED vars
    BY <1>3, OthersKeep DEF Restart, vars
  <1>4. CASE Tick
    BY <1>4, TickBeginKeeps, RemoveTimeoutRelayInfoKeeps, EndLoopKeeps DEF Tick
  <1> QED
    BY <1>1, <1>2, <1>3, <1>4, OthersKeep, OnPacketKeeps, OnDeviceChallengeKeeps DEF Next

-----------------------------------------------------------------------------
(* The theorems.                                                           *)

\* The invariant is inductive: every reachable state of the directory has it.
THEOREM Invariance == Spec => []IInv
  <1>1. IInv /\ [Next]_vars => IInv'
    BY MessagesStay, ObserverStays DEF DirInv, IInv
  <1> QED
    BY InitIInv, <1>1, PTL DEF Spec

\* The manager of the device entry has what the observer knows, and devices are sent
\* to the located relays among them, in turn: local_relay_info_manager.cpp never sends
\* a device to a relay that was replaced or timed out.
THEOREM ManagerAgrees == Spec => []DirectoryAgrees
  BY Invariance, PTL DEF IInv

\* RemoveTimeoutRelayInfo, which looks only at the head of the list, leaves no relay
\* there that was not heard of for RELAY_HEARTBEAT_TIMEOUT_MS, and no relay is known
\* that is not on the list.
THEOREM TimeoutsFound == Spec => []KnownListed
  BY Invariance, PTL DEF IInv
=============================================================================
