--------------------------- MODULE RelayDirectory ---------------------------
(***************************************************************************)
(* How device entries learn which relays there are.  Relays register with  *)
(* the dispatcher master (s_relay_dispatcher_master/rdm.cpp), which hands  *)
(* each of their heartbeats to one dispatcher slave in turn; the slave     *)
(* (s_relay_dispatcher_slave) passes it on to all its observers; an        *)
(* observer (lib_component/relay/relay_info_observer.cpp) is connected to  *)
(* every slave it knows, keeps the relays it heard of lately and tells the *)
(* manager of the device entry (s_device_entry/local_relay_info_manager),  *)
(* which sends each device that asks to the next relay of its country.     *)
(*                                                                         *)
(* Connections are tcp: in order and without loss while they last, and     *)
(* everything under way is lost with them.  The code that sends a relay's  *)
(* heartbeats is not in the repository.                                    *)
(*                                                                         *)
(* A place of RelayEntryContextPool is reused under a new key; the keys    *)
(* start again when the master does.                                       *)
(***************************************************************************)
EXTENDS Naturals, Sequences, FiniteSets

CONSTANTS
    Relay,          \* relay servers; each has its own addresses
    Located,        \* those whose country the region service knows
    Slave,          \* dispatcher slaves
    Index,          \* places in RelayEntryContextPool
    Key,            \* what sets ids of the same place apart
    HeartbeatTimeout,   \* RELAY_HEARTBEAT_TIMEOUT_MS, in clock steps
    MaxQueue,       \* bound: messages under way on a connection
    MaxRestart,     \* bound: restarts of the master
    Null

Id == [index : Index, key : Key]

ASSUME DirectoryAssumption ==
    /\ IsFiniteSet(Index)
    /\ Located \subseteq Relay /\ Null \notin Relay \cup Id
    /\ HeartbeatTimeout \in Nat \ {0} /\ MaxQueue \in Nat \ {0} /\ MaxRestart \in Nat

NoInfo == [ServerId |-> Null, relay |-> Null]
Info == [ServerId : Id, relay : Relay]

VARIABLES
    context,    \* the master: the id of each relay; Null: no context
    issued,     \* the ids given out since the master started
    restarts,
    accepted,   \* the slaves that have a context
    rotation,   \* DispatcherEntryList
    toSlave,    \* under way from the master to each slave
    up,         \* the observer is connected to the slave
    toObserver, \* under way from each slave to the observer
    phase,      \* the observer: "io", or "timeout" while RemoveTimeoutRelayInfo runs
    info,       \* RelayServerList of the observer
    manager,    \* FullRelayInfoList of the manager
    offered, before,    \* RelayInfoListByCountry of the one country, V4 and V6
    place, ahead, age   \* RelayInfoTimeoutList

INSTANCE TimeoutList WITH
    Node <- Index, MaxAge <- HeartbeatTimeout, ListName <- {"known"}

\* The manager's lists are in the order in which devices are sent to the relays, and
\* nothing on them is timed.
Offer == INSTANCE TimeoutList WITH
    Node <- Index, MaxAge <- 0, ListName <- {"V4", "V6"},
    place <- offered, ahead <- before, age <- [i \in Index |-> 0]

listVars == <<place, ahead, age>>
masterVars == <<context, issued, restarts, accepted, rotation>>
offerVars == <<offered, before>>
observerVars == <<phase, info, manager, offerVars, listVars>>
vars == <<masterVars, toSlave, up, toObserver, observerVars>>

Init ==
    /\ context = [r \in Relay |-> Null]
    /\ issued = {}
    /\ restarts = 0
    /\ accepted = {}
    /\ rotation = <<>>
    /\ toSlave = [s \in Slave |-> <<>>]
    /\ up = [s \in Slave |-> FALSE]
    /\ toObserver = [s \in Slave |-> <<>>]
    /\ phase = "io"
    /\ info = [i \in Index |-> NoInfo]
    /\ manager = [i \in Index |-> NoInfo]
    /\ Offer!ListInit
    /\ ListInit

Registered(r) == context[r] # Null

-----------------------------------------------------------------------------
(* The master.                                                             *)

\* Mutant: the slave is not put back.
DispatchedOnce(id, r) ==
    IF rotation = <<>> THEN UNCHANGED <<rotation, toSlave>>
    ELSE /\ toSlave' = [toSlave EXCEPT ![Head(rotation)] =
                           Append(@, [ServerId |-> id, relay |-> r])]
         /\ rotation' = Tail(rotation)

\* DispatchRelayHeartbeat: to the slave whose turn it is.
Dispatched(id, r) ==
    IF rotation = <<>> THEN UNCHANGED <<rotation, toSlave>>
    ELSE /\ toSlave' = [toSlave EXCEPT ![Head(rotation)] =
                           Append(@, [ServerId |-> id, relay |-> r])]
         /\ rotation' = Append(Tail(rotation), Head(rotation))

\* Bound: a heartbeat waits for room.
Room == rotation # <<>> => Len(toSlave[Head(rotation)]) < MaxQueue

\* OnRelayEntryPacket.  Nothing changes when the pool is full, or when a registered
\* relay registers again: then its connection ends.
OnRelayEntryPacket(r) ==
    LET taken == {context[q].index : q \in {p \in Relay : Registered(p)}} IN
    /\ ~Registered(r)
    /\ Room
    /\ \E id \in Id \ issued :
          /\ id.index \notin taken
          /\ context' = [context EXCEPT ![r] = id]
          /\ issued' = issued \cup {id}
          /\ Dispatched(id, r)
    /\ UNCHANGED <<restarts, accepted, up, toObserver, observerVars>>

\* OnRelayEntryKeepAlive.  A connection that has no context is killed, which changes nothing.
OnRelayEntryKeepAlive(r) ==
    /\ Registered(r)
    /\ Room
    /\ Dispatched(context[r], r)
    /\ UNCHANGED <<context, issued, restarts, accepted, up, toObserver, observerVars>>

\* The connection of a relay ends, or was idle for too long.
OnRelayEntryClean(r) ==
    /\ Registered(r)
    /\ context' = [context EXCEPT ![r] = Null]
    /\ UNCHANGED <<issued, restarts, accepted, rotation, toSlave, up, toObserver, observerVars>>

\* A slave registers with the master.
OnDispatcherEntryPacket(s) ==
    /\ s \notin accepted
    /\ accepted' = accepted \cup {s}
    /\ rotation' = Append(rotation, s)
    /\ UNCHANGED <<context, issued, restarts, toSlave, up, toObserver, observerVars>>

OnDispatcherEntryClean(s) ==
    /\ s \in accepted
    /\ accepted' = accepted \ {s}
    /\ rotation' = SelectSeq(rotation, LAMBDA t : t # s)
    /\ toSlave' = [toSlave EXCEPT ![s] = <<>>]
    /\ UNCHANGED <<context, issued, restarts, up, toObserver, observerVars>>

Restart ==
    /\ restarts < MaxRestart
    /\ restarts' = restarts + 1
    /\ context' = [r \in Relay |-> Null]
    /\ issued' = {}
    /\ accepted' = {}
    /\ rotation' = <<>>
    /\ toSlave' = [s \in Slave |-> <<>>]
    /\ UNCHANGED <<up, toObserver, observerVars>>

-----------------------------------------------------------------------------
(* A slave.                                                                *)

\* Bound: a heartbeat waits until the observer's connection has room.
DispatchData(s) ==
    /\ toSlave[s] # <<>>
    /\ up[s] => Len(toObserver[s]) < MaxQueue
    /\ toSlave' = [toSlave EXCEPT ![s] = Tail(@)]
    /\ toObserver' = IF up[s] THEN [toObserver EXCEPT ![s] = Append(@, Head(toSlave[s]))]
                              ELSE toObserver
    /\ UNCHANGED <<masterVars, up, observerVars>>

ObserverConnects(s) ==
    /\ ~up[s]
    /\ up' = [up EXCEPT ![s] = TRUE]
    /\ UNCHANGED <<masterVars, toSlave, toObserver, observerVars>>

ObserverDisconnects(s) ==
    /\ up[s]
    /\ up' = [up EXCEPT ![s] = FALSE]
    /\ toObserver' = [toObserver EXCEPT ![s] = <<>>]
    /\ UNCHANGED <<masterVars, toSlave, observerVars>>

-----------------------------------------------------------------------------
(* The observer and the manager.                                           *)

\* Mutant: the manager is told of the id after it was reset.
RemovedTooLate(i, id) == FALSE

\* RemoveRelayServerInfo changes something: the manager has the place under that id.
Removed(i, id) == id # Null /\ manager[i].ServerId = id

\* UpdateRelayServerInfo of a new entry: whatever its address, it goes to the list for V4.
Listed(i, b) == IF b.relay \in Located THEN Offer!GrabTail(i, "V4") ELSE Offer!Unlink(i)

\* Mutant: the addresses are not compared.
SameRelayById(old, b) == old.ServerId = b.ServerId
SameRelay(old, b) == old = b

\* An entry that changed is killed under its old id and then known under the new one.
\* The manager ignores an update that is what it has.
OnPacket(s) ==
    LET b == Head(toObserver[s])
        i == b.ServerId.index
    IN  /\ phase = "io"
        /\ toObserver[s] # <<>>
        /\ toObserver' = [toObserver EXCEPT ![s] = Tail(@)]
        /\ IF SameRelay(info[i], b)
           THEN UNCHANGED <<info, manager, offerVars>>
           ELSE /\ info' = [info EXCEPT ![i] = b]
                /\ manager' = [manager EXCEPT ![i] = b]
                /\ IF manager[i] = b /\ ~Removed(i, info[i].ServerId)
                   THEN UNCHANGED offerVars ELSE Listed(i, b)
        /\ StampAndGrabTail(i, "known")
        /\ UNCHANGED <<masterVars, toSlave, up, phase>>

\* A device of V4 or V6 asks which relay to use: GetRelayServerByDeviceIp.  If its list
\* is empty it is refused.
OnDeviceChallenge(family) ==
    /\ phase = "io"
    /\ \E i \in Index : Offer!IsHead(i, family) /\ Offer!GrabTail(i, family)
    /\ UNCHANGED <<masterVars, toSlave, up, toObserver, phase, info, manager, listVars>>

TickBegin(d) ==
    /\ phase = "io"
    /\ phase' = "timeout"
    /\ Elapse(d)
    /\ UNCHANGED <<masterVars, toSlave, up, toObserver, info, manager, offerVars>>

Expired(i) == IsHead(i, "known") /\ age[i] >= HeartbeatTimeout

\* One iteration.  Of the addresses, which Kill leaves, nothing is read while the id is 0.
RemoveTimeoutRelayInfo(i) ==
    /\ phase = "timeout"
    /\ Expired(i)
    /\ info' = [info EXCEPT ![i] = NoInfo]
    /\ IF Removed(i, info[i].ServerId)
       THEN manager' = [manager EXCEPT ![i] = NoInfo] /\ Offer!Unlink(i)
       ELSE UNCHANGED <<manager, offerVars>>
    /\ Unlink(i)
    /\ UNCHANGED <<masterVars, toSlave, up, toObserver, phase>>

\* Mutant: the loop ends at once.
EndLoopAtOnce ==
    /\ phase = "timeout"
    /\ phase' = "io"
    /\ UNCHANGED <<masterVars, toSlave, up, toObserver, info, manager, offerVars, listVars>>

EndLoop ==
    /\ phase = "timeout"
    /\ \A i \in Index : ~Expired(i)
    /\ phase' = "io"
    /\ UNCHANGED <<masterVars, toSlave, up, toObserver, info, manager, offerVars, listVars>>

-----------------------------------------------------------------------------

Tick ==
    \/ \E d \in {0, 1} : TickBegin(d)
    \/ \E i \in Index : RemoveTimeoutRelayInfo(i)
    \/ EndLoop

Next ==
    \/ \E r \in Relay : OnRelayEntryPacket(r) \/ OnRelayEntryKeepAlive(r) \/ OnRelayEntryClean(r)
    \/ \E s \in Slave :
          \/ OnDispatcherEntryPacket(s) \/ OnDispatcherEntryClean(s)
          \/ DispatchData(s) \/ ObserverConnects(s) \/ ObserverDisconnects(s)
          \/ OnPacket(s)
    \/ \E family \in {"V4", "V6"} : OnDeviceChallenge(family)
    \/ Restart
    \/ Tick

\* The observer's loop runs, what is under way arrives, and a relay sends its
\* heartbeats as long as it is connected.
Fairness ==
    /\ SF_vars(TickBegin(1)) /\ WF_vars(phase # "io" /\ Tick)
    /\ \A s \in Slave : SF_vars(DispatchData(s)) /\ SF_vars(OnPacket(s))
    /\ \A r \in Relay : SF_vars(OnRelayEntryKeepAlive(r))

Spec == Init /\ [][Next]_vars
FairSpec == Spec /\ Fairness

-----------------------------------------------------------------------------
(* Properties.                                                             *)

\* The manager of the device entry has what the observer knows, and devices are sent
\* to the located relays among them, to each in turn, and to no other, through every
\* replacement of a relay at the same place and every timeout.
DirectoryAgrees ==
    /\ manager = info
    /\ \A i \in Index : offered[i] # "none" <=> info[i].relay \in Located
    /\ Offer!Ordered("V4")

\* An entry with an id is on the timeout list, as KeepAlive asserts
\* (relay_info_observer.cpp:79), and none is left there for too long.
KnownListed ==
    /\ \A i \in Index : place[i] = "known" <=> info[i].ServerId # Null
    /\ Ordered("known")
    /\ phase = "io" => \A i \in Members("known") : age[i] < HeartbeatTimeout

\* Once relays no longer come and go, the observer knows none that is gone, though
\* last heartbeats arrived late, by another slave, or after another relay got the
\* place or even the id.
GoneRelaysForgotten ==
    <>[](\A i \in Index : info[i] # NoInfo => context[info[i].relay] = info[i].ServerId)

\* A relay that stays is heard of again and again, if the observer and the master
\* are connected to the same slaves.
Connected == \A s \in Slave : up[s] <=> s \in accepted
LiveRelaysKnown ==
    \A r \in Relay :
        <>[](Connected /\ accepted # {} /\ Registered(r)) => []<>(\E i \in Index : info[i].relay = r)
=============================================================================
