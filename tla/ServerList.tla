----------------------------- MODULE ServerList -----------------------------
(***************************************************************************)
(* How the services find each other: the small server list server          *)
(* (s_small_server_list) publishes who is registered in each group, a      *)
(* downloader (lib_component/small_server_list_downloader) polls it by     *)
(* udp, and who uses the list keeps one tcp connection to each server in   *)
(* it.  There are two such users, which renew their connections in their   *)
(* own way: xAuditService merges two sorted lists, and                     *)
(* xSmallServerListTcpClient goes by the place of a server.  Both are fed  *)
(* from each group here; in the programs each has the group it needs.      *)
(*                                                                         *)
(* A datagram may be lost, late and out of order.  The server may restart: *)
(* it forgets the list and the versions, and answers of its former life    *)
(* may still arrive.                                                       *)
(*                                                                         *)
(* The request for the list of the list servers is left out: its answer is *)
(* for a group that is never enabled, and ignored.                         *)
(***************************************************************************)
EXTENDS Naturals, Sequences, FiniteSets

CONSTANTS
    MaxGroup,       \* the enabled groups are 1 .. MaxGroup
    MaxServer,      \* MAX_SMALL_SERVER_LIST_SIZE
    Address,
    None,           \* no server at this place
    UpdateTimeout,  \* UPDATE_SERVER_LIST_TIMEOUT_MS, in clock steps
    MaxChange,      \* bound: registrations, removals and restarts
    MaxNow,         \* bound: the server's clock stops here
    MaxFlight       \* bound: answers in flight for a group

ASSUME ListAssumption ==
    /\ None \notin Address
    /\ {MaxGroup, MaxServer, UpdateTimeout, MaxNow} \subseteq Nat \ {0}
    /\ {MaxChange, MaxFlight} \subseteq Nat

Group == 1 .. MaxGroup
Place == 1 .. MaxServer
Server == [ServerId : Place, Address : Address]

VARIABLES
    entry,      \* the server: ServerListMap[g]->List
    served,     \* the version of the buffered answer, its list, and Dirty
    now,        \* xel::GetTimestampMS() at the server
    changes,    \* how often the environment changed something
    requests,   \* groups a request for which is in flight
    answers,    \* answers in flight
    phase,      \* the downloader: "io", or "update" in the middle of Tick
    known,      \* the version and the list it has of each group
    audit,      \* xAuditService: ConnectionIdList and its open connections
    link,       \* xSmallServerListTcpClient: its connections by place
    place, ahead, age   \* EnabledServerGroupList

INSTANCE TimeoutList WITH
    Node <- Group, MaxAge <- UpdateTimeout, ListName <- {"enabled"}

listVars == <<place, ahead, age>>
serverVars == <<entry, served, now, changes>>
clientVars == <<phase, known, audit, link, listVars>>
vars == <<serverVars, requests, answers, clientVars>>

\* What is packed into an answer: the places in use, in their order.
Packed(e) ==
    LET packed[i \in 0 .. MaxServer] ==
            IF i = 0 THEN <<>>
            ELSE IF e[i] = None THEN packed[i - 1]
            ELSE Append(packed[i - 1], [ServerId |-> i, Address |-> e[i]])
    IN  packed[MaxServer]

NothingServed == [version |-> 0, list |-> <<>>, Dirty |-> TRUE]
NoneOpen == [s \in Server |-> 0]

Init ==
    /\ entry = [g \in Group |-> [i \in Place |-> None]]
    /\ served = [g \in Group |-> NothingServed]
    /\ now = 1
    /\ changes = 0
    /\ requests = {}
    /\ answers = {}
    /\ phase = "io"
    /\ known = [g \in Group |-> [version |-> 0, list |-> <<>>]]
    /\ audit = [g \in Group |-> [ids |-> <<>>, open |-> NoneOpen]]
    /\ link = [g \in Group |-> [at |-> [i \in Place |-> None], packed |-> <<>>, open |-> NoneOpen]]
    /\ place = [g \in Group |-> "enabled"]
    /\ ahead = [g \in Group |-> {h \in Group : h < g}]
    /\ age = [g \in Group |-> UpdateTimeout]

-----------------------------------------------------------------------------
(* The server.                                                             *)

Change(g, i, a) ==
    /\ changes < MaxChange
    /\ changes' = changes + 1
    /\ entry' = [entry EXCEPT ![g][i] = a]
    /\ served' = [served EXCEPT ![g].Dirty = TRUE]
    /\ UNCHANGED <<now, requests, answers, clientVars>>

OnNewServerId(g, i, a) == entry[g][i] = None /\ Change(g, i, a)
OnRemoveServerId(g, i) == entry[g][i] # None /\ Change(g, i, None)

Later(m, n) == IF m > n THEN m ELSE n

\* Mutant: the time is the version.
BuiltCareless(g) ==
    IF served[g].Dirty
    THEN [version |-> now, list |-> Packed(entry[g]), Dirty |-> FALSE] ELSE served[g]

\* BuildServerListResponse: versions increase, though the clock may stand still.
Built(g) ==
    IF served[g].Dirty
    THEN [version |-> Later(now, served[g].version + 1), list |-> Packed(entry[g]), Dirty |-> FALSE]
    ELSE served[g]

Answer(g, s) == [group |-> g, version |-> s.version, list |-> s.list]
InFlight(g) == {m \in answers : m.group = g}

\* Bound: an answer is lost if too many of its group are in flight.
OnDownloadList(g) ==
    /\ g \in requests
    /\ requests' = requests \ {g}
    /\ served' = [served EXCEPT ![g] = Built(g)]
    /\ answers' = IF Cardinality(InFlight(g)) < MaxFlight
                  THEN answers \cup {Answer(g, Built(g))} ELSE answers
    /\ UNCHANGED <<entry, now, changes, clientVars>>

\* A restart takes longer than the versions are ahead of the clock.
Restart(t) ==
    /\ changes < MaxChange
    /\ changes' = changes + 1
    /\ t > now /\ \A g \in Group : t > served[g].version
    /\ now' = t
    /\ entry' = [g \in Group |-> [i \in Place |-> None]]
    /\ served' = [g \in Group |-> NothingServed]
    /\ UNCHANGED <<requests, answers, clientVars>>

\* A datagram is lost before or after a Tick, not in the middle.
Loss ==
    /\ phase = "io"
    /\ \/ \E g \in requests : requests' = requests \ {g} /\ UNCHANGED answers
       \/ \E m \in answers : answers' = answers \ {m} /\ UNCHANGED requests
    /\ UNCHANGED <<serverVars, clientVars>>

-----------------------------------------------------------------------------
(* Those who use the list.                                                 *)

Count(seq, x) == Cardinality({k \in DOMAIN seq : seq[k] = x})

\* Mutant: the connection to a server that moved is kept in use.
RenewedBlind(a, old, new) ==
    [a EXCEPT !.ids = [n \in DOMAIN new |->
        IF n \in DOMAIN old /\ old[n].ServerId = new[n].ServerId THEN a.ids[n] ELSE new[n]]]

\* xTcpClientPool: how many connections are open to each server.
AddServer(open, s) == [open EXCEPT ![s] = @ + 1]
RemoveServer(open, s) == [open EXCEPT ![s] = @ - 1]

\* Where the loop of xAuditService::OnServerListUpdated is: at OldIndex and NewIndex, with
\* the connections of the new list so far.  A connection is named by the server it was
\* opened for.
Start(a) == [OldIndex |-> 1, NewIndex |-> 1, ids |-> <<>>, open |-> a.open]

Keep(a, r) ==
    [r EXCEPT !.OldIndex = @ + 1, !.NewIndex = @ + 1, !.ids = Append(@, a.ids[r.OldIndex])]
Remove(a, r) ==
    [r EXCEPT !.OldIndex = @ + 1, !.open = RemoveServer(@, a.ids[r.OldIndex])]
Add(new, r) ==
    LET s == new[r.NewIndex]
    IN  [r EXCEPT !.NewIndex = @ + 1, !.ids = Append(@, s), !.open = AddServer(@, s)]

\* One round of the loop, or of the two at its end.
Round(a, old, new, r) ==
    LET o == r.OldIndex
        n == r.NewIndex
    IN  CASE o > Len(old) /\ n > Len(new) -> r
          [] o <= Len(old) /\ n > Len(new) -> Remove(a, r)
          [] o > Len(old) /\ n <= Len(new) -> Add(new, r)
          [] OTHER -> CASE old[o] = new[n] -> Keep(a, r)
                        [] old[o].ServerId < new[n].ServerId -> Remove(a, r)
                        [] old[o].ServerId > new[n].ServerId -> Add(new, r)
                        [] OTHER -> Add(new, Remove(a, r))

\* xAuditService::OnServerListUpdated: every round passes a server of one of the lists.
Renewed(a, old, new) ==
    LET after[k \in 0 .. Len(old) + Len(new)] ==
            IF k = 0 THEN Start(a) ELSE Round(a, old, new, after[k - 1])
        r == after[Len(old) + Len(new)]
    IN  [ids |-> r.ids, open |-> r.open]

\* The place of each server of the list, as UpdateServerList spreads it out.
Spread(list) ==
    [i \in Place |-> IF \E n \in DOMAIN list : list[n].ServerId = i
                     THEN (CHOOSE s \in Server : s.ServerId = i /\ Count(list, s) > 0).Address
                     ELSE None]

\* Mutant: who is no longer in the list keeps its connection.
RelinkedOnly(l, new) ==
    LET at == [i \in Place |-> IF Spread(new)[i] = None THEN l.at[i] ELSE Spread(new)[i]]
    IN  [at |-> at, packed |-> [n \in DOMAIN new |-> new[n].ServerId],
         open |-> [s \in Server |-> IF at[s.ServerId] = s.Address THEN 1 ELSE 0]]

\* xSmallServerListTcpClient::UpdateServerList.
Relinked(l, new) ==
    LET to == Spread(new)
        Changed == {i \in Place : l.at[i] # to[i]}
    IN  [at |-> to,
         packed |-> [n \in DOMAIN new |-> new[n].ServerId],
         open |-> [s \in Server |->
             l.open[s] + (IF s.ServerId \in Changed /\ to[s.ServerId] = s.Address THEN 1 ELSE 0)
                       - (IF s.ServerId \in Changed /\ l.at[s.ServerId] = s.Address THEN 1 ELSE 0)]]

\* Where they send: the one of a list of servers that a hash selects; None if there
\* is no server, and then nothing is sent.  ReportTarget, by udp:
ReportTarget(g, hash) ==
    LET list == known[g].list IN IF list = <<>> THEN None ELSE list[(hash % Len(list)) + 1]

\* ReportUsage and ReportBlockAccount: the server the selected connection was opened to.
ReportUsage(g, hash) ==
    LET size == Len(known[g].list) IN
    IF size = 0 THEN None ELSE audit[g].ids[(hash % size) + 1]

\* PostMessage of xSmallServerListTcpClient.
PostMessage(g, hash) ==
    LET l == link[g] IN
    IF l.packed = <<>> THEN None
    ELSE LET i == l.packed[(hash % Len(l.packed)) + 1] IN [ServerId |-> i, Address |-> l.at[i]]

-----------------------------------------------------------------------------
(* The downloader.                                                         *)

\* Tick; d clock steps after the last one.
TickBegin(d) ==
    /\ phase = "io"
    /\ phase' = "update"
    /\ Elapse(d)
    /\ now' = IF now + d < MaxNow THEN now + d ELSE MaxNow
    /\ UNCHANGED <<entry, served, changes, requests, answers, known, audit, link>>

Expired(g) == IsHead(g, "enabled") /\ age[g] >= UpdateTimeout

\* Mutant: a group that was asked for is not put back.
AskOnce(g) ==
    /\ phase = "update"
    /\ Expired(g)
    /\ phase' = "io"
    /\ Unlink(g)
    /\ requests' = requests \cup {g}
    /\ UNCHANGED <<serverVars, answers, known, audit, link>>

\* UpdateOneEnabledServerList: one group at most in a Tick.
UpdateOneEnabledServerList(g) ==
    /\ phase = "update"
    /\ Expired(g)
    /\ phase' = "io"
    /\ StampAndGrabTail(g, "enabled")
    /\ requests' = requests \cup {g}
    /\ UNCHANGED <<serverVars, answers, known, audit, link>>

UpdateNone ==
    /\ phase = "update"
    /\ \A g \in Group : ~Expired(g)
    /\ phase' = "io"
    /\ UNCHANGED <<serverVars, requests, answers, known, audit, link, listVars>>

\* Any other version is taken over, be it older.
OnUdpPacket(m) ==
    /\ phase = "io"
    /\ m \in answers
    /\ answers' = answers \ {m}
    /\ LET g == m.group IN
       IF m.version = known[g].version
       THEN UNCHANGED <<known, audit, link>>
       ELSE /\ known' = [known EXCEPT ![g] = [version |-> m.version, list |-> m.list]]
            /\ audit' = [audit EXCEPT ![g] = Renewed(@, known[g].list, m.list)]
            /\ link' = [link EXCEPT ![g] = Relinked(@, m.list)]
    /\ UNCHANGED <<serverVars, requests, phase, listVars>>

-----------------------------------------------------------------------------

Tick ==
    \/ \E d \in {0, 1} : TickBegin(d)
    \/ \E g \in Group : UpdateOneEnabledServerList(g)
    \/ UpdateNone

Next ==
    \/ \E g \in Group, i \in Place :
          OnRemoveServerId(g, i) \/ \E a \in Address : OnNewServerId(g, i, a)
    \/ \E g \in Group : OnDownloadList(g)
    \/ \E t \in 1 .. MaxNow : Restart(t)
    \/ Loss
    \/ Tick
    \/ \E m \in answers : OnUdpPacket(m)

\* The downloader's loop runs, and of the datagrams that are sent again and again
\* not all are lost.
Fairness ==
    /\ SF_vars(TickBegin(1)) /\ WF_vars(phase # "io" /\ Tick)
    /\ \A g \in Group :
          /\ SF_vars(OnDownloadList(g))
          /\ SF_vars(\E m \in answers : m.group = g /\ OnUdpPacket(m))

Spec == Init /\ [][Next]_vars
FairSpec == Spec /\ Fairness

-----------------------------------------------------------------------------
(* Properties.                                                             *)

\* Who has the version of a list has the list: all that the server, the datagrams in
\* flight and the downloader hold under one version is the same, across restarts of
\* the server too.  Otherwise OnUdpPacket would take a new list for the one it has.
VersionMeansList ==
    \A g \in Group :
        LET copies == {[version |-> served[g].version, list |-> served[g].list], known[g]}
                      \cup {[version |-> m.version, list |-> m.list] : m \in InFlight(g)}
        IN  \A x, y \in copies : x.version = y.version /\ x.version # 0 => x.list = y.list

Listed(g, s) == IF Count(known[g].list, s) > 0 THEN 1 ELSE 0

Hash == 0 .. MaxServer

\* xAuditService: what is reported of an account goes on a connection to the server of
\* the list that its hash selects, and no other connection is left open, however the
\* list changed and whatever came late.
AuditConnectionsFollow ==
    \A g \in Group :
        /\ \A h \in Hash : ReportUsage(g, h) = ReportTarget(g, h)
        /\ \A s \in Server : audit[g].open[s] = Listed(g, s)

\* xSmallServerListTcpClient: a message goes to the server that its hash selects, on a
\* connection that is open (small_server_list_tcp_client.cpp:67), and no other is.
PackedServersConnected ==
    \A g \in Group :
        /\ \A h \in Hash : PostMessage(g, h) = ReportTarget(g, h)
        /\ \A s \in Server : link[g].open[s] = Listed(g, s)

\* Once the servers stay as they are, the downloader gets their list and keeps it,
\* though requests and answers were lost and late ones put an older list back.
ListsSettle == <>[](\A g \in Group : known[g].list = Packed(entry[g]))
=============================================================================
