# PP3 in TLA+

PP3 is a proxy: clients speak SOCKS5 or HTTP to it, it asks who they are,
chooses an exit device and relays their data through it.  This directory holds
TLA+ models of its services, the TLC configurations that check them, and proofs
for TLAPS.  `PROJECT.json` maps each definition to the lines it stands for and
lists runs, mutants, hazards, findings and theorems.

In this text a path without a directory is under
`src/src_xapp/ppp/lib_component/`.

## 1. The system

Almost all services are single threaded: the event loop calls back when a socket or
another service has something, and calls `Tick(NowMS)` of each service again
and again.  They keep their objects in `xIndexedStorage` pools (an id is never
issued twice) and on intrusive lists (`xList`), ordered by time stamp, from
whose head a Tick pops what is too old.  A question that is not answered at
once is an `xFuture` from a bounded pool: the asker keeps a raw pointer, the
answering service keeps a handle that finds nothing once the asker has released
the future, and the asker's next Tick walks the futures that became ready.  Three services have
threads of their own: the dns service's queries, the auth service's reload of its
files, and the target collector's Kafka thread.

| Component | State | Operations | Interacts with | What is hard |
|---|---|---|---|---|
| Proxy access service, `pa_service.cpp` | client connections (type, processor, marks, ids), four timeout lists, four future pools, udp channels, `Http.Content` | accept, nine data processors, close, flush; `PostData`, `CloseConnection` from the relay; the eight loops of `Tick` | auth, device locator, relay | a connection can die while a question about it is open; the processor pointer is the protocol state; a body arrives while the relay still connects |
| Futures, `pp_common/future.hpp` | pool, list of the ready | acquire, set ready, release, handle | all | answered once, never to the wrong asker |
| Local relay service, `relay_local_device_service.cpp` | relay connections and udp channels, dns futures, four lists | create by name or address, close, keep alive, `Tick` | proxy, dns, kernel | close by target, proxy and timeout while a question is open; data before the answer |
| Local dns service, `dns_local_service.cpp` | cache, source requests per name, request nodes, queue and finished list under two locks | `ResolveDns`, query threads, two loops of `Tick` | relay | threads that block for ever; answer against timeout |
| Local auth service, `auth_local_service.cpp` | account map, audit nodes with reference counts and usage, reload thread | acquire, release, report, reload | proxy, audit | the map is replaced while connections hold accounts of the old one |
| Request mapping, `request_mapping.cpp` | ids of pending requests with a timeout | acquire, take, `Tick` | nobody yet | late answers; pool at its limit |
| Local device manager, `local_device/` | devices and their connections, idle and kill lists | as the relay's | | as the relay's |
| Relay directory, `relay/relay_info_observer.cpp`, `s_device_entry/local_relay_info_manager.cpp` | relays known, with a timeout; relays offered to devices, by country | packet, keep alive, kill, remove; a device asks | dispatcher, devices | places and ids used again, late heartbeats |
| Relay dispatcher, `s_relay_dispatcher_master`, `_slave` | registered relays and slaves | register, heartbeat, broadcast | relays, observers | one slave told at a time |
| Small server list, `small_server_list_downloader.cpp`, `_tcp_client.cpp`, `s_small_server_list` | versioned lists | request, response, enable, disable | audit, relay directory | udp: lost, late, out of order; restarts |
| Audit service, `audit_service/` | connections to the servers of the list | collect, rebuild on a new list | server list | usage during a rebuild |
| Target collector, `s_target_collector`, with `rdkafka_producer.cpp` | a pool of nodes, three lists shared with the Kafka thread and two of its own, an event | collect, `Tick`, post, `Clean` | librdkafka | two threads exchange lists; the stop |
| Server id client, address challenge, relay device, remote relay, region lookup, service runtime, wire protocol, test programs | little or none | | | see section 8 |

What makes each modelled component correct is the list of its properties in
section 4.

No program of this commit puts the proxy, relay, auth and dns services
together: which service's Tick runs first is not fixed by the code.  So each
model leaves the other services free to act between its own Ticks, and the
composition `LocalProxy` lets the Ticks of its two services come in any order.

## 2. Modules

| Module | Models | Uses |
|---|---|---|
| `TimeoutList` | `xList` and time stamps (an external library, modelled from its use) | |
| `TimeoutListProofs` | what the operations of a list keep, for every list | `TimeoutList` |
| `ProxyAccess` | `xProxyAccessService` | `TimeoutList` |
| `MCProxyAccess` | symmetry for TLC | `ProxyAccess` |
| `ProxyAccessProofs` | theorems about `ProxyAccess`, and on them about `LocalProxy` | `LocalProxy`, `TimeoutListProofs`, `RelayLocalProofs` |
| `Question` | abstract: what the services promise each other about one future of each asker | |
| `RelayLocal` | `xRelayLocalBindingService` with the part of the proxy that it sees | `TimeoutList`, `Question` |
| `RelayLocalProofs` | theorems about `RelayLocal` | `RelayLocal` |
| `DnsLocal` | `xDnsLocalService` with its query threads | `TimeoutList`, `Question` |
| `DnsLocalProofs` | theorems about `DnsLocal` | `DnsLocal` |
| `AuthLocal` | `xAuthLocalService` with its reload thread | `TimeoutList` |
| `AuthLocalProofs` | theorems about `AuthLocal`, lemmas about sums | `AuthLocal` |
| `ServerList` | the list server, `xSmallServerListDownloader`, and its users `xAuditService` and `xSmallServerListTcpClient` | `TimeoutList` |
| `ServerListProofs` | theorems about `ServerList` | `ServerList` |
| `RelayDirectory` | dispatcher master and slaves, `xRelayInfoObserver`, `xDE_LocalRelayInfoManager` | `TimeoutList` twice: the observer's list and the manager's |
| `RelayDirectoryProofs` | theorems about `RelayDirectory` | `RelayDirectory`, `TimeoutListProofs` |
| `LocalProxy` | the proxy and the local relay service in one process | `ProxyAccess`, `RelayLocal` |
| `ReportQueue` | abstract: the one queue that the target collector promises | |
| `TargetReporter` | `xTargetCollectReporter` with its Kafka thread and the producer | `ReportQueue` |
| `TargetReporterProofs` | theorems about `TargetReporter` | `TargetReporter` |

**Conventions.**  `phase` is `"io"` between Ticks and otherwise names the loop
of `Tick` that is running; a handler is one action, and so is one iteration of
a loop of `Tick`.  A loop ends (`EndLoop`) when its list yields nothing more.
`Elapse` is the update of the service's ticker.  Timeouts are counted in steps
of an abstract clock; an age stops at the longest timeout, because no code
looks at older ones differently.  A Tick may find the clock unchanged.
Operators called "Mutant" in a comment are faulty variants: a run
must notice each one.

**`ProxyAccess`.**  `conn[c]` is `xPA_ClientConnection`; ids are `TRUE` if not
zero.  `future[k][f]` is place `f` of pool `k` (`auth`, `device`, `conn`,
`udp`), `held[k][c]` the pointer from the connection.  Whether a handler leaves
unsent bytes (`HasPendingWrites()`) is free (`w`), as is what a service
answers and whether it answers before the call returns (`a`, limited by
`Immediate`).  A processor that returns `InvalidDataSize` ends in `OnPeerClose`,
as in the library's read loop; incomplete input changes nothing; input a
processor leaves unconsumed is presented again.  `stream` is needed for plain
HTTP only: pieces are numbered, 1 is the request line, 2 the header, higher
numbers the body; `consumed` is the last one a processor took, `refused` counts, as a
history, how often a header was appended to `Http.Content` and yet left unconsumed.
A client may send for ever; what it sends beyond `MaxUnits` changes the lists as ever
and is not recorded in `stream`.  `requested` records whose id the relay was given: the
relay may only talk about those.  `authRefs` is the auth service's reference
count, as far as the proxy is its cause.  An assertion that fails is
`phase = "aborted"`.

**`RelayLocal`.**  A relay connection is named by the proxy connection it is
for, which is sound because the proxy asks for at most one.  Proxy connections
are "live", "marked" or "gone", move between these as `ProxyAccess` lets them, and
use one future, as in `Question`.  That this is what the proxy does is not assumed
but checked and proved: `LocalProxy!RelaySeesProxy`.

**`LocalProxy`.**  `ProxyAccess` is extended and `RelayLocal` is instantiated: its
variables for the proxy (`proxy`, `request`, `known`) are replaced by what the
proxy's own state says, the others stay.  A call of one service by the other is a
joint step: `RelayAsked` for `CreateConnection`, `FutureFollows` for the answer, which
is one place of memory that both use, `DataPosted` for `PostData`.

**`DnsLocal`.**  `request[h]` says where the request node of name `h` is: in
the queue, with a thread, finished, in the batch of `Tick`.  A transfer under a
lock is one step; the steps of threads interleave with those of `Tick`.

**`AuthLocal`.**  Six usage totals are one number; bandwidth and connection
limits, which work alike, are one.  A new map is any map of the accounts to no
row, a valid or an invalid one.

**`ServerList`.**  Datagrams in flight are sets, so a copy of one means nothing
new: requests are alike, and an answer that comes twice has the version the
downloader has by then unless another came between, which a late answer shows
as well.  A connection is named by the server it was opened for, and the model
counts how many are open to each.  A restart of the server is assumed to take longer
than its versions are ahead of its clock, which takes as many changes as milliseconds.
Place and id of a server are one number, as they are in a group.

**`RelayDirectory`.**  Connections are queues, emptied when they break.  A
relay is its addresses; an id is a place of the master's pool and a key.  There
is one observer: slaves treat all alike; and one country with its two lists, of which
the code fills only the one for V4.

**`TargetReporter`.**  A report is its number in the order of collection, and so is
the node that carries it.  What a thread does alone or under the lock is one step,
between two points where the other thread can see it; the exchange of lists, the
event, and each `KR.Post` are such points.  librdkafka keeps what it was given
(`outstanding`) until it reports on it, refuses what it has no room for, and loses
what is left when the producer is deleted.

## 3. Abstract specification and refinement

`Question` states the protocol of futures: ask, answer once, release.
`ReportQueue` states what who sends targets to the collector may expect: one queue.

* `RelayLocal!KeepsProtocol`: the relay answers each question of the proxy at
  most once and never after it was released; proved as well;
* `DnsLocal!KeepsProtocol`: the same for whoever asks the dns service; one
  step may answer several of them; proved as well;
* `LocalProxy!RelaySeesProxy`: the composition of both services implements
  `RelayLocal`, with the proxy's part computed from the state of `ProxyAccess`.  So what
  `RelayLocal` assumes of the proxy holds, and by `KeepsProtocol` the composition
  keeps the protocol of `Question`; both are proved as well (`RelayServed`,
  `ProtocolKeptLocally`);
* `TargetReporter!BehavesAsQueue`: two threads with five lists are one queue:
  who waits is who stands on the last three lists, read from the thread's to the newest.
  Proved (`ReporterIsQueue`) as well as checked.

## 4. Runs

| Run | Instance | Shows |
|---|---|---|
| `pa_socks` | 2 clients (SOCKS connect, udp associate, CONNECT), 1 place in each pool, 1 udp channel, timeouts 1, 1, 2 | `TypeOK`, `FutureOwnership`, `AuthBalance`, `ListPlacement`, `NoExpiredSurvivor`, `UdpChannelOwnership`, `AnswersServed`, `OneQuestionAtATime`, `MarkedStaysMarked` |
| `pa_http` | 2 plain HTTP clients, 3 recorded pieces | `ForwardingAuthorized`: nothing is forwarded without authentication; `StreamInOrder`: the request line, the header once and once more for each recorded refusal, then each piece of the body once, in order |
| `pa_assert` | 1 client, unknown address type | finding, section 7 |
| `relay_local` | 2 clients, 1 udp channel, pools of 1, timeout 1 | `QuestionBacked`, `RelayPlacement`, `KeepsProtocol`, `QuestionsAnswered` |
| `relay_data` | 1 client | finding, section 7 |
| `local_proxy` | 1 client of any kind, 3 recorded pieces, client and target may send for ever, timeouts 1, 1, 2 of the proxy and 2 of the relay | `RelaySeesProxy`, `DataReachesTarget`, `RelayConnectionsEnd`, `ClientsLeave`, `HandshakeEnds` |
| `local_body` | 1 plain HTTP client | finding, section 7 |
| `dns` | 2 names, 3 askers, 2 threads, 2 source requests, timeout 2 | `PendingBacked`, `RequestsKept`, `KeepsProtocol`, `QuestionsAnswered` |
| `auth` | 1 account, 3 connections, 2 audit nodes, limit 1, timeouts 1 | `ReferencesCounted`, `UsageConserved`, `UsageReported` |
| `server_list` | 1 group of 2 places, 2 addresses, 4 changes, 2 answers in flight, timeout 1 | `VersionMeansList`, `AuditConnectionsFollow`, `PackedServersConnected`, `ListsSettle` |
| `relay_directory` | 2 relays of which 1 is located, 2 slaves, 1 place with 1 key, timeout 2, 1 restart | `DirectoryAgrees`, `KnownListed`, `GoneRelaysForgotten`, `LiveRelaysKnown` |
| `target_reporter` | 4 nodes, 7 reports, 1 message outstanding | `NodesInLine`, `ThreadEndsFirst`, `BehavesAsQueue`, `EveryReportPosted`, `CleanEnds` |

**Why these bounds.**  The errors in question are between a connection and
what it points to, between two connections that compete for a place or stand
on the same list, and between an event and a Tick.  Two connections are the
fewest that can compete, stand in the wrong order or inherit each other's place, and one
place in each pool makes "the pool is empty" an everyday case; for any number of places `FutureOwnership` is proved.  `IdleTimeout` is longer than the other timeouts, so
that a stamp can be missed; a timeout of 2 distinguishes "young", "old" and
"expired".  `MaxUnits` bounds what is recorded of a client's data, not what it sends; three pieces are a
request line, header and one piece of the body, and `StreamInOrder` is proved for any
number.  Connection ids are not reused (nor in the
code), so with n ids a run sees n connections in all.  `ConnSymmetry` is used
only in runs without liveness.  In `dns` the pool of source requests runs dry
and the pool of request nodes does not (there are as many nodes as names): both
refusals are the same branch of `ResolveDns`.  In `auth` one account is
enough to have several nodes in use, of older and newer maps and of valid and
invalid rows; three connections can hold both nodes and ask for a third, which
ends in the assertion on the pool.  In
`server_list` four changes let a server go and another come in its place or
elsewhere, before and after a restart, while two older answers wait;
`UpdateTimeout` may be 1 since an answer may take as long as it likes.  In
`relay_directory` the one id is given out again, by the same master or the
restarted one, to either relay, and reaches the observer by either slave.  With one place the observer's timeout list and the
manager's list have one entry at most, so what `DirectoryAgrees` and `KnownListed` say of
their order is not tested by this run: it is proved, for any number of places
(`ManagerAgrees` and `TimeoutsFound`, section 6).
In `local_proxy` one client is enough, since clients meet only in the pools, which
`pa_socks` and `relay_local` exhaust; the timeouts of both services run against each
other and against data of the client and of the target that never ends.  In
`target_reporter` seven reports use four nodes again, so that a node is collected,
handed over, posted, finished and free at once with others, and one message
outstanding lets librdkafka refuse the next.

**Deadlock** is checked by `pa_http`, `dns`, `server_list` and
`relay_directory`.  The other runs switch the check off: in `pa_socks`, `pa_assert`,
`relay_*`, `local_*` and `auth` the program may stop at one of its assertions, or all
clients have come and gone, and the target collector of `target_reporter` ends.

## 5. Fairness

* `SF_vars(TickBegin(1))` and `WF_vars(phase # "io" /\ Tick)`, everywhere: the
  loop of the service runtime (`pp_common/service_runtime.cpp`) calls Tick over
  and over with a clock that advances, and a loop of `Tick`, once begun, runs
  to its end on the same thread.  Strong fairness, because the io events between two Ticks
  disable `TickBegin` only while another Tick is running.
* `LocalProxy`: the same for both services, and nothing else; auth and dns service may
  never answer, client and target may stay silent or go on for ever.  Whoever goes on
  keeps a connection alive, so the liveness properties speak of those who do not
  (`ClientSendsForEver`, `TargetSendsForEver`), and each premise is needed:
  - `RelayConnectionsEnd`: a target that never stops is kept alive by `OnData`
    (`relay_local_device_service.cpp:488`).  Nothing is asked of the client, whose data
    does not count.  The property speaks of connections the proxy was told of;
  - `ClientsLeave`: a marked client ends whatever anybody sends.  A client whose relay
    connection is gone ends if it falls silent: `OnRawData` and `OnHttpBody` keep it alive
    (`pa_service.cpp:725`, `:956`) while the relay drops its data without a word
    (`relay_local_device_service.cpp:507`), so one that goes on stays;
  - `HandshakeEnds`: `OnHttpBody` keeps a plain HTTP client alive also before any service
    has answered, so one that goes on sending its body is never dropped.
* `TargetReporter`: the main thread calls Tick until it is stopped and then goes on
  with Clean, the Kafka thread is scheduled, and its wait times out (`WaitFor(50ms)`).
  Nothing is assumed of the broker.
* Nothing is assumed of clients, targets, query threads, the reload thread or
  the answers of other services, with one exception: `RelayLocal` assumes that
  a dns question is answered (shown by `DnsLocal!QuestionsAnswered`) and that
  the kernel ends each connect in success or failure, because the relay has no
  timeout of its own for either.  `QuestionsAnswered` of the relay rests on that; what
  happens if the kernel does not is listed under the hazards and covered by no property.
* `ServerList`: requests and answers that are sent again and again get through
  in the end (udp, polled for ever); `ListsSettle` is false without, and speaks of a
  system in which servers stop changing, as `MaxChange` makes them.
* `RelayDirectory`: what is sent on a connection that stays arrives, and a relay
  sends heartbeats while it is registered (its code is not in the repository;
  the master disconnects one that does not).  Nobody is assumed to connect,
  register or stay; `LiveRelaysKnown` is about those who do.
* Where an assertion may stop the program the liveness properties read "... or
  aborted".

## 6. Proofs

`ProxyAccessProofs` proves, for any number of connections, places, channels and
any timeouts, from `ParameterAssumption` alone (the null pointer is no
connection, place or channel; the timeouts are positive and none is longer than the
idle timeout):

    Invariance      Spec => []IInv
    TypeCorrect     Spec => []TypeOK
    FuturesOwned    Spec => []FutureOwnership
    ProtocolOrder   Spec => []OneQuestionAtATime
    AccountsBalanced Spec => []AuthBalance

with `IInv == TypeOK /\ FutureOwnership /\ OneQuestionAtATime /\ AuthBalance /\
AuthDrained`.  None of its parts is inductive alone:

* that a pointer to a future is not overwritten by a second question of the
  same kind (`FutureOwnership`) needs the order of the protocol
  (`OneQuestionAtATime`): the processors that ask run only when nothing is open;
* `OneQuestionAtATime` needs `FutureOwnership`, because the result handlers
  find the connection through the future;
* `AuthBalance` needs both, and `AuthDrained`: when the kill loop destroys a
  connection, no auth future of it may hold an answer nobody has picked up.
  This is where the order of the loops of Tick matters, and the mutant that
  runs the timeouts first breaks it;
* `TypeOK` needs `AuthBalance`: the count that is given back is not zero.

The proof has one lemma for each kind of step (ask, pick up an answer, copy
data, edit a connection, destroy it), and `NextIInv` puts them together action
by action.

What becomes of each connection needs a second invariant, `JInv`, on top of the first:

    SecondInvariance      Spec => [](IInv /\ JInv)
    Placement             Spec => []ListPlacement
    NobodyOutlivesTimeout Spec => []NoExpiredSurvivor
    ChannelsOwned         Spec => []UdpChannelOwnership
    EveryAnswerServed     Spec => []AnswersServed
    ForwardedIfAuthorized Spec => []ForwardingAuthorized
    StreamKeepsOrder      Spec => []StreamInOrder
    MarkIsFinal           Spec => MarkedStaysMarked

with `JInv == ListInv /\ UdpChannelOwnership /\ \A c : ConnectionInv(c)`.  `ListInv` has
the links and the order of the lists, who is on which, what the loops of this Tick that
have ended left behind, and that there are finitely many live connections (each step
adds one at most), which is why the set of all connections need not be finite.
`ConnectionInv` speaks of one connection: which types have which question open
(`Served`), which processors a marked one may still run (`Marks`), what forwarding
requires (`Forwards`), and where each piece of the stream is (`InOrder`: `StreamInOrder`
with how far the header is for each processor, and that no header was refused before the
request line).  An action has
many effects and each of these parts looks at a few, so the proof goes by way of moves:
given `IInv`, what a step does to any one connection is one of the moves of `Move(c)`,
and what it does to the lists is one of `ListMove` (`NextBoth`).  Each part is then shown
for the moves.  `MarkIsFinal`, an action property, follows from the moves as well.

`TimeoutListProofs` proves what every loop of a Tick rests on, for any nodes and
lists: the operations keep the links of the lists (`Linked`: who stands before a
node is on its list, and so is everybody before him) and the order by age of each
list that is fed by `StampAndGrabTail`; and an ordered list of finitely many nodes, if it
is not empty, has a head that nobody on it is older than (`HeadIsOldest`).  The last is by well-founded
minimality of the sets of those ahead, so it needs no induction over data.

`RelayDirectoryProofs` instantiates these lemmas and proves, from
`DirectoryAssumption` (finitely many places, the null id is no id, a positive timeout),

    Invariance      Spec => []IInv
    ManagerAgrees   Spec => []DirectoryAgrees
    TimeoutsFound   Spec => []KnownListed

`DirectoryAgrees` alone is not inductive: that the timeout of a relay reaches the manager
needs the id of the expired entry to be set (`KnownListed`), or the manager ignores it.
`KnownListed` needs the links of the list, for the end of the loop.

`TargetReporterProofs` proves, for any pool, any number of reports and any queue of
librdkafka, from `ReporterAssumption`,

    Invariance      Spec => []IInv
    NodesStayInLine Spec => []NodesInLine
    ThreadHasEnded  Spec => []ThreadEndsFirst
    ReporterIsQueue Spec => BehavesAsQueue

`NodesInLine` says of each list which consecutive numbers it holds, so that each step
only moves a boundary; `ThreadEndsFirst` is needed in the refinement, since a report
posted after Clean emptied the lists would be a step the queue cannot make.

`DnsLocalProofs` (from `DnsAssumption`) and `RelayLocalProofs` (from
`RelayAssumption`) prove, for any askers and pools,

    DnsLocal        Spec => []PendingBacked, Spec => []RequestsKept, Spec => KeepsProtocol
    RelayLocal      Spec => []QuestionBacked, Spec => []RelayPlacement, Spec => KeepsProtocol

Both refine `Question` by a step that changes the futures of some askers from
"pending" to an answer.  That no future is answered that was not asked for needs the
invariant of the dns service (`AskersAsked`: who stands on a source list has asked).
In the relay neither of the two invariants is inductive alone; what is missing is
`QuestionInOrder`: one question goes through a dns query, then a connect, then the
report, never two at once, and the proxy knows an id only after the report.

`AuthLocalProofs` proves, from `AuthAssumption`,

    Invariance           Spec => []IInv
    ReferencesAreCounted Spec => []ReferencesCounted
    UsageIsConserved     Spec => []UsageConserved

`IInv` adds to these two and the types that the node of who holds an account is in use and
of that account, and that only who is done has used something (`HoldersServed`), and that a
free node has no usage (`FreeNodesEmpty`).  A count is the
cardinality of a set, so a step changes it by the element it adds or removes.  Usage is a
sum over a set of nodes, and the library defines the sum by recursion over subsets: that it
exists, and that it does not depend on the order, is shown without induction, by taking a
smallest subset for which it fails (`SmallestSubset`, from the well-foundedness of the
inclusion of finite sets).

`ServerListProofs` proves, from `ListAssumption`,

    Invariance            Spec => []VersionInv
    VersionsAreLists      Spec => []VersionMeansList
    ConnectionsInvariance Spec => []ConnectionsInv
    AuditFollows          Spec => []AuditConnectionsFollow
    PackedConnected       Spec => []PackedServersConnected

`VersionMeansList` alone is not inductive: the next version might be one that is in flight.
`VersionInv` adds that no version held anywhere is ahead of both the last one served and
the clock, and that each list has a server once.  `ConnectionsInv` says what the connections
are: those of the list the downloader has.  That they stay so when a new list comes is the
correctness of the loop that merges two lists, `Round`, with `LoopInv` as its invariant: the
new list up to `NewIndex` is connected and the old one from `OldIndex` on still is.  It needs
each list to have a server once, and not that the lists are sorted: unsorted lists would cost
connections that are closed and opened again, but none would be left over.  The two loops of the model
(`Packed`, `Renewed`) are recursive functions; that they are defined, and that
an invariant of a round holds after all of them, is shown by taking the first round for which
it fails (`Smallest`).

The last part of `ProxyAccessProofs` puts the proxy and the relay together, from
`ParameterAssumption` and `LocalAssumption` (the relay's timeout is positive, clients do not
ask for udp, and the pools are of any size), from which the relay's own assumption follows:

    LocalInvariance     LocalSpec => []LocalInv
    RelayServed         LocalSpec => RelaySeesProxy
    ProtocolKeptLocally LocalSpec => RelayFacts!KeepsProtocol
    DataReaches         LocalSpec => []DataReachesTarget
    ProxyKept           LocalSpec => [](FutureOwnership /\ ... /\ StreamInOrder)
    RelayKept           LocalSpec => [](Relay!QuestionBacked /\ Relay!RelayPlacement)
    MarkIsFinalLocally  LocalSpec => MarkedStaysMarked

Each service was proved about in an environment of its own invention: `ProxyAccess` with a
relay that answers as it likes, `RelayLocal` with clients that move as it assumes.  Here each
is the other's environment, and the argument is not circular because it goes step by step:
the invariants of both hold before a step, so the step of one is a step the other allows, so
both hold after it.  The proxy's theorems cannot simply be taken over, since `LocalSpec` does
not imply `Spec`: when a target closes, the relay marks the proxy's connection and answers its
question in one step, which is two in `ProxyAccess`.  What is taken over are the moves: such a
step, too, does to each connection what `Move` allows and to the lists what `ListMove` allows
(`JointStep`), and `Kept` says so of every step, so that whatever the proofs of `ProxyAccess`
drew from the moves holds here.  `LocalInv` is the two services' invariants and

* `OneTick`: the proxy's Tick never runs while the relay's does, so that an answer
  the relay's Tick gives finds the proxy between its loops;
* `AskedOnce`: the processor that asks for a relay connection does not run again, and the
  client that asked has its device: the relay, which names a connection after the client it
  is for, is asked for at most one;
* `ToldKnown`: the proxy has the id of a relay connection exactly if the relay counts it as
  told, or closing one of the two would leave the other behind;
* `Delivered`: `DataReachesTarget`, with what it needs before the connection is known:
  nothing was delivered yet, and what was is no longer than what was relayed.

`Delivered` also needs a fact about the relay alone, `SilenceIsFinal`: a relay connection that
was told of and takes no data never takes any again.  Without it the target could get a piece
after one that was dropped.  TLC checked `LocalInv` on the instance of the `local_proxy` run
before it was proved.

Model-checked only: liveness (`QuestionsAnswered`, `UsageReported`, `ListsSettle`,
`GoneRelaysForgotten`, `LiveRelaysKnown`, `EveryReportPosted`, `CleanEnds`,
`RelayConnectionsEnd`, `ClientsLeave`, `HandshakeEnds`), which is out of the prover's reach.
Every invariant, action property and refinement that a passing run checks is proved.

## 7. Findings

* `pa_assert`: a SOCKS request with an unknown address type makes `OnS5Target`
  release a future that was never acquired (`pa_service.cpp:666`), against the
  assertion of `ReleaseFuture` (`future.hpp:70`).
* `relay_data`: data of a target that speaks first reaches `PostData` before
  the proxy's Tick has picked up the answer to `CreateConnection`, which
  `pa_service.cpp:1302` says should not happen.

* `local_body`: the local relay service names itself with `RelayServerId` 0
  (`relay_local_device_service.cpp:221`), and `OnHttpBody` asserts that the id is not
  zero (`pa_service.cpp:965`): a body that comes after the connection was made stops a
  build with assertions.

Seen on the way, without a run, because nothing in the repository says otherwise: a TTL
for cached names is never applied (`dns_local_service.cpp:145`).  An IPv6 relay is put
on the V4 list of its country (`s_device_entry/local_relay_info_manager.cpp:45`), so
devices with IPv6 addresses are always refused and others may be sent to an IPv6 relay;
`OnDeviceChallenge("V6")` therefore never happens in the model either.
All relays share the turn of the slaves
(`s_relay_dispatcher_master/rdm.cpp:189`): an observer that is not connected
to all slaves may never hear of some relay, hence the premise of `LiveRelaysKnown`.
A client that goes on sending after its relay connection timed out is kept for ever while
its data is dropped, and so is a plain HTTP client that goes on sending its body though no
service ever answers (section 5).  A relay connection whose asker is gone when it connects
is on no list and ends only with its target (`relay_local_device_service.cpp:475`):
`RelayPlacement` names it as the exception, and `RelayConnectionsEnd` does not speak of it.
A header that is refused because no auth future is left reaches the target once more for
each refusal (`pa_service.cpp:946`): `StreamInOrder` counts it.
The result of `KR.Post` is ignored (`EveryReportPosted` takes a refused report as posted) and
the time in all reports is that of the start of
the Kafka thread (`s_target_collector/reporter.cpp:135`, `:116`); a topic is never put on
`ActiveTopicList`, so `RemoveAllTopics` frees none (`rdkafka_producer.cpp:255`).

## 8. Not modelled

* In the modelled services: failures of `Init`; `Clean` and the stop of
  threads, except the target collector's; byte-level parsing (the outcome of each processor is kept); udp
  payloads; the proxy's usage counters; the table of devices of the local relay;
  the rotation among the addresses of a name; disabling a server group, which happens
  only at the end; the contents of reports.
* In the proxy: a malformed credentials line that stays in `Http.TempHeaderLine` and
  spoils the line that comes behind it (`pa_service.cpp:918`, `:928`); in the model a later
  try may succeed.
* In the relay directory: the branch of the observer for `Cmd_RelayHeartbeatLost`
  (`relay/relay_info_observer.cpp:56-73`), a command nobody in this commit sends; a relay
  that registers on a second connection before the first is cleaned, which gets a second id
  (`s_relay_dispatcher_master/rdm.cpp:96`): the model has one context for each relay
  address; the limit of the pool of slaves and the check of a slave's clock
  (`rdm.cpp:155-162`).
* `LocalProxy` leaves out udp clients, so there is no liveness property of udp
  associations; nobody in this commit calls `KeepUdpChannelAlive`, and the channels of
  clients that time out stay, as listed under the hazards.
* Request mapping: nothing in this commit uses it, so no order of calls can be taken
  from the code, and it is not finished: its `Init` passes the timeout as the size
  of the pool (`request_mapping.cpp:11`).
* Local device manager: not finished.  What creates connections and channels are stubs,
  and `KeepAlive` and `DeferKill`, which would move them between its lists, are private
  and never called; its lists are always empty.
* Server id client: one request
  over one connection.  Address challenge: a stateless echo.  Relay device and
  remote relay service: handlers that are still empty.  Region lookup, wire
  protocol: no state.  Test programs.

## 9. Plan

Done, in this order: `TimeoutList`, `ProxyAccess` with its proofs, `Question`,
`RelayLocal`, `DnsLocal`, `AuthLocal`, `ServerList`, `RelayDirectory`, `TargetReporter`
with its proofs, `LocalProxy`, `TimeoutListProofs`, `RelayDirectoryProofs`,
`DnsLocalProofs`, `RelayLocalProofs`, the second invariant in `ProxyAccessProofs`,
`AuthLocalProofs`, `ServerListProofs`, the proofs about `LocalProxy`.  Next:

1. The auth and the dns service in the composition, in place of the environment that
   `LocalProxy` leaves free to answer.
2. Request mapping and the device manager, once something uses them.
