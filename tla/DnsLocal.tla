------------------------------ MODULE DnsLocal ------------------------------
(***************************************************************************)
(* xDnsLocalService (lib_component/dns_local_service): names are resolved  *)
(* by query threads that block in getaddrinfo; the main thread hands them  *)
(* a request node for each new name, keeps who asked in a list per name,   *)
(* and answers all of them when the node comes back, or when the query     *)
(* took too long.                                                          *)
(*                                                                         *)
(* Two locks are shared with the query threads, one for the queue and one  *)
(* for the finished nodes; each holds for one transfer of a list, which is *)
(* one step here.  The steps of the threads interleave with all of Tick's. *)
(*                                                                         *)
(* phase = "io" between Ticks, or the loop of Tick that is running.  An    *)
(* answer is "ok" if it has an address, whichever of the addresses of the  *)
(* name is picked, and "fail" if it has none: a caller cannot use it.      *)
(***************************************************************************)
EXTENDS Naturals, FiniteSets

CONSTANTS
    Host,           \* names
    Asker,          \* futures of the callers
    Thread,         \* query threads
    MaxRequest,     \* DNS_REQUEST_POOL_SIZE
    MaxSource,      \* DNS_SOURCE_REQUEST_POOL_SIZE
    QueryTimeout    \* DNS_QUERY_TIMEOUT_MS, in clock steps

ASSUME DnsAssumption ==
    /\ Thread \cap {"none", "queued", "finished", "batch"} = {}
    /\ MaxRequest \in Nat /\ MaxSource \in Nat /\ QueryTimeout \in Nat \ {0}

VARIABLES
    phase,
    question,   \* the callers' futures, as in Question
    CacheMap,   \* CacheMap[h]: what is known of h
    pending,    \* pending[h]: PendingSourceRequestList of h, a pool node for each
    request,    \* request[h]: where the request node of h is
    found,      \* found[h]: getaddrinfo gave an address for h
    place, ahead, age   \* CacheRequestTimeoutList and CacheTimeoutList

INSTANCE TimeoutList WITH
    Node <- Host, MaxAge <- QueryTimeout, ListName <- {"request", "cache"}

listVars == <<place, ahead, age>>
vars == <<phase, question, CacheMap, pending, request, found, listVars>>

Init ==
    /\ phase = "io"
    /\ question = [a \in Asker |-> "unasked"]
    /\ CacheMap = [h \in Host |-> "absent"]
    /\ pending = [h \in Host |-> {}]
    /\ request = [h \in Host |-> "none"]
    /\ found = [h \in Host |-> FALSE]
    /\ ListInit

-----------------------------------------------------------------------------
(* Calls.                                                                  *)

SourceFree == Cardinality({w \in Host \X Asker : w[2] \in pending[w[1]]}) < MaxSource
RequestFree == Cardinality({h \in Host : request[h] # "none"}) < MaxRequest

Ask(a) == phase = "io" /\ question[a] = "unasked"

\* A new name: a source request, a request node, a cache entry, and a thread is woken.
ResolveNewName(a, h) ==
    /\ Ask(a)
    /\ CacheMap[h] = "absent"
    /\ SourceFree /\ RequestFree
    /\ question' = [question EXCEPT ![a] = "pending"]
    /\ CacheMap' = [CacheMap EXCEPT ![h] = "unfinished"]
    /\ pending' = [pending EXCEPT ![h] = {a}]
    /\ request' = [request EXCEPT ![h] = "queued"]
    /\ StampAndGrabTail(h, "request")
    /\ UNCHANGED <<phase, found>>

\* A name that is being resolved: wait with the others.
JoinQuery(a, h) ==
    /\ Ask(a)
    /\ CacheMap[h] = "unfinished"
    /\ SourceFree
    /\ question' = [question EXCEPT ![a] = "pending"]
    /\ pending' = [pending EXCEPT ![h] = @ \cup {a}]
    /\ UNCHANGED <<phase, CacheMap, request, found, listVars>>

\* A pool is empty: ResolveDns returns false, and the caller gives up.
RefuseQuery(a, h) ==
    /\ Ask(a)
    /\ \/ CacheMap[h] = "absent" /\ ~(SourceFree /\ RequestFree)
       \/ CacheMap[h] = "unfinished" /\ ~SourceFree
    /\ question' = [question EXCEPT ![a] = "fail"]
    /\ UNCHANGED <<phase, CacheMap, pending, request, found, listVars>>

\* A name that was resolved, or whose query failed, once: no entry is ever dropped.
AnswerFromCache(a, h) ==
    /\ Ask(a)
    /\ CacheMap[h] \in {"ok", "fail"}
    /\ question' = [question EXCEPT ![a] = CacheMap[h]]
    /\ UNCHANGED <<phase, CacheMap, pending, request, found, listVars>>

\* The caller releases its future, answered or not; the source request stays.
ReleaseFuture(a) ==
    /\ phase = "io"
    /\ question[a] \in {"pending", "ok", "fail"}
    /\ question' = [question EXCEPT ![a] = "done"]
    /\ UNCHANGED <<phase, CacheMap, pending, request, found, listVars>>

-----------------------------------------------------------------------------
(* QueryThreadFunc.                                                        *)

\* A thread takes everything that is queued, once its own list is empty.
GrabRequests(t) ==
    /\ \A h \in Host : request[h] # t
    /\ \E h \in Host : request[h] = "queued"
    /\ request' = [h \in Host |-> IF request[h] = "queued" THEN t ELSE request[h]]
    /\ UNCHANGED <<phase, question, CacheMap, pending, found, listVars>>

\* Mutant: a name that getaddrinfo does not know never comes back.
ResolveSome(t, h) ==
    /\ request[h] = t
    /\ \E ok \in BOOLEAN :
          /\ found' = [found EXCEPT ![h] = ok]
          /\ request' = [request EXCEPT ![h] = IF ok THEN "finished" ELSE "none"]
    /\ UNCHANGED <<phase, question, CacheMap, pending, listVars>>

\* getaddrinfo returns, if ever, and the node goes to RequestFinishedList.
Resolve(t, h) ==
    /\ request[h] = t
    /\ \E ok \in BOOLEAN : found' = [found EXCEPT ![h] = ok]
    /\ request' = [request EXCEPT ![h] = "finished"]
    /\ UNCHANGED <<phase, question, CacheMap, pending, listVars>>

-----------------------------------------------------------------------------
(* Tick.                                                                   *)

\* DispatchResolveResults takes the finished nodes at once.
TickBegin(d) ==
    /\ phase = "io"
    /\ Elapse(d)
    /\ phase' = "dispatch"
    /\ request' = [h \in Host |-> IF request[h] = "finished" THEN "batch" ELSE request[h]]
    /\ UNCHANGED <<question, CacheMap, pending, found>>

\* Mutant: every source request is answered, though its future may be gone.
AnsweredAnyway(h, s) == [a \in Asker |-> IF a \in pending[h] THEN s ELSE question[a]]

\* Every source request of h whose future is still there gets the answer s.
Answered(h, s) ==
    [a \in Asker |-> IF a \in pending[h] /\ question[a] = "pending" THEN s ELSE question[a]]

\* Mutant: the entry stays on CacheRequestTimeoutList.
DispatchUnlisted(h) ==
    /\ phase = "dispatch"
    /\ request[h] = "batch"
    /\ request' = [request EXCEPT ![h] = "none"]
    /\ CacheMap' = [CacheMap EXCEPT ![h] = IF found[h] THEN "ok" ELSE "fail"]
    /\ question' = Answered(h, IF found[h] THEN "ok" ELSE "fail")
    /\ pending' = [pending EXCEPT ![h] = {}]
    /\ UNCHANGED <<phase, found, listVars>>

DispatchResolveResult(h) ==
    /\ phase = "dispatch"
    /\ request[h] = "batch"
    /\ request' = [request EXCEPT ![h] = "none"]
    /\ CacheMap' = [CacheMap EXCEPT ![h] = IF found[h] THEN "ok" ELSE "fail"]
    /\ StampAndGrabTail(h, "cache")
    /\ question' = Answered(h, IF found[h] THEN "ok" ELSE "fail")
    /\ pending' = [pending EXCEPT ![h] = {}]
    /\ UNCHANGED <<phase, found>>

Expired(h) == IsHead(h, "request") /\ age[h] >= QueryTimeout

\* Mutant: the names that timed out are noted, those who asked are not told.
TimeoutUntold(h) ==
    /\ phase = "timeout"
    /\ Expired(h)
    /\ CacheMap' = [CacheMap EXCEPT ![h] = "fail"]
    /\ StampAndGrabTail(h, "cache")
    /\ pending' = [pending EXCEPT ![h] = {}]
    /\ UNCHANGED <<phase, question, request, found>>

\* ProcessRequestTimeoutCacheNodes: an empty result; the query goes on.
TimeoutQuery(h) ==
    /\ phase = "timeout"
    /\ Expired(h)
    /\ CacheMap' = [CacheMap EXCEPT ![h] = "fail"]
    /\ StampAndGrabTail(h, "cache")
    /\ question' = Answered(h, "fail")
    /\ pending' = [pending EXCEPT ![h] = {}]
    /\ UNCHANGED <<phase, request, found>>

\* ProcessTimeoutCacheNodes comes last and pops CacheRequestTimeoutList too, but the
\* loop before it, whose timeout is shorter, has left it nothing.
Following(p) == IF p = "dispatch" THEN "timeout" ELSE "io"

LoopDone ==
    IF phase = "dispatch" THEN \A h \in Host : request[h] # "batch"
                          ELSE \A h \in Host : ~Expired(h)

EndLoop ==
    /\ phase # "io"
    /\ LoopDone
    /\ phase' = Following(phase)
    /\ UNCHANGED <<question, CacheMap, pending, request, found, listVars>>

-----------------------------------------------------------------------------

Call(a) ==
    \/ \E h \in Host :
          ResolveNewName(a, h) \/ JoinQuery(a, h) \/ RefuseQuery(a, h) \/ AnswerFromCache(a, h)
    \/ ReleaseFuture(a)

QueryThread(t) == GrabRequests(t) \/ \E h \in Host : Resolve(t, h)

Tick ==
    \/ \E d \in {0, 1} : TickBegin(d)
    \/ \E h \in Host : DispatchResolveResult(h) \/ TimeoutQuery(h)
    \/ EndLoop

Next == (\E a \in Asker : Call(a)) \/ (\E t \in Thread : QueryThread(t)) \/ Tick

\* The event loop calls Tick again and again and the clock advances.  Nothing is
\* assumed of the query threads: getaddrinfo may never return.
Fairness == SF_vars(TickBegin(1)) /\ WF_vars(phase # "io" /\ Tick)

Spec == Init /\ [][Next]_vars
FairSpec == Spec /\ Fairness

-----------------------------------------------------------------------------
(* Properties.                                                             *)

\* Who waits for a name is known to a query that will end: its source request is on
\* the list of one name, and that name is unfinished and on the list of the timeouts,
\* where nothing else is (dns_local_service.cpp:125, 130): so what was answered is
\* not answered again by the timeout.
PendingBacked ==
    /\ \A a \in Asker : question[a] = "pending" => \E h \in Host : a \in pending[h]
    /\ \A h \in Host :
          /\ pending[h] # {} => CacheMap[h] = "unfinished"
          /\ place[h] = "request" <=> CacheMap[h] = "unfinished"
          /\ \A g \in Host : g # h => pending[g] \cap pending[h] = {}

\* No request node is lost on its way through the threads, nor goes back to the pool
\* early: an unfinished name has its node, and a node stands for a name of the cache.
RequestsKept ==
    \A h \in Host :
        /\ CacheMap[h] = "unfinished" => request[h] # "none"
        /\ request[h] # "none" => CacheMap[h] # "absent"
        /\ request[h] = "batch" => phase = "dispatch"

\* The service keeps to the protocol of futures: nobody is answered twice, by the
\* query and the timeout, nor after having given up.
Futures == INSTANCE Question
KeepsProtocol == Futures!Spec

\* Every question is answered, even if no query ever returns.
QuestionsAnswered == \A a \in Asker : question[a] = "pending" ~> question[a] # "pending"
=============================================================================
