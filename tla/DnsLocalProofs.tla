--------------------------- MODULE DnsLocalProofs ---------------------------
(***************************************************************************)
(* For any names, askers, threads and pools: who waits for a name is known *)
(* to a query that can end, no request node is lost between the threads,   *)
(* and the service answers each future once and never after its release.   *)
(***************************************************************************)
EXTENDS DnsLocal, TLAPS

-----------------------------------------------------------------------------
(* The invariant.                                                          *)

TypeOK ==
    /\ phase \in {"io", "dispatch", "timeout"}
    /\ question \in [Asker -> {"unasked", "pending", "ok", "fail", "done"}]
    /\ CacheMap \in [Host -> {"absent", "unfinished", "ok", "fail"}]
    /\ pending \in [Host -> SUBSET Asker]
    /\ request \in [Host -> Thread \cup {"none", "queued", "finished", "batch"}]
    /\ found \in [Host -> BOOLEAN]
    /\ place \in [Host -> {"none", "request", "cache"}]

\* A source request belongs to a future that was asked for.
AskersAsked == \A h \in Host : \A a \in pending[h] : question[a] # "unasked"

IInv == TypeOK /\ AskersAsked /\ PendingBacked /\ RequestsKept

USE DnsAssumption

\* The invariant holds before the first call.
LEMMA InitIInv == Init => IInv
  BY DEF Init, ListInit, IInv, TypeOK, AskersAsked, PendingBacked, RequestsKept

\* An answer to a name reaches those who wait for it, and nobody else.
LEMMA AskerAnswered ==
  ASSUME IInv, NEW h \in Host, NEW s \in {"ok", "fail"}
  PROVE  /\ Answered(h, s) \in [Asker -> {"unasked", "pending", "ok", "fail", "done"}]
         /\ \A a \in Asker :
               /\ Answered(h, s)[a] = "unasked" <=> question[a] = "unasked"
               /\ Answered(h, s)[a] = "pending" => question[a] = "pending" /\ a \notin pending[h]
               /\ Answered(h, s)[a] # question[a] => question[a] = "pending"
                                                     /\ Answered(h, s)[a] = s
  BY DEF IInv, TypeOK, Answered

\* A call of ResolveDns, or a future that is released.
LEMMA CallKeeps == ASSUME IInv, NEW a \in Asker, Call(a) PROVE IInv'
  <1>1. ASSUME NEW h \in Host, ResolveNewName(a, h) PROVE IInv'
    <2>1. TypeOK'
      BY <1>1 DEF IInv, TypeOK, ResolveNewName, Ask, StampAndGrabTail
    <2>2. AskersAsked'
      BY <1>1 DEF IInv, TypeOK, AskersAsked, ResolveNewName, Ask
    <2>3. PendingBacked'
      BY <1>1 DEF IInv, TypeOK, AskersAsked, PendingBacked, ResolveNewName, Ask, StampAndGrabTail
    <2>4. RequestsKept'
      BY <1>1 DEF IInv, TypeOK, RequestsKept, ResolveNewName, Ask
    <2> QED
      BY <2>1, <2>2, <2>3, <2>4 DEF IInv
  <1>2. ASSUME NEW h \in Host, JoinQuery(a, h) PROVE IInv'
    <2>1. TypeOK' /\ AskersAsked' /\ RequestsKept'
      BY <1>2 DEF IInv, TypeOK, AskersAsked, RequestsKept, JoinQuery, Ask, listVars
    <2>2. PendingBacked'
      BY <1>2 DEF IInv, TypeOK, AskersAsked, PendingBacked, JoinQuery, Ask, listVars
    <2> QED
      BY <2>1, <2>2 DEF IInv
  <1>3. ASSUME NEW h \in Host, RefuseQuery(a, h) \/ AnswerFromCache(a, h)
        PROVE  IInv'
    <2>1. /\ question' \in [Asker -> {"unasked", "pending", "ok", "fail", "done"}]
          /\ \A b \in Asker : /\ question'[b] = "pending" => question[b] = "pending"
                              /\ question'[b] = "unasked" => question[b] = "unasked"
          /\ UNCHANGED <<phase, CacheMap, pending, request, found, listVars>>
      BY <1>3 DEF IInv, TypeOK, RefuseQuery, AnswerFromCache, Ask
    <2> QED
      BY <2>1 DEF IInv, TypeOK, AskersAsked, PendingBacked, RequestsKept, listVars
  <1>4. ASSUME ReleaseFuture(a) PROVE IInv'
    BY <1>4 DEF ReleaseFuture, IInv, TypeOK, AskersAsked, PendingBacked, RequestsKept, listVars
  <1> QED
    BY <1>1, <1>2, <1>3, <1>4 DEF Call

\* The threads move request nodes and know nothing of those who asked.
LEMMA QueryThreadKeeps == ASSUME IInv, NEW t \in Thread, QueryThread(t) PROVE IInv'
  <1>1. CASE GrabRequests(t)
    BY <1>1 DEF GrabRequests, IInv, TypeOK, AskersAsked, PendingBacked, RequestsKept, listVars
  <1>2. ASSUME NEW h \in Host, Resolve(t, h) PROVE IInv'
    BY <1>2 DEF Resolve, IInv, TypeOK, AskersAsked, PendingBacked, RequestsKept, listVars
  <1> QED
    BY <1>1, <1>2 DEF QueryThread

\* A result, or none in time: all of the name's source requests are gone afterwards.
LEMMA NameAnswered ==
  ASSUME IInv, NEW h \in Host, NEW s \in {"ok", "fail"}, CacheMap[h] = "unfinished" \/ pending[h] = {},
         question' = Answered(h, s), CacheMap' = [CacheMap EXCEPT ![h] = s],
         pending' = [pending EXCEPT ![h] = {}], StampAndGrabTail(h, "cache")
  PROVE  AskersAsked' /\ PendingBacked'
  <1>1. AskersAsked'
    BY AskerAnswered DEF IInv, TypeOK, AskersAsked
  <1>2. place' = [place EXCEPT ![h] = "cache"]
    BY DEF StampAndGrabTail
  <1>3. PendingBacked'
    BY <1>2, AskerAnswered DEF IInv, TypeOK, PendingBacked
  <1> QED
    BY <1>1, <1>3

\* The answers of the threads, the timeouts, the clock.
LEMMA TickKeeps == ASSUME IInv, Tick PROVE IInv'
  <1>1. ASSUME NEW d \in {0, 1}, TickBegin(d) PROVE IInv'
    BY <1>1 DEF TickBegin, Elapse, IInv, TypeOK, AskersAsked, PendingBacked, RequestsKept
  <1>2. ASSUME NEW h \in Host, DispatchResolveResult(h) PROVE IInv'
    <2> DEFINE s == IF found[h] THEN "ok" ELSE "fail"
    <2>1. CacheMap[h] = "unfinished" \/ pending[h] = {}
      BY DEF IInv, PendingBacked
    <2>2. AskersAsked' /\ PendingBacked'
      BY <1>2, <2>1, NameAnswered DEF DispatchResolveResult
    <2>3. TypeOK'
      BY <1>2, AskerAnswered DEF DispatchResolveResult, StampAndGrabTail, IInv, TypeOK
    <2>4. RequestsKept'
      BY <1>2 DEF DispatchResolveResult, IInv, TypeOK, RequestsKept
    <2> QED
      BY <2>2, <2>3, <2>4 DEF IInv
  <1>3. ASSUME NEW h \in Host, TimeoutQuery(h) PROVE IInv'
    <2>1. CacheMap[h] = "unfinished"
      BY <1>3 DEF TimeoutQuery, Expired, IsHead, IInv, PendingBacked
    <2>2. AskersAsked' /\ PendingBacked'
      BY <1>3, <2>1, NameAnswered DEF TimeoutQuery
    <2>3. TypeOK'
      BY <1>3, AskerAnswered DEF TimeoutQuery, StampAndGrabTail, IInv, TypeOK
    <2>4. RequestsKept'
      BY <1>3, <2>1 DEF TimeoutQuery, IInv, TypeOK, RequestsKept
    <2> QED
      BY <2>2, <2>3, <2>4 DEF IInv
  <1>4. CASE EndLoop
    BY <1>4 DEF EndLoop, LoopDone, Following, IInv, TypeOK, AskersAsked, PendingBacked,
                RequestsKept, listVars
  <1> QED
    BY <1>1, <1>2, <1>3, <1>4 DEF Tick

\* The invariant is inductive: every reachable state of the service has it.
THEOREM Invariance == Spec => []IInv
  <1>1. IInv /\ UNCHANGED vars => IInv'
    BY DEF vars, listVars, IInv, TypeOK, AskersAsked, PendingBacked, RequestsKept
  <1>2. IInv /\ [Next]_vars => IInv'
    BY <1>1, CallKeeps, QueryThreadKeeps, TickKeeps DEF Next
  <1> QED
    BY InitIInv, <1>2, PTL DEF Spec

\* ResolveDns, DispatchResolveResults and ProcessRequestTimeoutCacheNodes leave nobody
\* waiting for a name that no query will end.
THEOREM WaitersBacked == Spec => []PendingBacked
  BY Invariance, PTL DEF IInv

\* No request node is lost or made twice between Tick and the query threads.
THEOREM NodesKept == Spec => []RequestsKept
  BY Invariance, PTL DEF IInv

-----------------------------------------------------------------------------
(* The refinement.                                                         *)

\* A step of the service does to the futures what the protocol of futures allows.
LEMMA StepIsQuestionStep == ASSUME IInv, [Next]_vars PROVE [Futures!Next]_question
  <1>1. ASSUME NEW a \in Asker, Call(a) PROVE [Futures!Next]_question
    BY <1>1 DEF Call, ResolveNewName, JoinQuery, RefuseQuery, AnswerFromCache, ReleaseFuture, Ask,
                IInv, TypeOK, Futures!Next, Futures!Ask, Futures!Set, Futures!ReleaseFuture
  <1>2. ASSUME NEW h \in Host, NEW s \in {"ok", "fail"}, question' = Answered(h, s)
        PROVE  [Futures!Next]_question
    <2> DEFINE D == {a \in Asker : a \in pending[h] /\ question[a] = "pending"}
    <2>1. question' = [a \in Asker |-> IF a \in D THEN s ELSE question[a]]
      BY <1>2 DEF Answered
    <2>2. D \in SUBSET Asker /\ \A a \in D : question[a] = "pending"
      OBVIOUS
    <2>3. Futures!SetReady(D)
      BY <2>1, <2>2 DEF Futures!SetReady
    <2> QED
      BY <2>2, <2>3 DEF Futures!Next
  <1>3. CASE (\E t \in Thread : QueryThread(t)) \/ (\E d \in {0, 1} : TickBegin(d)) \/ EndLoop
             \/ UNCHANGED vars
    BY <1>3 DEF QueryThread, GrabRequests, Resolve, TickBegin, EndLoop, vars
  <1>4. ASSUME NEW h \in Host, DispatchResolveResult(h) \/ TimeoutQuery(h)
        PROVE  [Futures!Next]_question
    BY <1>2, <1>4 DEF DispatchResolveResult, TimeoutQuery
  <1> QED
    BY <1>1, <1>3, <1>4 DEF Next, Tick

\* Nobody is answered twice, by the query and the timeout, nor after having given up.
THEOREM ProtocolKept == Spec => KeepsProtocol
  <1>1. Init => Futures!Init
    BY DEF Init, Futures!Init
  <1> QED
    BY <1>1, StepIsQuestionStep, Invariance, PTL DEF Spec, KeepsProtocol, Futures!Spec
=============================================================================
