----------------------------- MODULE AuthLocal -----------------------------
(***************************************************************************)
(* xAuthLocalService (lib_component/auth_local_service): accounts come     *)
(* from csv files that a thread loads again when they change; the usage of *)
(* an account is counted in an audit node, which is shared by the          *)
(* connections that hold it and by the record of the account in the        *)
(* current map, and whose totals are reported from time to time.           *)
(*                                                                         *)
(* The main thread takes a new map over in the next AcquireAuthInfo: the   *)
(* records of the old map give their nodes up, those of the new one start  *)
(* without.  So an account may have several nodes, of older and newer maps.*)
(*                                                                         *)
(* Usage is one number for the six totals; the limit on bytes and the      *)
(* limit on connections work alike and are one limit here.                 *)
(***************************************************************************)
EXTENDS Naturals, FiniteSets, Functions

CONSTANTS
    Account,        \* account and password, as the client sends them
    Conn,           \* connections of the proxy; each holds an account once
    AuditNode,      \* places in LocalAuditNodePool
    Null,
    Usage,          \* what a connection may have used when it ends
    Limit,          \* BandwidthLimit and ConnectionLimit of an account; 0: none
    BlockTimeout,   \* ACCOUNT_BLOCK_TIMEOUT_MS, in clock steps
    ReportTimeout   \* LOCAL_AUDIT_NODE_IDLE_TIMEOUT_MS

ASSUME AuthAssumption ==
    /\ Null \notin Account \cup AuditNode
    /\ IsFiniteSet(Account) /\ IsFiniteSet(Conn) /\ IsFiniteSet(AuditNode)
    /\ Usage \subseteq Nat \ {0} /\ Limit \in Nat
    /\ BlockTimeout \in Nat /\ ReportTimeout \in Nat \ {0}

VARIABLES
    phase,      \* "io", "audit" while CheckAndReportLocalAudit runs, or "aborted"
    reloading,  \* the thread of ReloadAuthFile runs
    AuthMap,    \* LastReloadInfo.AuthMap: the map that was loaded last, or Null
    record,     \* AuthLocalMap
    node,       \* LocalAuditNodePool
    holder,     \* what a connection of the proxy was given
    reported,   \* reported[g]: the usage reported for the account with AuthId g
    place, ahead, age   \* LocalAuditTimeoutList

INSTANCE TimeoutList WITH
    Node <- AuditNode, MaxAge <- ReportTimeout, ListName <- {"audit"}

listVars == <<place, ahead, age>>
vars == <<phase, reloading, AuthMap, record, node, holder, reported, listVars>>

\* A row of the files: none, one that is valid, or one without a valid country code,
\* whose record is left as it was made, with the AuthId 0 and no limit.
Row == {"none", "valid", "invalid"}

AuthId == Account \cup {Null}   \* Null: the id 0

NoRecord == [row |-> "none", id |-> Null, block |-> 0]
FreeNode == [live |-> FALSE, GlobalAuthId |-> Null, ReferenceCount |-> 0, usage |-> 0]

Init ==
    /\ phase = "io"
    /\ reloading = TRUE
    /\ AuthMap = Null
    /\ record = [a \in Account |-> NoRecord]
    /\ node = [n \in AuditNode |-> FreeNode]
    /\ holder = [c \in Conn |-> [state |-> "new", id |-> Null, GlobalAuthId |-> Null,
                                 used |-> 0]]
    /\ reported = [g \in AuthId |-> 0]
    /\ ListInit

-----------------------------------------------------------------------------
(* ReloadAuthFile, in its thread.                                          *)

\* The files changed: their map replaces one that was not taken over yet.
Reload(map) ==
    /\ reloading
    /\ AuthMap' = map
    /\ UNCHANGED <<phase, reloading, record, node, holder, reported, listVars>>

\* A file that cannot be parsed ends the thread.
ReloadFails ==
    /\ reloading
    /\ reloading' = FALSE
    /\ UNCHANGED <<phase, AuthMap, record, node, holder, reported, listVars>>

-----------------------------------------------------------------------------
(* AcquireAuthInfo.                                                        *)

\* The map once a new one is taken over.
Current(a) == IF AuthMap = Null THEN record[a] ELSE [NoRecord EXCEPT !.row = AuthMap[a]]

\* Mutant: the nodes of the old map keep their references.
DroppedNone(n) == 0

\* References that the records of the old map give up.
Dropped(n) ==
    IF AuthMap # Null THEN Cardinality({a \in Account : record[a].id = n}) ELSE 0

\* CheckAndSetLocalAuthId: the node of a's record, or one from the pool.
NodeFor(a) ==
    IF Current(a).id # Null THEN {Current(a).id} ELSE {n \in AuditNode : ~node[n].live}

NewNode(a) == [FreeNode EXCEPT !.live = TRUE, !.ReferenceCount = 1,
                               !.GlobalAuthId = IF Current(a).row = "valid" THEN a ELSE Null]

\* The pool after the takeover, with node n for a's record, and held anew if it is.
Counted(a, n, held) ==
    [m \in AuditNode |->
        LET base == IF m = n /\ Current(a).id = Null THEN NewNode(a)
                    ELSE [node[m] EXCEPT !.ReferenceCount = @ - Dropped(m)]
        IN  IF m = n THEN [base EXCEPT !.ReferenceCount = @ + held] ELSE base]

\* The map after it, a's record with node n and blocked for b.
Recorded(a, n, b) ==
    [x \in Account |->
        IF x = a THEN [Current(a) EXCEPT !.id = n, !.block = b] ELSE Current(x)]

Listed(a, n) ==
    IF Current(a).id = Null THEN StampAndGrabTail(n, "audit") ELSE UNCHANGED listVars

OverLimit(a, n) ==
    /\ Current(a).row = "valid" /\ Limit # 0
    /\ Current(a).id # Null /\ node[n].usage > Limit

Acquire(c) == phase = "io" /\ holder[c].state = "new"

\* No such account.
AcquireUnknown(c, a) ==
    /\ Acquire(c)
    /\ Current(a).row = "none"
    /\ AuthMap' = Null
    /\ record' = [x \in Account |-> Current(x)]
    /\ node' = [m \in AuditNode |-> [node[m] EXCEPT !.ReferenceCount = @ - Dropped(m)]]
    /\ UNCHANGED <<phase, reloading, holder, reported, listVars>>

\* The account is blocked, or is blocked now because it used too much.
AcquireBlocked(c, a) ==
    /\ Acquire(c)
    /\ Current(a).row # "none"
    /\ \E n \in NodeFor(a) :
          /\ Current(a).block > 0 \/ OverLimit(a, n)
          /\ AuthMap' = Null
          /\ record' = Recorded(a, n, IF Current(a).block > 0 THEN Current(a).block
                                                              ELSE BlockTimeout)
          /\ node' = Counted(a, n, 0)
          /\ Listed(a, n)
    /\ UNCHANGED <<phase, reloading, holder, reported>>

AcquireGranted(c, a) ==
    /\ Acquire(c)
    /\ Current(a).row # "none"
    /\ Current(a).block = 0
    /\ \E n \in NodeFor(a) :
          /\ ~OverLimit(a, n)
          /\ AuthMap' = Null
          /\ record' = Recorded(a, n, 0)
          /\ node' = Counted(a, n, 1)
          /\ Listed(a, n)
          /\ holder' = [holder EXCEPT ![c].state = "holds", ![c].id = n,
                                         ![c].GlobalAuthId = node'[n].GlobalAuthId]
    /\ UNCHANGED <<phase, reloading, reported>>

\* X_RUNTIME_ASSERT: the pool of audit nodes is empty.
AcquireAborts(c, a) ==
    /\ Acquire(c)
    /\ Current(a).row # "none"
    /\ NodeFor(a) = {}
    /\ phase' = "aborted"
    /\ UNCHANGED <<reloading, AuthMap, record, node, holder, reported, listVars>>

-----------------------------------------------------------------------------

\* ReleaseAuthInfo: the usage of the connection is added and marks the node Dirty.
ReleaseAuthInfo(c, used) ==
    /\ phase = "io"
    /\ holder[c].state = "holds"
    /\ node' = [node EXCEPT ![holder[c].id].usage = @ + used,
                            ![holder[c].id].ReferenceCount = @ - 1]
    /\ holder' = [holder EXCEPT ![c].state = "done", ![c].id = Null, ![c].used = used]
    /\ UNCHANGED <<phase, reloading, AuthMap, record, reported, listVars>>

\* Tick; d clock steps shorten every block.
TickBegin(d) ==
    /\ phase = "io"
    /\ Elapse(d)
    /\ record' = [a \in Account |->
          [record[a] EXCEPT !.block = IF @ > d THEN @ - d ELSE 0]]
    /\ phase' = "audit"
    /\ UNCHANGED <<reloading, AuthMap, node, holder, reported>>

Expired(n) == IsHead(n, "audit") /\ age[n] >= ReportTimeout

\* A node nobody refers to.
Unused(n) == node[n].ReferenceCount = 0

\* The node after its totals were stolen.
Reported(n) == [node[n] EXCEPT !.usage = 0]

\* Mutants: a node nobody refers to goes without a report; a node is not listed again.
ReportOnlyUsed(n) ==
    /\ phase = "audit"
    /\ Expired(n)
    /\ IF Unused(n)
       THEN node' = [node EXCEPT ![n] = FreeNode] /\ Unlink(n) /\ UNCHANGED reported
       ELSE /\ node' = [node EXCEPT ![n] = Reported(n)] /\ StampAndGrabTail(n, "audit")
            /\ reported' = [reported EXCEPT ![node[n].GlobalAuthId] = @ + node[n].usage]
    /\ UNCHANGED <<phase, reloading, AuthMap, record, holder>>
ReportOnce(n) ==
    /\ phase = "audit"
    /\ Expired(n)
    /\ reported' = [reported EXCEPT ![node[n].GlobalAuthId] = @ + node[n].usage]
    /\ Unlink(n)
    /\ node' = [node EXCEPT ![n] = IF Unused(n) THEN FreeNode ELSE Reported(n)]
    /\ UNCHANGED <<phase, reloading, AuthMap, record, holder>>

\* CheckAndReportLocalAudit, for one node.
CheckAndReportLocalAudit(n) ==
    /\ phase = "audit"
    /\ Expired(n)
    /\ reported' = [reported EXCEPT ![node[n].GlobalAuthId] = @ + node[n].usage]
    /\ IF Unused(n)
       THEN node' = [node EXCEPT ![n] = FreeNode] /\ Unlink(n)
       ELSE node' = [node EXCEPT ![n] = Reported(n)] /\ StampAndGrabTail(n, "audit")
    /\ UNCHANGED <<phase, reloading, AuthMap, record, holder>>

EndLoop ==
    /\ phase = "audit"
    /\ \A n \in AuditNode : ~Expired(n)
    /\ phase' = "io"
    /\ UNCHANGED <<reloading, AuthMap, record, node, holder, reported, listVars>>

-----------------------------------------------------------------------------

Call(c) ==
    \/ \E a \in Account : AcquireUnknown(c, a) \/ AcquireBlocked(c, a)
                          \/ AcquireGranted(c, a) \/ AcquireAborts(c, a)
    \/ \E used \in Usage : ReleaseAuthInfo(c, used)

ReloadAuthFile == ReloadFails \/ \E map \in [Account -> Row] : Reload(map)

Tick ==
    \/ \E d \in {0, 1} : TickBegin(d)
    \/ \E n \in AuditNode : CheckAndReportLocalAudit(n)
    \/ EndLoop

Next == (\E c \in Conn : Call(c)) \/ ReloadAuthFile \/ Tick

\* The event loop calls Tick again and again and the clock advances.
Fairness == SF_vars(TickBegin(1)) /\ WF_vars(phase = "audit" /\ Tick)

Spec == Init /\ [][Next]_vars
FairSpec == Spec /\ Fairness

-----------------------------------------------------------------------------
(* Properties.                                                             *)

\* ReferenceCount is the number of those who hold the node, connections and records
\* of the current map, through every reload: so it never underflows, and no node goes
\* back to the pool while somebody still has its id (asserted by ReleaseAuthInfo and
\* CheckAndSetLocalAuthId).
ReferencesCounted ==
    \A n \in AuditNode :
        LET held == {c \in Conn : holder[c].id = n}
            recorded == {a \in Account : record[a].id = n}
        IN  /\ node[n].ReferenceCount = Cardinality(held) + Cardinality(recorded)
            /\ held \cup recorded # {} => node[n].live
            /\ Cardinality(recorded) <= 1

\* What was used by the connections that ended is what was reported and what still
\* waits in the nodes of the account, those of earlier maps included: nothing is lost
\* or reported twice, however often the map is replaced.
UsageConserved ==
    \A g \in AuthId :
        LET usage == [n \in AuditNode |-> node[n].usage]
            used == [c \in Conn |-> holder[c].used]
        IN  reported[g] + SumFunctionOnSet(usage,
                {n \in AuditNode : node[n].live /\ node[n].GlobalAuthId = g})
            = SumFunctionOnSet(used, {c \in Conn : holder[c].GlobalAuthId = g})

\* Usage does not wait in a node for ever, though its account may be gone, and a node
\* nobody refers to any more goes back to the pool.
UsageReported ==
    \A n \in AuditNode :
        node[n].usage > 0 \/ (node[n].live /\ Unused(n)) ~>
            (node[n].usage = 0 /\ (node[n].live => ~Unused(n))) \/ phase = "aborted"
=============================================================================
