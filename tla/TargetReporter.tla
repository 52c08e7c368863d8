--------------------------- MODULE TargetReporter ---------------------------
(***************************************************************************)
(* xTargetCollectReporter (src_xapp/s_target_collector/reporter.cpp) and   *)
(* the Kafka producer it posts to (lib_util/rdkafka_producer.cpp).         *)
(*                                                                         *)
(* The main thread takes a node of a pool for each report that comes by    *)
(* udp and puts it on PostCollectionList; Tick hands that list over to the *)
(* Kafka thread, and destroys the nodes that came back.  The Kafka thread  *)
(* posts what it took, one node after the other, on two lists of its own,  *)
(* and exchanges both lists with the main thread under SwitchListLock.     *)
(* librdkafka delivers what it was given, or fails to, and reports it to   *)
(* the producer's poll thread.                                             *)
(*                                                                         *)
(* A report is named by its number in the order of collection, and so is   *)
(* the node that carries it.  What a thread does alone, or under the lock, *)
(* between two points where the other can see it is one action.            *)
(***************************************************************************)
EXTENDS Naturals, Sequences, FiniteSets

CONSTANTS
    PoolSize,       \* MAX_AUDIT_REPORTER_COUNT
    MaxReport,      \* bound: reports that come
    MaxOutstanding  \* what librdkafka queues before produce() refuses

ASSUME ReporterAssumption == PoolSize \in Nat /\ MaxReport \in Nat /\ MaxOutstanding \in Nat

VARIABLES
    main,       \* the main thread: in its loop, or how far Clean is
    thread,     \* the Kafka thread: where it is in KfkThreadFunc
    notified,   \* PostCollectEvent
    collected,  \* how many reports were collected
    used,       \* nodes taken from NodePool
    PostCollectionList, PendingCollectionList, FinishedCollectionList,
    TempPostList, TempFinishedList,     \* local to the Kafka thread
    posted,     \* the reports that were given to KR.Post, in order
    outstanding \* those librdkafka holds

sharedLists == <<PostCollectionList, PendingCollectionList, FinishedCollectionList>>
threadLists == <<TempPostList, TempFinishedList>>
kafkaVars == <<posted, outstanding>>
vars == <<main, thread, notified, collected, used, sharedLists, threadLists, kafkaVars>>

Report == 1 .. MaxReport

Init ==
    /\ main = "loop" /\ thread = "testing"
    /\ notified = FALSE
    /\ collected = 0 /\ used = 0
    /\ PostCollectionList = <<>> /\ PendingCollectionList = <<>>
    /\ FinishedCollectionList = <<>>
    /\ TempPostList = <<>> /\ TempFinishedList = <<>>
    /\ posted = <<>> /\ outstanding = {}

RunState == main = "loop"

-----------------------------------------------------------------------------
(* The main thread.                                                        *)

\* Without a free node the report is dropped, and has no number.
PostTargetCollect ==
    /\ main = "loop"
    /\ collected < MaxReport
    /\ used < PoolSize
    /\ collected' = collected + 1
    /\ used' = used + 1
    /\ PostCollectionList' = Append(PostCollectionList, collected + 1)
    /\ notified' = TRUE
    /\ UNCHANGED <<main, thread, PendingCollectionList, FinishedCollectionList, threadLists,
                   kafkaVars>>

\* Mutants: newer reports go before older ones; the finished nodes are not destroyed.
TickPushesFront ==
    /\ main = "loop"
    /\ PendingCollectionList' = PostCollectionList \o PendingCollectionList
    /\ PostCollectionList' = <<>>
    /\ used' = used - Len(FinishedCollectionList)
    /\ FinishedCollectionList' = <<>>
    /\ UNCHANGED <<main, thread, notified, collected, threadLists, kafkaVars>>
TickKeepsFinished ==
    /\ main = "loop"
    /\ PendingCollectionList' = PendingCollectionList \o PostCollectionList
    /\ PostCollectionList' = <<>>
    /\ UNCHANGED <<main, thread, notified, collected, used, FinishedCollectionList, threadLists,
                   kafkaVars>>

\* The exchange under the lock, then NodePool.Destroy for each finished node.
Tick ==
    /\ main = "loop"
    /\ PendingCollectionList' = PendingCollectionList \o PostCollectionList
    /\ PostCollectionList' = <<>>
    /\ used' = used - Len(FinishedCollectionList)
    /\ FinishedCollectionList' = <<>>
    /\ UNCHANGED <<main, thread, notified, collected, threadLists, kafkaVars>>

\* The service ends its loop; Clean stops RunState and waits for the thread.
Stop ==
    /\ main = "loop"
    /\ main' = "joining"
    /\ UNCHANGED <<thread, notified, collected, used, sharedLists, threadLists, kafkaVars>>

\* Mutant: the thread is not waited for.
ClearResourcesAtOnce ==
    /\ main = "joining"
    /\ used' = used - Len(PostCollectionList) - Len(PendingCollectionList)
                    - Len(FinishedCollectionList)
    /\ PostCollectionList' = <<>> /\ PendingCollectionList' = <<>>
    /\ FinishedCollectionList' = <<>>
    /\ main' = "flushing"
    /\ UNCHANGED <<thread, notified, collected, threadLists, kafkaVars>>

\* What is on the lists of the thread is neither posted nor destroyed.
ClearResources ==
    /\ main = "joining"
    /\ thread = "ended"
    /\ used' = used - Len(PostCollectionList) - Len(PendingCollectionList)
                    - Len(FinishedCollectionList)
    /\ PostCollectionList' = <<>> /\ PendingCollectionList' = <<>>
    /\ FinishedCollectionList' = <<>>
    /\ main' = "flushing"
    /\ UNCHANGED <<thread, notified, collected, threadLists, kafkaVars>>

\* xRdKfkProducer::Clean: flush() returns when nothing is left to deliver, or
\* after its timeout; what is left then is lost with the producer.
FlushAndDelete ==
    /\ main = "flushing"
    /\ main' = "stopped"
    /\ outstanding' = {}
    /\ UNCHANGED <<thread, notified, collected, used, sharedLists, threadLists, posted>>

-----------------------------------------------------------------------------
(* The Kafka thread.                                                       *)

\* while (RunState)
TestRunState ==
    /\ thread = "testing"
    /\ thread' = IF RunState THEN "posting" ELSE "ended"
    /\ UNCHANGED <<main, notified, collected, used, sharedLists, threadLists, kafkaVars>>

\* KR.Post of the next node, whose result is ignored: a report that produce()
\* refuses, because its queue is full or for another reason, is lost.
PostOne ==
    /\ thread = "posting"
    /\ TempPostList # <<>>
    /\ LET r == Head(TempPostList) IN
       /\ posted' = Append(posted, r)
       /\ \/ /\ Cardinality(outstanding) < MaxOutstanding
             /\ outstanding' = outstanding \cup {r}
          \/ UNCHANGED outstanding
       /\ TempPostList' = Tail(TempPostList)
       /\ TempFinishedList' = Append(TempFinishedList, r)
    /\ UNCHANGED <<main, thread, notified, collected, used, sharedLists>>

AllPosted ==
    /\ thread = "posting"
    /\ TempPostList = <<>>
    /\ thread' = "waiting"
    /\ UNCHANGED <<main, notified, collected, used, sharedLists, threadLists, kafkaVars>>

\* Mutant: WaitFor without a timeout.
WokenByEvent(timeout) == notified

\* PostCollectEvent.WaitFor(50ms): the event, which is reset, or the timeout.
Woken(timeout) == notified \/ timeout

\* Mutant: the finished nodes stay with the thread as well.
SwitchListsCopying ==
    /\ thread = "waiting"
    /\ \E timeout \in BOOLEAN : Woken(timeout)
    /\ notified' = FALSE
    /\ FinishedCollectionList' = FinishedCollectionList \o TempFinishedList
    /\ TempPostList' = TempPostList \o PendingCollectionList
    /\ UNCHANGED TempFinishedList
    /\ PendingCollectionList' = <<>>
    /\ thread' = "testing"
    /\ UNCHANGED <<main, collected, used, PostCollectionList, kafkaVars>>

\* The exchange under the lock.
SwitchLists ==
    /\ thread = "waiting"
    /\ \E timeout \in BOOLEAN : Woken(timeout)
    /\ notified' = FALSE
    /\ FinishedCollectionList' = FinishedCollectionList \o TempFinishedList
    /\ TempFinishedList' = <<>>
    /\ TempPostList' = TempPostList \o PendingCollectionList
    /\ PendingCollectionList' = <<>>
    /\ thread' = "testing"
    /\ UNCHANGED <<main, collected, used, PostCollectionList, kafkaVars>>

-----------------------------------------------------------------------------
(* librdkafka.                                                             *)

\* The delivery report, good or bad, of a message: dr_cb counts it.
DeliveryReport ==
    /\ main # "stopped"
    /\ \E r \in outstanding : outstanding' = outstanding \ {r}
    /\ UNCHANGED <<main, thread, notified, collected, used, sharedLists, threadLists, posted>>

-----------------------------------------------------------------------------

Clean == ClearResources \/ FlushAndDelete
KafkaThread == TestRunState \/ PostOne \/ AllPosted \/ SwitchLists
Next == PostTargetCollect \/ Tick \/ Stop \/ Clean \/ KafkaThread \/ DeliveryReport

\* The main thread calls Tick until it is told to stop and then goes on with Clean;
\* the Kafka thread is scheduled, and its wait times out.  Nothing is assumed of
\* the broker: librdkafka may deliver nothing.
Fairness == WF_vars(Tick) /\ WF_vars(Clean) /\ WF_vars(KafkaThread)

Spec == Init /\ [][Next]_vars
FairSpec == Spec /\ Fairness

-----------------------------------------------------------------------------
(* Properties.                                                             *)

TypeOK ==
    /\ main \in {"loop", "joining", "flushing", "stopped"}
    /\ thread \in {"testing", "posting", "waiting", "ended"}
    /\ notified \in BOOLEAN
    /\ collected \in Nat /\ used \in Nat
    /\ {PostCollectionList, PendingCollectionList, FinishedCollectionList,
        TempPostList, TempFinishedList, posted} \subseteq Seq(Nat)
    /\ outstanding \in SUBSET Nat

\* s is a run of consecutive reports, the first of which is a + 1.
IsRun(s, a) == \A i \in 1 .. Len(s) : s[i] = a + i

\* How many reports have come off, at the front of the line, behind each list.
Destroyed == collected - used
Finished == Destroyed + Len(FinishedCollectionList)
Posted == Finished + Len(TempFinishedList)
Taken == Posted + Len(TempPostList)
HandedOver == Taken + Len(PendingCollectionList)

\* PopHead, AddTail and GrabListTail on lists of two threads: until Clean destroys
\* them, the nodes that are in use are the newest reports, each on one list and
\* once, and read one behind the other the five lists are a single line, oldest
\* first.  No node is lost, destroyed while the thread has it, or destroyed twice.
NodesInLine ==
    main \in {"loop", "joining"} =>
        /\ used <= collected /\ used <= PoolSize
        /\ IsRun(FinishedCollectionList, Destroyed)
        /\ IsRun(TempFinishedList, Finished)
        /\ IsRun(TempPostList, Posted)
        /\ IsRun(PendingCollectionList, Taken)
        /\ IsRun(PostCollectionList, HandedOver)
        /\ collected = HandedOver + Len(PostCollectionList)

\* Clean deletes KfkContext and the pool: the Kafka thread, which uses both without
\* a lock, has ended before.
ThreadEndsFirst == main \in {"flushing", "stopped"} => thread = "ended"

\* Everything that was collected is posted once and in order, and what the end of
\* the process forgets is the newest: two threads and five lists behave as one queue.
Queue == INSTANCE ReportQueue WITH
    waiting <- IF main \in {"loop", "joining"}
               THEN TempPostList \o PendingCollectionList \o PostCollectionList ELSE <<>>,
    open <- main \in {"loop", "joining"}
BehavesAsQueue == Queue!Spec

\* Every report that was collected is posted and its node comes back to the pool,
\* unless the process ends: though Tick hands a report over only after the event
\* that was notified for it was used up, and the pool may have run dry meanwhile.
EveryReportPosted ==
    \A r \in Report :
        collected >= r ~> (Len(posted) >= r /\ Destroyed >= r) \/ ~RunState

\* Clean ends: the thread sees that it shall stop although nobody notifies it.
CleanEnds == main = "joining" ~> main = "stopped"
=============================================================================
