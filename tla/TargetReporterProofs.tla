------------------------ MODULE TargetReporterProofs ------------------------
(***************************************************************************)
(* For any pool, any number of reports and any queue of librdkafka: the    *)
(* nodes in use are one line over the five lists, the Kafka thread has     *)
(* ended when Clean deletes what it uses, and the two threads with their   *)
(* lists implement one queue.                                              *)
(***************************************************************************)
EXTENDS TargetReporter, SequenceTheorems, TLAPS

-----------------------------------------------------------------------------
(* Runs of consecutive reports under the operations on lists.              *)

\* No reports are a run from anywhere.
LEMMA RunEmpty == \A a : IsRun(<<>>, a)
  BY DEF IsRun

\* A run goes on with the next report,
LEMMA RunAppend ==
  ASSUME NEW s \in Seq(Nat), NEW a \in Nat, IsRun(s, a)
  PROVE  IsRun(Append(s, a + Len(s) + 1), a)
  <1> DEFINE t == Append(s, a + Len(s) + 1)
  <1>1. Len(t) = Len(s) + 1 /\ \A i \in 1 .. Len(s) : t[i] = s[i]
    BY AppendProperties
  <1>2. t[Len(s) + 1] = a + Len(s) + 1
    BY AppendProperties
  <1>3. \A i \in 1 .. Len(t) : i \in 1 .. Len(s) \/ i = Len(s) + 1
    BY <1>1, LenProperties
  <1> QED
    BY <1>1, <1>2, <1>3, LenProperties DEF IsRun

\* or with a run that begins where it ends,
LEMMA RunConcat ==
  ASSUME NEW s \in Seq(Nat), NEW t \in Seq(Nat), NEW a \in Nat,
         IsRun(s, a), IsRun(t, a + Len(s))
  PROVE  IsRun(s \o t, a)
  <1> DEFINE u == s \o t
  <1>1. Len(u) = Len(s) + Len(t)
    BY ConcatProperties
  <1>2. SUFFICES ASSUME NEW i \in 1 .. Len(u) PROVE u[i] = a + i
    BY DEF IsRun
  <1>3. CASE i <= Len(s)
    BY <1>1, <1>3, ConcatProperties, LenProperties DEF IsRun
  <1>4. CASE i > Len(s)
    <2>1. u[i] = t[i - Len(s)] /\ i - Len(s) \in 1 .. Len(t)
      BY <1>1, <1>4, ConcatProperties, LenProperties
    <2> QED
      BY <2>1, LenProperties DEF IsRun
  <1> QED
    BY <1>3, <1>4, LenProperties

\* and loses its first report.
LEMMA RunTail ==
  ASSUME NEW s \in Seq(Nat), NEW a \in Nat, IsRun(s, a), s # <<>>
  PROVE  Head(s) = a + 1 /\ IsRun(Tail(s), a + 1)
  <1>1. Len(s) \in Nat /\ Len(s) > 0 /\ Len(Tail(s)) = Len(s) - 1
    BY EmptySeq, LenProperties, HeadTailProperties
  <1>2. Head(s) = s[1]
    BY HeadTailProperties
  <1>3. \A i \in 1 .. Len(Tail(s)) : Tail(s)[i] = s[i + 1]
    BY HeadTailProperties
  <1> QED
    BY <1>1, <1>2, <1>3 DEF IsRun

-----------------------------------------------------------------------------
(* The invariant.                                                          *)

IInv == TypeOK /\ NodesInLine /\ ThreadEndsFirst

\* The five lists are sequences of reports.
ListsOK ==
    /\ PostCollectionList \in Seq(Nat) /\ Len(PostCollectionList) \in Nat
    /\ PendingCollectionList \in Seq(Nat) /\ Len(PendingCollectionList) \in Nat
    /\ FinishedCollectionList \in Seq(Nat) /\ Len(FinishedCollectionList) \in Nat
    /\ TempPostList \in Seq(Nat) /\ Len(TempPostList) \in Nat
    /\ TempFinishedList \in Seq(Nat) /\ Len(TempFinishedList) \in Nat

\* The lists hold reports.
LEMMA ListTypes == TypeOK => ListsOK
  BY LenProperties DEF TypeOK, ListsOK

\* NodesInLine as arithmetic: the nodes in use are those on the five lists.
LEMMA UsedAreListed ==
  ASSUME IInv, main \in {"loop", "joining"}
  PROVE  /\ used = Len(FinishedCollectionList) + Len(TempFinishedList) + Len(TempPostList)
                    + Len(PendingCollectionList) + Len(PostCollectionList)
         /\ Destroyed \in Nat /\ Finished \in Nat /\ Posted \in Nat
         /\ Taken \in Nat /\ HandedOver \in Nat
  <1>1. ListsOK
    BY ListTypes DEF IInv
  <1>2. collected \in Nat /\ used \in Nat /\ used <= collected
    BY DEF IInv, TypeOK, NodesInLine
  <1>3. collected = HandedOver + Len(PostCollectionList)
    BY DEF IInv, NodesInLine
  <1>4. Destroyed \in Nat
    BY <1>2 DEF Destroyed
  <1>5. Finished \in Nat /\ Posted \in Nat /\ Taken \in Nat /\ HandedOver \in Nat
    BY <1>1, <1>4 DEF ListsOK, Finished, Posted, Taken, HandedOver
  <1>6. used = Len(FinishedCollectionList) + Len(TempFinishedList) + Len(TempPostList)
               + Len(PendingCollectionList) + Len(PostCollectionList)
    <2> DEFINE a == Len(FinishedCollectionList)
               b == Len(TempFinishedList)
               c == Len(TempPostList)
               d == Len(PendingCollectionList)
               e == Len(PostCollectionList)
    <2>1. a \in Nat /\ b \in Nat /\ c \in Nat /\ d \in Nat /\ e \in Nat
      BY <1>1 DEF ListsOK
    <2>2. collected = ((((collected - used) + a) + b) + c) + d + e
      BY <1>3 DEF Destroyed, Finished, Posted, Taken, HandedOver
    <2> HIDE DEF a, b, c, d, e
    <2>3. used = a + b + c + d + e
      BY <1>2, <2>1, <2>2
    <2> QED
      BY <2>3 DEF a, b, c, d, e
  <1> QED
    BY <1>4, <1>5, <1>6

\* At the start all five lists are empty.
LEMMA InitIInv == Init => IInv
  <1> SUFFICES ASSUME Init PROVE IInv
    OBVIOUS
  <1>1. <<>> \in Seq(Nat) /\ Len(<<>>) = 0
    OBVIOUS
  <1>2. TypeOK /\ ThreadEndsFirst
    BY <1>1 DEF Init, TypeOK, ThreadEndsFirst
  <1>3. Destroyed = 0 /\ Finished = 0 /\ Posted = 0 /\ Taken = 0 /\ HandedOver = 0
    BY <1>1 DEF Init, Destroyed, Finished, Posted, Taken, HandedOver
  <1>4. NodesInLine
    BY <1>1, <1>3, RunEmpty, ReporterAssumption DEF Init, NodesInLine
  <1> QED
    BY <1>2, <1>4 DEF IInv

\* PostTargetCollect appends the next report to the main thread's own list.
LEMMA PostTargetCollectIInv == IInv /\ PostTargetCollect => IInv'
  <1> SUFFICES ASSUME IInv, PostTargetCollect PROVE IInv'
    OBVIOUS
  <1> USE DEF PostTargetCollect, sharedLists, threadLists, kafkaVars
  <1>1. ListsOK /\ HandedOver \in Nat
    BY UsedAreListed, ListTypes DEF IInv
  <1>2. /\ PostCollectionList' \in Seq(Nat)
        /\ Len(PostCollectionList') = Len(PostCollectionList) + 1
    BY <1>1, AppendProperties DEF IInv, TypeOK, ListsOK
  <1>3. TypeOK'
    BY <1>2 DEF IInv, TypeOK
  <1>4. /\ Destroyed' = Destroyed /\ Finished' = Finished /\ Posted' = Posted
        /\ Taken' = Taken /\ HandedOver' = HandedOver
    BY DEF IInv, TypeOK, Destroyed, Finished, Posted, Taken, HandedOver
  <1>5. IsRun(PostCollectionList', HandedOver)
    <2>1. collected = HandedOver + Len(PostCollectionList) /\ IsRun(PostCollectionList, HandedOver)
      BY DEF IInv, NodesInLine
    <2> QED
      BY <1>1, <2>1, RunAppend DEF ListsOK
  <1>6. NodesInLine'
    <2>1. /\ collected' \in Nat /\ used' <= collected' /\ used' <= PoolSize
          /\ collected' = HandedOver' + Len(PostCollectionList')
      BY <1>1, <1>2, <1>4, ReporterAssumption DEF IInv, TypeOK, NodesInLine
    <2>2. /\ IsRun(FinishedCollectionList, Destroyed') /\ IsRun(TempFinishedList, Finished')
          /\ IsRun(TempPostList, Posted') /\ IsRun(PendingCollectionList, Taken')
          /\ IsRun(PostCollectionList', HandedOver')
      BY <1>4, <1>5 DEF IInv, NodesInLine
    <2> QED
      BY <2>1, <2>2 DEF NodesInLine, IsRun
  <1> QED
    BY <1>3, <1>6 DEF IInv, ThreadEndsFirst

\* Tick hands over what was collected and frees the finished reports.
LEMMA TickIInv == IInv /\ Tick => IInv'
  <1> SUFFICES ASSUME IInv, Tick PROVE IInv'
    OBVIOUS
  <1> USE DEF Tick, sharedLists, threadLists, kafkaVars
  <1>1. /\ ListsOK
        /\ used = Len(FinishedCollectionList) + Len(TempFinishedList) + Len(TempPostList)
                  + Len(PendingCollectionList) + Len(PostCollectionList)
        /\ Destroyed \in Nat /\ Finished \in Nat /\ Posted \in Nat
        /\ Taken \in Nat /\ HandedOver \in Nat
    BY UsedAreListed, ListTypes DEF IInv
  <1>2. /\ PendingCollectionList' \in Seq(Nat)
        /\ Len(PendingCollectionList') = Len(PendingCollectionList) + Len(PostCollectionList)
        /\ <<>> \in Seq(Nat) /\ Len(<<>>) = 0
    BY <1>1, ConcatProperties DEF ListsOK
  <1>3. TypeOK'
    BY <1>1, <1>2 DEF IInv, TypeOK, ListsOK
  <1>4. /\ Destroyed' = Finished /\ Finished' = Finished /\ Posted' = Posted
        /\ Taken' = Taken /\ HandedOver' = collected
    BY <1>1, <1>2 DEF IInv, TypeOK, NodesInLine, ListsOK, Destroyed, Finished, Posted, Taken,
                      HandedOver
  <1>5. IsRun(PendingCollectionList', Taken)
    <2>1. IsRun(PendingCollectionList, Taken) /\ IsRun(PostCollectionList, HandedOver)
      BY DEF IInv, NodesInLine
    <2> QED
      BY <1>1, <2>1, RunConcat DEF HandedOver, ListsOK
  <1>6. NodesInLine'
    <2>1. used \in Nat /\ used <= collected /\ used <= PoolSize /\ collected \in Nat
      BY DEF IInv, TypeOK, NodesInLine
    <2>3. used' <= used
      BY <1>1, <2>1 DEF ListsOK
    <2>4. used' \in Nat /\ collected' = collected
      BY <1>3 DEF TypeOK
    <2>5. used' <= collected' /\ used' <= PoolSize
      BY <2>1, <2>3, <2>4, ReporterAssumption
    <2>6. collected' = HandedOver' + Len(PostCollectionList')
      BY <1>2, <1>4, <2>1
    <2>2. /\ IsRun(FinishedCollectionList', Destroyed') /\ IsRun(TempFinishedList, Finished')
          /\ IsRun(TempPostList, Posted') /\ IsRun(PendingCollectionList', Taken')
          /\ IsRun(PostCollectionList', HandedOver')
      BY <1>4, <1>5, RunEmpty DEF IInv, NodesInLine
    <2> QED
      BY <2>2, <2>5, <2>6 DEF NodesInLine, IsRun
  <1> QED
    BY <1>3, <1>6 DEF IInv, ThreadEndsFirst

\* After the thread was joined, all five lists are emptied.
LEMMA ClearResourcesIInv == IInv /\ ClearResources => IInv'
  <1> SUFFICES ASSUME IInv, ClearResources PROVE IInv'
    OBVIOUS
  <1> USE DEF ClearResources, sharedLists, threadLists, kafkaVars
  <1>1. /\ ListsOK
        /\ used = Len(FinishedCollectionList) + Len(TempFinishedList) + Len(TempPostList)
                  + Len(PendingCollectionList) + Len(PostCollectionList)
    BY UsedAreListed, ListTypes DEF IInv
  <1>2. used' \in Nat
    BY <1>1 DEF ListsOK
  <1>3. TypeOK'
    <2>1. <<>> \in Seq(Nat)
      OBVIOUS
    <2> QED
      BY <1>2, <2>1 DEF IInv, TypeOK
  <1> QED
    BY <1>3 DEF IInv, NodesInLine, ThreadEndsFirst

\* The thread posts the head of its own list.
LEMMA PostOneIInv == IInv /\ PostOne => IInv'
  <1> SUFFICES ASSUME IInv, PostOne PROVE IInv'
    OBVIOUS
  <1> USE DEF PostOne, sharedLists, threadLists, kafkaVars
  <1>1. main \in {"loop", "joining"}
    BY DEF IInv, TypeOK, ThreadEndsFirst
  <1>2. ListsOK /\ Finished \in Nat /\ Posted \in Nat
    BY <1>1, UsedAreListed, ListTypes DEF IInv
  <1>3. IsRun(TempPostList, Posted) /\ IsRun(TempFinishedList, Finished)
    BY <1>1 DEF IInv, NodesInLine
  <1>4. Head(TempPostList) = Finished + Len(TempFinishedList) + 1
    BY <1>2, <1>3, RunTail DEF ListsOK, Posted
  <1>5. IsRun(TempFinishedList', Finished)
    BY <1>2, <1>3, <1>4, RunAppend DEF ListsOK
  <1>6. IsRun(TempPostList', Posted + 1)
    BY <1>2, <1>3, RunTail DEF ListsOK
  <1>7. /\ TempPostList' \in Seq(Nat) /\ Len(TempPostList') = Len(TempPostList) - 1
        /\ TempFinishedList' \in Seq(Nat) /\ Len(TempFinishedList') = Len(TempFinishedList) + 1
        /\ Head(TempPostList) \in Nat
    BY <1>2, AppendProperties, HeadTailProperties DEF ListsOK
  <1>8. TypeOK'
    <2>1. posted' \in Seq(Nat)
      BY <1>7, AppendProperties DEF IInv, TypeOK
    <2>2. outstanding' \in SUBSET Nat
      BY <1>7 DEF IInv, TypeOK
    <2> QED
      BY <1>7, <2>1, <2>2 DEF IInv, TypeOK
  <1>9. /\ Destroyed' = Destroyed /\ Finished' = Finished
        /\ Posted' = Posted + 1 /\ Taken' = Taken /\ HandedOver' = HandedOver
    <2>1. Destroyed' = Destroyed /\ Finished' = Finished
      BY DEF Destroyed, Finished
    <2>2. Posted' = Posted + 1
      BY <1>2, <1>7, <2>1 DEF Posted, ListsOK
    <2>3. Taken' = Taken
      BY <1>2, <1>7, <2>2 DEF Taken, ListsOK
    <2> QED
      BY <2>1, <2>2, <2>3 DEF HandedOver
  <1>10. NodesInLine'
    BY <1>5, <1>6, <1>9 DEF IInv, NodesInLine, IsRun
  <1> QED
    BY <1>8, <1>10 DEF IInv, ThreadEndsFirst

\* The thread takes what was collected, and hands over what it has finished.
LEMMA SwitchListsIInv == IInv /\ SwitchLists => IInv'
  <1> SUFFICES ASSUME IInv, SwitchLists PROVE IInv'
    OBVIOUS
  <1> USE DEF SwitchLists, sharedLists, threadLists, kafkaVars
  <1>1. main \in {"loop", "joining"}
    BY DEF IInv, TypeOK, ThreadEndsFirst
  <1>2. ListsOK /\ Destroyed \in Nat /\ Finished \in Nat /\ Posted \in Nat /\ Taken \in Nat
    BY <1>1, UsedAreListed, ListTypes DEF IInv
  <1>3. /\ IsRun(FinishedCollectionList, Destroyed) /\ IsRun(TempFinishedList, Finished)
        /\ IsRun(TempPostList, Posted) /\ IsRun(PendingCollectionList, Taken)
    BY <1>1 DEF IInv, NodesInLine
  <1>4. /\ FinishedCollectionList' \in Seq(Nat)
        /\ Len(FinishedCollectionList') = Len(FinishedCollectionList) + Len(TempFinishedList)
        /\ TempPostList' \in Seq(Nat)
        /\ Len(TempPostList') = Len(TempPostList) + Len(PendingCollectionList)
        /\ <<>> \in Seq(Nat) /\ Len(<<>>) = 0
    BY <1>2, ConcatProperties DEF ListsOK
  <1>5. IsRun(FinishedCollectionList', Destroyed)
    BY <1>2, <1>3, RunConcat DEF ListsOK, Finished
  <1>6. IsRun(TempPostList', Posted)
    BY <1>2, <1>3, RunConcat DEF ListsOK, Taken
  <1>7. TypeOK'
    BY <1>4 DEF IInv, TypeOK
  <1>8. /\ Destroyed' = Destroyed /\ Finished' = Posted /\ Posted' = Posted
        /\ Taken' = HandedOver /\ HandedOver' = HandedOver
    <2>1. Destroyed' = Destroyed
      BY DEF Destroyed
    <2>2. Finished' = Posted
      BY <1>2, <1>4, <2>1 DEF Finished, Posted, ListsOK
    <2>3. Posted' = Posted
      BY <1>2, <1>4, <2>2 DEF Posted
    <2>4. Taken' = HandedOver
      BY <1>2, <1>4, <2>3 DEF Taken, HandedOver, ListsOK
    <2>5. HandedOver \in Nat
      BY <1>2 DEF HandedOver, ListsOK
    <2> QED
      BY <1>4, <2>1, <2>2, <2>3, <2>4, <2>5 DEF HandedOver
  <1>9. NodesInLine'
    <2>1. IsRun(TempFinishedList', Finished') /\ IsRun(PendingCollectionList', Taken')
      BY RunEmpty DEF IsRun
    <2> QED
      BY <1>5, <1>6, <1>8, <2>1 DEF IInv, NodesInLine, IsRun
  <1> QED
    BY <1>7, <1>9 DEF IInv, ThreadEndsFirst

\* The other steps move nobody from one list to another.
LEMMA QuietIInv ==
  ASSUME IInv,
         \/ Stop \/ FlushAndDelete \/ TestRunState \/ AllPosted \/ DeliveryReport
         \/ UNCHANGED vars
  PROVE  IInv'
  <1>1. UNCHANGED <<collected, used, sharedLists, threadLists, posted>>
    BY DEF Stop, FlushAndDelete, TestRunState, AllPosted, DeliveryReport, vars, kafkaVars
  <1>2. TypeOK'
    BY <1>1 DEF IInv, TypeOK, Stop, FlushAndDelete, TestRunState, AllPosted, DeliveryReport,
                vars, sharedLists, threadLists, kafkaVars
  <1>3. main' \in {"loop", "joining"} => main \in {"loop", "joining"}
    BY DEF Stop, FlushAndDelete, TestRunState, AllPosted, DeliveryReport, vars
  <1>4. NodesInLine'
    BY <1>1, <1>3 DEF IInv, NodesInLine, IsRun, Destroyed, Finished, Posted, Taken, HandedOver,
                      sharedLists, threadLists
  <1>5. ThreadEndsFirst'
    BY DEF IInv, ThreadEndsFirst, Stop, FlushAndDelete, TestRunState, AllPosted, DeliveryReport,
           vars, RunState
  <1> QED
    BY <1>2, <1>4, <1>5 DEF IInv

\* The invariant of KfkThreadFunc, Tick and Clean together.
THEOREM Invariance == Spec => []IInv
  <1>1. IInv /\ [Next]_vars => IInv'
    <2> SUFFICES ASSUME IInv, [Next]_vars PROVE IInv'
      OBVIOUS
    <2>1. CASE PostTargetCollect BY <2>1, PostTargetCollectIInv
    <2>2. CASE Tick BY <2>2, TickIInv
    <2>3. CASE ClearResources BY <2>3, ClearResourcesIInv
    <2>4. CASE PostOne BY <2>4, PostOneIInv
    <2>5. CASE SwitchLists BY <2>5, SwitchListsIInv
    <2>6. CASE \/ Stop \/ FlushAndDelete \/ TestRunState \/ AllPosted \/ DeliveryReport
               \/ UNCHANGED vars
      BY <2>6, QuietIInv
    <2> QED
      BY <2>1, <2>2, <2>3, <2>4, <2>5, <2>6 DEF Next, Clean, KafkaThread
  <1> QED
    BY <1>1, InitIInv, PTL DEF Spec

\* No node is lost, destroyed while the Kafka thread has it, or destroyed twice.
THEOREM NodesStayInLine == Spec => []NodesInLine
  BY Invariance, PTL DEF IInv

\* Clean deletes KfkContext and the pool after the Kafka thread has ended.
THEOREM ThreadHasEnded == Spec => []ThreadEndsFirst
  BY Invariance, PTL DEF IInv

-----------------------------------------------------------------------------
(* The refinement.                                                         *)

\* The head of two lists one after the other is that of the first.
LEMMA TailOfConcat ==
  ASSUME NEW s \in Seq(Nat), s # <<>>, NEW t \in Seq(Nat)
  PROVE  s \o t # <<>> /\ Head(s \o t) = Head(s) /\ Tail(s \o t) = Tail(s) \o t
  <1>1. Len(s) \in Nat /\ Len(s) > 0 /\ Len(t) \in Nat
    BY EmptySeq, LenProperties
  <1>2. s \o t \in Seq(Nat) /\ Len(s \o t) = Len(s) + Len(t)
    BY ConcatProperties
  <1>3. s \o t # <<>>
    BY <1>1, <1>2, EmptySeq
  <1>4. Head(s \o t) = Head(s)
    <2>1. (s \o t)[1] = s[1]
      BY <1>1, ConcatProperties
    <2> QED
      BY <1>2, <1>3, <2>1, HeadTailProperties
  <1>5. Tail(s) \in Seq(Nat) /\ Len(Tail(s)) = Len(s) - 1
    BY HeadTailProperties
  <1>6. Tail(s \o t) \in Seq(Nat) /\ Len(Tail(s \o t)) = Len(s) + Len(t) - 1
    BY <1>2, <1>3, HeadTailProperties
  <1>7. Tail(s) \o t \in Seq(Nat) /\ Len(Tail(s) \o t) = Len(s) + Len(t) - 1
    BY <1>1, <1>5, ConcatProperties
  <1>8. ASSUME NEW i \in 1 .. Len(s) + Len(t) - 1 PROVE Tail(s \o t)[i] = (Tail(s) \o t)[i]
    <2>1. Tail(s \o t)[i] = (s \o t)[i + 1]
      BY <1>2, <1>3, <1>6, HeadTailProperties
    <2>2. i + 1 \in 1 .. Len(s) + Len(t)
      BY <1>1
    <2>3. (s \o t)[i + 1] = IF i + 1 <= Len(s) THEN s[i + 1] ELSE t[i + 1 - Len(s)]
      BY <2>2, ConcatProperties
    <2>4. (Tail(s) \o t)[i] = IF i <= Len(s) - 1 THEN Tail(s)[i] ELSE t[i - (Len(s) - 1)]
      BY <1>1, <1>5, ConcatProperties
    <2>5. i <= Len(s) - 1 => Tail(s)[i] = s[i + 1]
      BY <1>1, <1>5, HeadTailProperties
    <2>6. (i + 1 <= Len(s) <=> i <= Len(s) - 1) /\ i - (Len(s) - 1) = i + 1 - Len(s)
      BY <1>1
    <2> QED
      BY <2>1, <2>3, <2>4, <2>5, <2>6
  <1>9. Tail(s \o t) = Tail(s) \o t
    BY <1>6, <1>7, <1>8, SeqEqual
  <1> QED
    BY <1>3, <1>4, <1>9

\* The line of those that wait to be posted.
Waiting == TempPostList \o PendingCollectionList \o PostCollectionList
Open == main \in {"loop", "joining"}

\* PostTargetCollect is the queue's Collect.
LEMMA CollectIsCollect == ASSUME IInv, PostTargetCollect PROVE Queue!Next
  <1>1. ListsOK /\ collected + 1 \in Nat
    BY ListTypes DEF IInv, TypeOK
  <1> DEFINE s == TempPostList \o PendingCollectionList
             t == PostCollectionList
             e == collected + 1
  <1>2. s \in Seq(Nat) /\ t \in Seq(Nat) /\ e \in Nat
    BY <1>1, ConcatProperties DEF ListsOK
  <1>3. s \o Append(t, e) = Append(s \o t, e)
    <2> HIDE DEF s, t, e
    <2>1. Append(t, e) = t \o <<e>> /\ <<e>> \in Seq(Nat) /\ s \o t \in Seq(Nat)
      BY <1>2, AppendIsConcat, ConcatProperties
    <2> QED
      BY <1>2, <2>1, AppendIsConcat, ConcatAssociative
  <1>4. Waiting = s \o t /\ Waiting' = s \o Append(t, e)
    BY DEF Waiting, PostTargetCollect, threadLists
  <1>5. Open /\ Open' /\ posted' = posted /\ e \in Report
    BY ReporterAssumption DEF PostTargetCollect, Open, kafkaVars, Report, IInv, TypeOK
  <1>6. Queue!Collect(e)
    BY <1>3, <1>4, <1>5 DEF Queue!Collect, Waiting, Open
  <1> QED
    BY <1>5, <1>6 DEF Queue!Next

\* A post of the thread is the queue's Post.
LEMMA PostOneIsPost == ASSUME IInv, PostOne PROVE Queue!Next
  <1>1. ListsOK /\ Open /\ Open'
    BY ListTypes DEF IInv, ThreadEndsFirst, TypeOK, PostOne, Open
  <1> DEFINE s == TempPostList
             t == PendingCollectionList
             u == PostCollectionList
  <1>2. s \in Seq(Nat) /\ s # <<>> /\ t \in Seq(Nat) /\ u \in Seq(Nat)
    BY <1>1 DEF ListsOK, PostOne
  <1>3. /\ (s \o t) \o u # <<>>
        /\ Head((s \o t) \o u) = Head(s)
        /\ Tail((s \o t) \o u) = (Tail(s) \o t) \o u
    <2> HIDE DEF s, t, u
    <2> DEFINE v == s \o t
    <2>1. v \in Seq(Nat)
      BY <1>2, ConcatProperties
    <2>2. v # <<>> /\ Head(v) = Head(s) /\ Tail(v) = Tail(s) \o t
      BY <1>2, TailOfConcat
    <2> HIDE DEF v
    <2>3. v \o u # <<>> /\ Head(v \o u) = Head(v) /\ Tail(v \o u) = Tail(v) \o u
      BY <1>2, <2>1, <2>2, TailOfConcat
    <2> QED
      BY <2>2, <2>3 DEF v
  <1>4. Waiting = (s \o t) \o u /\ Waiting' = (Tail(s) \o t) \o u
    BY DEF Waiting, PostOne, sharedLists
  <1>5. posted' = Append(posted, Head(s))
    BY DEF PostOne
  <1>6. Queue!Post
    BY <1>1, <1>3, <1>4, <1>5 DEF Queue!Post, Waiting, Open
  <1> QED
    BY <1>6 DEF Queue!Next

\* The exchanges move the boundaries between the lists, not who stands where.
LEMMA ExchangesAreSilent ==
  ASSUME IInv, Tick \/ SwitchLists
  PROVE  UNCHANGED Queue!queueVars
  <1>1. ListsOK
    BY ListTypes DEF IInv
  <1> DEFINE s == TempPostList
             t == PendingCollectionList
             u == PostCollectionList
  <1>2. s \in Seq(Nat) /\ t \in Seq(Nat) /\ u \in Seq(Nat) /\ <<>> \in Seq(Nat)
    BY <1>1 DEF ListsOK
  <1>3. /\ (s \o (t \o u)) \o <<>> = (s \o t) \o u
        /\ ((s \o t) \o <<>>) \o u = (s \o t) \o u
    <2> HIDE DEF s, t, u
    <2>1. s \o t \in Seq(Nat) /\ t \o u \in Seq(Nat) /\ (s \o t) \o u \in Seq(Nat)
      BY <1>2, ConcatProperties
    <2> QED
      BY <1>2, <2>1, ConcatAssociative, ConcatEmptySeq
  <1>4. Waiting' = Waiting
    <2>1. CASE Tick
      BY <1>3, <2>1 DEF Tick, Waiting, threadLists
    <2>2. CASE SwitchLists
      BY <1>3, <2>2 DEF SwitchLists, Waiting
    <2> QED
      BY <2>1, <2>2
  <1>5. posted' = posted /\ main' = main
    BY DEF Tick, SwitchLists, kafkaVars
  <1> QED
    BY <1>4, <1>5 DEF Queue!queueVars, Waiting

\* Every other step is a step of the queue, or none.
LEMMA StepIsQueueStep == ASSUME IInv, [Next]_vars PROVE [Queue!Next]_(Queue!queueVars)
  <1>1. CASE ClearResources
    <2>1. Queue!Forget
      BY <1>1 DEF ClearResources, Queue!Forget, kafkaVars
    <2> QED
      BY <2>1 DEF Queue!Next
  <1>2. CASE \/ Stop \/ FlushAndDelete \/ TestRunState \/ AllPosted \/ DeliveryReport
             \/ UNCHANGED vars
    BY <1>2 DEF Stop, FlushAndDelete, TestRunState, AllPosted, DeliveryReport, vars,
                sharedLists, threadLists, kafkaVars, Queue!queueVars
  <1> QED
    BY <1>1, <1>2, CollectIsCollect, PostOneIsPost, ExchangesAreSilent
    DEF Next, Clean, KafkaThread

\* The two threads of the reporter, with their five lists, implement one queue: what
\* PostTargetCollect took is given to KR.Post once and in that order.
THEOREM ReporterIsQueue == Spec => BehavesAsQueue
  <1>1. Init => Queue!Init
    BY ConcatEmptySeq DEF Init, Queue!Init
  <1> QED
    BY <1>1, StepIsQueueStep, Invariance, PTL DEF Spec, BehavesAsQueue, Queue!Spec
=============================================================================
