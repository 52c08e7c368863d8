----------------------------- MODULE ReportQueue -----------------------------
(***************************************************************************)
(* What the target collector (src_xapp/s_target_collector) promises to     *)
(* those who send it targets: one queue.  What was collected is posted to  *)
(* Kafka in that order and once; nothing is skipped or overtaken; and only *)
(* the end of the process forgets what was not posted yet.                 *)
(***************************************************************************)
EXTENDS Sequences

CONSTANT Report
VARIABLES
    waiting,    \* collected, not yet posted
    posted,     \* posted, in order
    open        \* FALSE once the reporter was cleaned

queueVars == <<waiting, posted, open>>

Init == waiting = <<>> /\ posted = <<>> /\ open = TRUE

Collect(r) ==
    /\ open
    /\ waiting' = Append(waiting, r)
    /\ UNCHANGED <<posted, open>>

Post ==
    /\ open
    /\ waiting # <<>>
    /\ posted' = Append(posted, Head(waiting))
    /\ waiting' = Tail(waiting)
    /\ UNCHANGED open

Forget ==
    /\ open
    /\ open' = FALSE
    /\ waiting' = <<>>
    /\ UNCHANGED posted

Next == (\E r \in Report : Collect(r)) \/ Post \/ Forget

Spec == Init /\ [][Next]_queueVars
=============================================================================
