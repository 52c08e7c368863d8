------------------------------ MODULE Question ------------------------------
(***************************************************************************)
(* What the services of PP3 promise each other about an xFuture            *)
(* (pp_common/future.hpp): who asks takes a place of a pool, the service   *)
(* answers it once (SetReady asserts that it did not before), and the      *)
(* asker gives the place back when it has read the answer, or earlier when *)
(* it no longer wants it.  The service keeps an xFutureHandle, which finds *)
(* nothing from then on: an answer never reaches an asker who is gone, nor *)
(* the next one at the same place.                                         *)
(***************************************************************************)
CONSTANT Asker
VARIABLE question       \* question[c]: how far the question of c is

State == {"unasked", "pending", "fail", "ok", "done"}

Init == question = [c \in Asker |-> "unasked"]

Set(c, s) == question' = [question EXCEPT ![c] = s]

\* A service may answer before the call returns.
Ask(c) == question[c] = "unasked" /\ \E s \in {"pending", "fail", "ok"} : Set(c, s)

\* What a service learns may answer several questions at once.
SetReady(D) ==
    /\ \A c \in D : question[c] = "pending"
    /\ \E s \in {"fail", "ok"} :
          question' = [c \in Asker |-> IF c \in D THEN s ELSE question[c]]

ReleaseFuture(c) == question[c] \in {"pending", "fail", "ok"} /\ Set(c, "done")

Next ==
    \/ \E c \in Asker : Ask(c) \/ ReleaseFuture(c)
    \/ \E D \in SUBSET Asker : SetReady(D)

Spec == Init /\ [][Next]_question
=============================================================================
