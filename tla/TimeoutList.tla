----------------------------- MODULE TimeoutList -----------------------------
(***************************************************************************)
(* The intrusive doubly linked lists (xel's xList over xListNode) on which *)
(* the services of PP3 keep their connections and channels.  A node can be *)
(* linked into one list at a time: GrabTail unlinks it from wherever it is *)
(* and appends it to the tail of the given list; releasing the object that *)
(* holds the node unlinks it.  The library is not part of the repository;  *)
(* it is modelled from the way src/ uses it.                               *)
(*                                                                         *)
(* The order of a list is kept as a relation, not as a sequence: ahead[n]  *)
(* is the set of the nodes that stand before n in n's list.                *)
(*                                                                         *)
(* Time is relative: age[n] is the service's LocalTicker() minus the       *)
(* TimestampMS of n, in steps of the model's clock, and stops at MaxAge,   *)
(* the largest timeout, beyond which nothing can tell two ages apart.      *)
(***************************************************************************)
EXTENDS Naturals

CONSTANTS
    Node,       \* the objects that carry a list node
    ListName,   \* the lists of the service
    MaxAge      \* bound: ages are counted up to here

VARIABLES
    place,      \* place[n]: the list n is linked into, or "none"
    ahead,      \* ahead[n]: the nodes linked before n in the same list
    age         \* age[n]: how long ago n was stamped

ListTypeOK ==
    /\ place \in [Node -> ListName \cup {"none"}]
    /\ ahead \in [Node -> SUBSET Node]
    /\ age \in [Node -> 0 .. MaxAge]

ListInit ==
    /\ place = [n \in Node |-> "none"]
    /\ ahead = [n \in Node |-> {}]
    /\ age = [n \in Node |-> 0]

Members(l) == {n \in Node : place[n] = l}

\* What PopHead looks at: the only node of l with nobody before it.
IsHead(n, l) == place[n] = l /\ ahead[n] = {}

\* List.GrabTail(n) and List.AddTail(n), n's timestamp left alone.
GrabTail(n, l) ==
    /\ place' = [place EXCEPT ![n] = l]
    /\ ahead' = [m \in Node |-> IF m = n THEN Members(l) \ {n} ELSE ahead[m] \ {n}]
    /\ UNCHANGED age

\* n.TimestampMS = LocalTicker(), then List.GrabTail(n).
StampAndGrabTail(n, l) ==
    /\ place' = [place EXCEPT ![n] = l]
    /\ ahead' = [m \in Node |-> IF m = n THEN Members(l) \ {n} ELSE ahead[m] \ {n}]
    /\ age' = [age EXCEPT ![n] = 0]

\* The destructor of a released object unlinks its node.
Unlink(n) ==
    /\ place' = [place EXCEPT ![n] = "none"]
    /\ ahead' = [m \in Node |-> IF m = n THEN {} ELSE ahead[m] \ {n}]
    /\ age' = [age EXCEPT ![n] = 0]

\* LocalTicker.Update(NowMS), d steps of the clock after the last update.
Elapse(d) ==
    /\ age' = [n \in Node |-> IF age[n] + d < MaxAge THEN age[n] + d ELSE MaxAge]
    /\ UNCHANGED <<place, ahead>>

\* A list from which PopHead(Cond) takes expired nodes loses none of them only
\* if it is ordered: who stands before another was stamped no later.
Ordered(l) ==
    \A n, m \in Members(l) :
        /\ m \in ahead[n] => age[m] >= age[n]
        /\ n # m => (m \in ahead[n] <=> n \notin ahead[m])
=============================================================================
