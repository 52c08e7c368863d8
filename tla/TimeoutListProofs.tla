-------------------------- MODULE TimeoutListProofs --------------------------
(***************************************************************************)
(* What the operations of an xList keep, whatever the nodes and lists are, *)
(* and why a loop that takes expired nodes from the head of an ordered     *)
(* list leaves none behind.                                                *)
(***************************************************************************)
EXTENDS TimeoutList, FiniteSetTheorems, WellFoundedInduction, TLAPS

\* The links of a list: who stands before a node is on the same list, and so is
\* everybody before him.
Linked ==
    \A n \in Node :
        /\ n \notin ahead[n]
        /\ \A m \in ahead[n] : place[m] = place[n] /\ ahead[m] \subseteq ahead[n]

LinksOK == ListTypeOK /\ Linked

\* Empty lists are linked and ordered.
LEMMA LinksInit ==
  ASSUME MaxAge \in Nat, ListInit
  PROVE  LinksOK /\ \A l : l # "none" => Ordered(l)
  BY DEF ListInit, LinksOK, ListTypeOK, Linked, Ordered, Members

\* The links stay when a node goes to the tail of a list,
LEMMA LinksGrab ==
  ASSUME LinksOK, NEW n \in Node, NEW l \in ListName, GrabTail(n, l)
  PROVE  LinksOK'
  BY DEF GrabTail, LinksOK, ListTypeOK, Linked, Members

\* is stamped when it does,
LEMMA LinksStamp ==
  ASSUME LinksOK, MaxAge \in Nat, NEW n \in Node, NEW l \in ListName, StampAndGrabTail(n, l)
  PROVE  LinksOK'
  BY DEF StampAndGrabTail, LinksOK, ListTypeOK, Linked, Members

\* leaves its list,
LEMMA LinksUnlink ==
  ASSUME LinksOK, MaxAge \in Nat, NEW n \in Node, Unlink(n)
  PROVE  LinksOK'
  BY DEF Unlink, LinksOK, ListTypeOK, Linked, Members

\* or grows older.
LEMMA LinksElapse ==
  ASSUME LinksOK, MaxAge \in Nat, NEW d \in Nat, Elapse(d)
  PROVE  LinksOK'
  BY DEF Elapse, LinksOK, ListTypeOK, Linked, Members

\* A node that is stamped when it goes to the tail, and one that goes to the tail of
\* another list, leaves every ordered list ordered.
LEMMA OrderedStamp ==
  ASSUME LinksOK, MaxAge \in Nat, NEW n \in Node, NEW l \in ListName,
         StampAndGrabTail(n, l), NEW k, Ordered(k)
  PROVE  Ordered(k)'
  BY DEF StampAndGrabTail, LinksOK, ListTypeOK, Ordered, Members

\* A node that leaves a list for another one leaves it ordered,
LEMMA OrderedGrabElsewhere ==
  ASSUME LinksOK, NEW n \in Node, NEW l \in ListName,
         GrabTail(n, l), NEW k, k # l, Ordered(k)
  PROVE  Ordered(k)'
  BY DEF GrabTail, LinksOK, ListTypeOK, Ordered, Members

\* so does one that is unlinked,
LEMMA OrderedUnlink ==
  ASSUME LinksOK, NEW n \in Node, Unlink(n), NEW k, k # "none", Ordered(k)
  PROVE  Ordered(k)'
  BY DEF Unlink, LinksOK, ListTypeOK, Ordered, Members

\* and time, which passes for all of them.
LEMMA OrderedElapse ==
  ASSUME LinksOK, MaxAge \in Nat, NEW d \in Nat, Elapse(d), NEW k, Ordered(k)
  PROVE  Ordered(k)'
  <1>1. \A a, b \in Nat : a >= b =>
           (IF a + d < MaxAge THEN a + d ELSE MaxAge) >= (IF b + d < MaxAge THEN b + d ELSE MaxAge)
    OBVIOUS
  <1> QED
    BY <1>1 DEF Elapse, LinksOK, ListTypeOK, Ordered, Members

\* A list that is not empty has a head, and when the list is ordered nobody on it is
\* older than the head.
THEOREM HeadIsOldest ==
  ASSUME LinksOK, MaxAge \in Nat, NEW l, IsFiniteSet(Members(l)), Ordered(l), NEW n \in Members(l)
  PROVE  \E h \in Node : IsHead(h, l) /\ age[h] >= age[n]
  <1> DEFINE M == Members(l)
             T == {ahead[m] : m \in M}
  <1>0. IsFiniteSet(M) /\ n \in M
    OBVIOUS
  <1>1. IsWellFoundedOn(StrictSubsetOrdering(M), SUBSET M)
    <2> HIDE DEF M
    <2> QED
      BY <1>0, FS_StrictSubsetOrderingWellFounded, FS_FiniteSubsetsOfFinite
  <1>2. T \subseteq SUBSET M /\ T # {}
    BY DEF LinksOK, ListTypeOK, Linked, Members
  <1>3. PICK x \in T : \A y \in T : <<y, x>> \notin StrictSubsetOrdering(M)
    <2> HIDE DEF T
    <2> QED
      BY <1>1, <1>2, WFMin
  <1>4. PICK h \in M : x = ahead[h]
    BY <1>3
  <1>5. ahead[h] = {}
    <2> SUFFICES ASSUME NEW m \in ahead[h] PROVE FALSE
      OBVIOUS
    <2>1. m \in M /\ ahead[m] \subseteq ahead[h] /\ m \notin ahead[m]
      BY <1>4 DEF LinksOK, ListTypeOK, Linked, Members
    <2>2. <<ahead[m], ahead[h]>> \in StrictSubsetOrdering(M)
      BY <2>1, <1>4, <1>2 DEF StrictSubsetOrdering
    <2> QED
      BY <1>3, <1>4, <2>1, <2>2
  <1>6. h \in Node /\ IsHead(h, l)
    BY <1>4, <1>5 DEF IsHead, Members
  <1>7. age[h] >= age[n]
    BY <1>4, <1>5 DEF Ordered, LinksOK, ListTypeOK, Members
  <1> QED
    BY <1>6, <1>7
=============================================================================
