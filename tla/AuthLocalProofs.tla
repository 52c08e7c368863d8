--------------------------- MODULE AuthLocalProofs ---------------------------
(***************************************************************************)
(* For any accounts, connections and audit nodes, and however often the    *)
(* files are loaded again: the references to a node are counted, and no    *)
(* usage is lost or reported twice.                                        *)
(*                                                                         *)
(* The first section is about sums over finite sets, which the second      *)
(* result needs.  An induction over the subsets of a set is stated as the  *)
(* choice of a smallest one among those that are exceptions.               *)
(***************************************************************************)
EXTENDS AuthLocal, FiniteSetTheorems, TLAPS

-----------------------------------------------------------------------------
(* Sums.                                                                   *)

\* A family of subsets of a finite set has a smallest member, if it has one at all.
LEMMA SmallestSubset ==
  ASSUME NEW S, IsFiniteSet(S), NEW T, T \subseteq SUBSET S, T # {}
  PROVE  \E U \in T : \A V \in T : ~(V \subseteq U /\ V # U)
  <1>1. IsWellFoundedOn(StrictSubsetOrdering(S), SUBSET S)
    BY FS_StrictSubsetOrderingWellFounded, FS_FiniteSubsetsOfFinite
  <1>2. PICK U \in T : \A V \in T : <<V, U>> \notin StrictSubsetOrdering(S)
    BY <1>1, WFMin
  <1> QED
    BY <1>2 DEF StrictSubsetOrdering

First(s) == CHOOSE x \in s : TRUE

\* The recursion by which the library computes a sum.
IsSum(g, f, S) ==
    g = [s \in SUBSET S |-> IF s = {} THEN 0 ELSE f[First(s)] + g[s \ {First(s)}]]

SumOf(f, S) == CHOOSE g : IsSum(g, f, S)

\* The library's sum, by that recursion.
LEMMA SumIs == \A f, S : SumFunctionOnSet(f, S) = SumOf(f, S)[S]
  BY DEF SumFunctionOnSet, FoldFunctionOnSet, MapThenFoldSet, SumOf, IsSum, First

\* The element that is taken first is one of the set.
LEMMA FirstIn == \A s : s # {} => First(s) \in s
  BY DEF First

\* The recursion over a larger set agrees with the one over a smaller set.
LEMMA SumUnique ==
  ASSUME NEW f, NEW S, IsFiniteSet(S), NEW g, IsSum(g, f, S), NEW T \in SUBSET S, NEW h,
         IsSum(h, f, T)
  PROVE  \A s \in SUBSET T : g[s] = h[s]
  <1> DEFINE Bad == {s \in SUBSET T : g[s] # h[s]}
  <1> SUFFICES ASSUME Bad # {} PROVE FALSE
    OBVIOUS
  <1>1. PICK s \in Bad : \A v \in Bad : ~(v \subseteq s /\ v # s)
    <2>1. Bad \subseteq SUBSET S
      OBVIOUS
    <2> HIDE DEF Bad
    <2> QED
      BY <2>1, SmallestSubset
  <1>2. s # {}
    BY DEF IsSum
  <1>3. First(s) \in s
    BY <1>2, FirstIn
  <1>4. s \ {First(s)} \in SUBSET T /\ s \ {First(s)} \notin Bad
    BY <1>1, <1>3
  <1>5. g[s \ {First(s)}] = h[s \ {First(s)}]
    BY <1>4
  <1> QED
    BY <1>2, <1>5 DEF IsSum

\* The recursion has a solution.
LEMMA SumExists ==
  ASSUME NEW f, NEW S, IsFiniteSet(S)
  PROVE  IsSum(SumOf(f, S), f, S)
  <1> DEFINE Bad == {U \in SUBSET S : ~ \E g : IsSum(g, f, U)}
  <1> SUFFICES ASSUME Bad # {} PROVE FALSE
    BY DEF SumOf
  <1>1. PICK U \in Bad : \A V \in Bad : ~(V \subseteq U /\ V # U)
    <2>1. Bad \subseteq SUBSET S
      OBVIOUS
    <2> HIDE DEF Bad
    <2> QED
      BY <2>1, SmallestSubset
  <1>2. ASSUME NEW V \in SUBSET U, V # U PROVE IsSum(SumOf(f, V), f, V)
    BY <1>1, <1>2 DEF SumOf
  <1> DEFINE rest(s) == s \ {First(s)}
             g == [s \in SUBSET U |-> IF s = {} THEN 0 ELSE f[First(s)] + SumOf(f, rest(s))[rest(s)]]
  <1>3. ASSUME NEW V \in SUBSET U, V # U PROVE g[V] = SumOf(f, V)[V]
    <2>1. IsSum(SumOf(f, V), f, V)
      BY <1>2, <1>3
    <2>2. CASE V = {}
      <3>1. SumOf(f, V)[V] = 0
        BY <2>1, <2>2 DEF IsSum
      <3>2. g[V] = 0
        BY <2>2
      <3> QED
        BY <3>1, <3>2
    <2>3. CASE V # {}
      <3>1. First(V) \in V
        BY <2>3, FirstIn
      <3>2. rest(V) \in SUBSET V /\ rest(V) \in SUBSET U /\ rest(V) # U
        BY <3>1
      <3>3. IsSum(SumOf(f, rest(V)), f, rest(V))
        BY <1>2, <3>2
      <3>4. IsFiniteSet(V)
        BY FS_Subset
      <3>5. SumOf(f, V)[rest(V)] = SumOf(f, rest(V))[rest(V)]
        <4> HIDE DEF rest
        <4> QED
          BY <2>1, <3>2, <3>3, <3>4, SumUnique
      <3>6. SumOf(f, V)[V] = f[First(V)] + SumOf(f, V)[rest(V)]
        BY <2>1, <2>3 DEF IsSum
      <3> QED
        BY <2>3, <3>5, <3>6
    <2> QED
      BY <2>2, <2>3
  <1>4. ASSUME NEW s \in SUBSET U, s # {} PROVE g[s] = f[First(s)] + g[rest(s)]
    <2>1. rest(s) \in SUBSET U /\ rest(s) # U
      BY <1>4, FirstIn
    <2>2. g[rest(s)] = SumOf(f, rest(s))[rest(s)]
      BY <1>3, <2>1
    <2> QED
      BY <1>4, <2>2
  <1>5. IsSum(g, f, U)
    <2>1. g[{}] = 0
      OBVIOUS
    <2>2. g = [s \in SUBSET U |-> g[s]]
      OBVIOUS
    <2> HIDE DEF g
    <2>3. \A s \in SUBSET U : g[s] = IF s = {} THEN 0 ELSE f[First(s)] + g[s \ {First(s)}]
      BY <1>4, <2>1
    <2> QED
      BY <2>2, <2>3 DEF IsSum
  <1> QED
    BY <1>1, <1>5

\* The sum over the empty set.
LEMMA SumEmpty == \A f : SumFunctionOnSet(f, {}) = 0
  <1> SUFFICES ASSUME NEW f PROVE SumFunctionOnSet(f, {}) = 0
    OBVIOUS
  <1>1. IsSum(SumOf(f, {}), f, {})
    BY FS_EmptySet, SumExists
  <1> QED
    BY <1>1, SumIs DEF IsSum

\* The sum is the element that is taken first and the sum of the rest.
LEMMA SumFirst ==
  ASSUME NEW f, NEW S, IsFiniteSet(S), S # {}
  PROVE  SumFunctionOnSet(f, S) = f[First(S)] + SumFunctionOnSet(f, S \ {First(S)})
  <1> DEFINE R == S \ {First(S)}
  <1>1. R \in SUBSET S /\ IsFiniteSet(R)
    <2>1. R \subseteq S
      OBVIOUS
    <2> QED
      BY <2>1, FS_Subset
  <1>2. IsSum(SumOf(f, S), f, S) /\ IsSum(SumOf(f, R), f, R)
    <2> HIDE DEF R
    <2> QED
      BY <1>1, SumExists
  <1>3. SumOf(f, S)[R] = SumOf(f, R)[R]
    <2> HIDE DEF R
    <2> QED
      BY <1>1, <1>2, SumUnique
  <1>4. SumOf(f, S)[S] = f[First(S)] + SumOf(f, S)[R]
    BY <1>2 DEF IsSum
  <1> QED
    BY <1>3, <1>4, SumIs

\* A sum of numbers is a number.
LEMMA SumType ==
  ASSUME NEW f, NEW S, IsFiniteSet(S), \A x \in S : f[x] \in Nat
  PROVE  SumFunctionOnSet(f, S) \in Nat
  <1> DEFINE Bad == {U \in SUBSET S : SumFunctionOnSet(f, U) \notin Nat}
  <1> SUFFICES ASSUME Bad # {} PROVE FALSE
    OBVIOUS
  <1>1. PICK U \in Bad : \A V \in Bad : ~(V \subseteq U /\ V # U)
    <2>1. Bad \subseteq SUBSET S
      OBVIOUS
    <2> HIDE DEF Bad
    <2> QED
      BY <2>1, SmallestSubset
  <1>2. U # {} /\ IsFiniteSet(U)
    <2>1. SumFunctionOnSet(f, {}) \in Nat
      BY SumEmpty
    <2> QED
      BY <2>1, FS_Subset
  <1>3. First(U) \in U /\ U \ {First(U)} \notin Bad
    BY <1>1, <1>2, FirstIn
  <1>4. SumFunctionOnSet(f, U \ {First(U)}) \in Nat
    BY <1>3
  <1> QED
    BY <1>2, <1>3, <1>4, SumFirst

\* Any element can be taken first.
LEMMA SumRemove ==
  ASSUME NEW f, NEW S, IsFiniteSet(S), \A x \in S : f[x] \in Nat, NEW x \in S
  PROVE  SumFunctionOnSet(f, S) = f[x] + SumFunctionOnSet(f, S \ {x})
  <1> DEFINE Holds(U) == \A y \in U : SumFunctionOnSet(f, U) = f[y] + SumFunctionOnSet(f, U \ {y})
             Bad == {U \in SUBSET S : ~Holds(U)}
  <1> SUFFICES ASSUME Bad # {} PROVE FALSE
    OBVIOUS
  <1>1. PICK U \in Bad : \A V \in Bad : ~(V \subseteq U /\ V # U)
    <2>1. Bad \subseteq SUBSET S
      OBVIOUS
    <2> HIDE DEF Bad
    <2> QED
      BY <2>1, SmallestSubset
  <1>2. PICK y \in U : SumFunctionOnSet(f, U) # f[y] + SumFunctionOnSet(f, U \ {y})
    BY <1>1
  <1> DEFINE z == First(U)
  <1>3. z \in U /\ IsFiniteSet(U)
    BY <1>2, FirstIn, FS_Subset
  <1> HIDE DEF z
  <1>4. SumFunctionOnSet(f, U) = f[z] + SumFunctionOnSet(f, U \ {z})
    BY <1>3, SumFirst DEF z
  <1>5. y # z
    BY <1>2, <1>4
  <1>6. Holds(U \ {z}) /\ Holds(U \ {y})
    BY <1>1, <1>3
  <1>7. /\ SumFunctionOnSet(f, U \ {z}) = f[y] + SumFunctionOnSet(f, (U \ {z}) \ {y})
        /\ SumFunctionOnSet(f, U \ {y}) = f[z] + SumFunctionOnSet(f, (U \ {y}) \ {z})
    BY <1>3, <1>5, <1>6
  <1>8. (U \ {z}) \ {y} = (U \ {y}) \ {z}
    OBVIOUS
  <1>9. /\ f[y] \in Nat /\ f[z] \in Nat
        /\ SumFunctionOnSet(f, (U \ {z}) \ {y}) \in Nat
    <2>1. (U \ {z}) \ {y} \in SUBSET S /\ IsFiniteSet((U \ {z}) \ {y})
      BY FS_Subset
    <2> QED
      BY <1>3, <2>1, SumType
  <1> QED
    BY <1>2, <1>4, <1>7, <1>8, <1>9

\* Equal functions have equal sums.
LEMMA SumSame ==
  ASSUME NEW f, NEW h, NEW S, IsFiniteSet(S), \A x \in S : f[x] = h[x]
  PROVE  SumFunctionOnSet(f, S) = SumFunctionOnSet(h, S)
  <1> DEFINE Bad == {U \in SUBSET S : SumFunctionOnSet(f, U) # SumFunctionOnSet(h, U)}
  <1> SUFFICES ASSUME Bad # {} PROVE FALSE
    OBVIOUS
  <1>1. PICK U \in Bad : \A V \in Bad : ~(V \subseteq U /\ V # U)
    <2>1. Bad \subseteq SUBSET S
      OBVIOUS
    <2> HIDE DEF Bad
    <2> QED
      BY <2>1, SmallestSubset
  <1>2. U # {} /\ IsFiniteSet(U)
    BY SumEmpty, FS_Subset
  <1>3. First(U) \in U /\ U \ {First(U)} \notin Bad
    BY <1>1, <1>2, FirstIn
  <1>4. SumFunctionOnSet(f, U \ {First(U)}) = SumFunctionOnSet(h, U \ {First(U)})
    BY <1>3
  <1> QED
    BY <1>2, <1>3, <1>4, SumFirst

\* Zeros add up to zero.
LEMMA SumZero ==
  ASSUME NEW f, NEW S, IsFiniteSet(S), \A x \in S : f[x] = 0
  PROVE  SumFunctionOnSet(f, S) = 0
  <1> DEFINE Bad == {U \in SUBSET S : SumFunctionOnSet(f, U) # 0}
  <1> SUFFICES ASSUME Bad # {} PROVE FALSE
    OBVIOUS
  <1>1. PICK U \in Bad : \A V \in Bad : ~(V \subseteq U /\ V # U)
    <2>1. Bad \subseteq SUBSET S
      OBVIOUS
    <2> HIDE DEF Bad
    <2> QED
      BY <2>1, SmallestSubset
  <1>2. U # {} /\ IsFiniteSet(U)
    BY SumEmpty, FS_Subset
  <1>3. First(U) \in U /\ U \ {First(U)} \notin Bad
    BY <1>1, <1>2, FirstIn
  <1>4. SumFunctionOnSet(f, U \ {First(U)}) = 0
    BY <1>3
  <1> QED
    BY <1>2, <1>3, <1>4, SumFirst

\* Two sums that differ at most in what x adds to them.
Part(f, S, x) == IF x \in S THEN f[x] ELSE 0

\* The difference between two such sums.
LEMMA SumChange ==
  ASSUME NEW f, NEW h, NEW S, NEW T, IsFiniteSet(S), IsFiniteSet(T), NEW x,
         \A y \in S : f[y] \in Nat, \A y \in T : h[y] \in Nat,
         S \ {x} = T \ {x}, \A y \in S \ {x} : f[y] = h[y]
  PROVE  /\ SumFunctionOnSet(f, S) \in Nat /\ SumFunctionOnSet(h, T) \in Nat
         /\ SumFunctionOnSet(f, S) + Part(h, T, x) = SumFunctionOnSet(h, T) + Part(f, S, x)
  <1> DEFINE R == S \ {x}
  <1>1. IsFiniteSet(R) /\ (\A y \in R : f[y] \in Nat)
    BY FS_Subset
  <1>2. SumFunctionOnSet(f, R) \in Nat /\ SumFunctionOnSet(f, R) = SumFunctionOnSet(h, R)
    <2>1. \A y \in R : f[y] = h[y]
      OBVIOUS
    <2> HIDE DEF R
    <2> QED
      BY <1>1, <2>1, SumType, SumSame
  <1>3. SumFunctionOnSet(f, S) = Part(f, S, x) + SumFunctionOnSet(f, R) /\ Part(f, S, x) \in Nat
    <2>1. CASE x \in S
      BY <2>1, SumRemove DEF Part
    <2>2. CASE x \notin S
      <3>1. R = S
        BY <2>2
      <3>2. Part(f, S, x) = 0
        BY <2>2 DEF Part
      <3> HIDE DEF R
      <3> QED
        BY <1>2, <3>1, <3>2
    <2> QED
      BY <2>1, <2>2
  <1>4. SumFunctionOnSet(h, T) = Part(h, T, x) + SumFunctionOnSet(h, R) /\ Part(h, T, x) \in Nat
    <2>1. R = T \ {x}
      OBVIOUS
    <2> HIDE DEF R
    <2>2. CASE x \in T
      BY <2>1, <2>2, SumRemove DEF Part
    <2>3. CASE x \notin T
      <3>1. R = T
        BY <2>1, <2>3
      <3> QED
        BY <1>2, <2>3, <3>1 DEF Part
    <2> QED
      BY <2>2, <2>3
  <1> HIDE DEF R
  <1> QED
    BY <1>2, <1>3, <1>4

-----------------------------------------------------------------------------
(* The invariant.                                                          *)

RecordType == [row : Row, id : AuditNode \cup {Null}, block : Nat]
NodeType == [live : BOOLEAN, GlobalAuthId : AuthId, ReferenceCount : Nat, usage : Nat]
HolderType == [state : {"new", "holds", "done"}, id : AuditNode \cup {Null},
               GlobalAuthId : AuthId, used : Nat]

TypeOK ==
    /\ AuthMap \in [Account -> Row] \cup {Null}
    /\ record \in [Account -> RecordType]
    /\ node \in [AuditNode -> NodeType]
    /\ holder \in [Conn -> HolderType]
    /\ reported \in [AuthId -> Nat]

\* A connection has an id as long as it holds one, of a node that counts for its account.
HolderServed(c) ==
    /\ holder[c].state = "holds" <=> holder[c].id # Null
    /\ holder[c].state # "done" => holder[c].used = 0
    /\ holder[c].id # Null => /\ node[holder[c].id].live
                              /\ node[holder[c].id].GlobalAuthId = holder[c].GlobalAuthId

HoldersServed == \A c \in Conn : HolderServed(c)

\* What a place of the pool counts starts from nothing.
FreeNodesEmpty == \A n \in AuditNode : ~node[n].live => node[n].usage = 0

IInv == TypeOK /\ HoldersServed /\ FreeNodesEmpty /\ ReferencesCounted /\ UsageConserved

USE AuthAssumption

HeldBy(n) == {c \in Conn : holder[c].id = n}
RecordOf(n) == {a \in Account : record[a].id = n}
CurrentOf(n) == {a \in Account : Current(a).id = n}

\* ReferencesCounted, node by node.
LEMMA CountedIff ==
  ReferencesCounted <=>
    \A n \in AuditNode :
        /\ node[n].ReferenceCount = Cardinality(HeldBy(n)) + Cardinality(RecordOf(n))
        /\ HeldBy(n) \cup RecordOf(n) # {} => node[n].live
        /\ Cardinality(RecordOf(n)) <= 1
  BY DEF ReferencesCounted, HeldBy, RecordOf

\* And in the next state.
LEMMA CountedIffNext ==
  ReferencesCounted' <=>
    \A n \in AuditNode :
        /\ node'[n].ReferenceCount = Cardinality(HeldBy(n)') + Cardinality(RecordOf(n)')
        /\ HeldBy(n)' \cup RecordOf(n)' # {} => node'[n].live
        /\ Cardinality(RecordOf(n)') <= 1
  BY DEF ReferencesCounted, HeldBy, RecordOf

\* The sets that are counted are finite.
LEMMA CountsFinite ==
  ASSUME NEW n
  PROVE  /\ IsFiniteSet(HeldBy(n)) /\ IsFiniteSet(RecordOf(n)) /\ IsFiniteSet(CurrentOf(n))
         /\ Cardinality(HeldBy(n)) \in Nat /\ Cardinality(RecordOf(n)) \in Nat
         /\ Cardinality(CurrentOf(n)) \in Nat
  <1>1. HeldBy(n) \in SUBSET Conn /\ RecordOf(n) \in SUBSET Account
        /\ CurrentOf(n) \in SUBSET Account
    BY DEF HeldBy, RecordOf, CurrentOf
  <1>2. IsFiniteSet(HeldBy(n)) /\ IsFiniteSet(RecordOf(n)) /\ IsFiniteSet(CurrentOf(n))
    BY <1>1, FS_Subset
  <1> QED
    BY <1>2, FS_CardinalityType

-----------------------------------------------------------------------------
(* Usage.                                                                  *)

\* What node n, and connection c, add to the sums of g.
Carries(n, g) ==
    IF n \in AuditNode /\ node[n].live /\ node[n].GlobalAuthId = g THEN node[n].usage ELSE 0
UsedBy(c, g) == IF c \in Conn /\ holder[c].GlobalAuthId = g THEN holder[c].used ELSE 0

SumOfNodes(g) ==
    SumFunctionOnSet([n \in AuditNode |-> node[n].usage],
                     {n \in AuditNode : node[n].live /\ node[n].GlobalAuthId = g})
SumOfConns(g) ==
    SumFunctionOnSet([c \in Conn |-> holder[c].used],
                     {c \in Conn : holder[c].GlobalAuthId = g})

\* A step that changes one node changes the sum by what that node carries.
LEMMA NodeSumStep ==
  ASSUME NEW g, TypeOK, TypeOK', NEW n,
         \A m \in AuditNode \ {n} : /\ node'[m].live = node[m].live
                                    /\ node'[m].GlobalAuthId = node[m].GlobalAuthId
                                    /\ node'[m].usage = node[m].usage
  PROVE  /\ SumOfNodes(g) \in Nat /\ SumOfNodes(g)' \in Nat
         /\ SumOfNodes(g) + Carries(n, g)' = SumOfNodes(g)' + Carries(n, g)
  <1> DEFINE f == [m \in AuditNode |-> node[m].usage]
             h == [m \in AuditNode |-> node'[m].usage]
             S == {m \in AuditNode : node[m].live /\ node[m].GlobalAuthId = g}
             T == {m \in AuditNode : node'[m].live /\ node'[m].GlobalAuthId = g}
  <1>1. S \in SUBSET AuditNode /\ T \in SUBSET AuditNode
    OBVIOUS
  <1>2. IsFiniteSet(S) /\ IsFiniteSet(T)
    BY <1>1, FS_Subset
  <1>3. (\A m \in S : f[m] \in Nat) /\ (\A m \in T : h[m] \in Nat)
    BY DEF TypeOK, NodeType
  <1>4. S \ {n} = T \ {n}
    OBVIOUS
  <1>5. \A m \in S \ {n} : f[m] = h[m]
    OBVIOUS
  <1>6. Carries(n, g) = Part(f, S, n) /\ Carries(n, g)' = Part(h, T, n)
    BY DEF Carries, Part
  <1>7. SumOfNodes(g) = SumFunctionOnSet(f, S) /\ SumOfNodes(g)' = SumFunctionOnSet(h, T)
    BY DEF SumOfNodes
  <1> HIDE DEF f, h, S, T
  <1> QED
    BY <1>2, <1>3, <1>4, <1>5, <1>6, <1>7, SumChange

\* The same for the connections.
LEMMA ConnSumStep ==
  ASSUME NEW g, TypeOK, TypeOK', NEW c,
         \A d \in Conn \ {c} : /\ holder'[d].GlobalAuthId = holder[d].GlobalAuthId
                               /\ holder'[d].used = holder[d].used
  PROVE  /\ SumOfConns(g) \in Nat /\ SumOfConns(g)' \in Nat
         /\ SumOfConns(g) + UsedBy(c, g)' = SumOfConns(g)' + UsedBy(c, g)
  <1> DEFINE f == [d \in Conn |-> holder[d].used]
             h == [d \in Conn |-> holder'[d].used]
             S == {d \in Conn : holder[d].GlobalAuthId = g}
             T == {d \in Conn : holder'[d].GlobalAuthId = g}
  <1>1. S \in SUBSET Conn /\ T \in SUBSET Conn
    OBVIOUS
  <1>2. IsFiniteSet(S) /\ IsFiniteSet(T)
    BY <1>1, FS_Subset
  <1>3. (\A d \in S : f[d] \in Nat) /\ (\A d \in T : h[d] \in Nat)
    BY DEF TypeOK, HolderType
  <1>4. S \ {c} = T \ {c}
    OBVIOUS
  <1>5. \A d \in S \ {c} : f[d] = h[d]
    OBVIOUS
  <1>6. UsedBy(c, g) = Part(f, S, c) /\ UsedBy(c, g)' = Part(h, T, c)
    BY DEF UsedBy, Part
  <1>7. SumOfConns(g) = SumFunctionOnSet(f, S) /\ SumOfConns(g)' = SumFunctionOnSet(h, T)
    BY DEF SumOfConns
  <1> HIDE DEF f, h, S, T
  <1> QED
    BY <1>2, <1>3, <1>4, <1>5, <1>6, <1>7, SumChange

\* A step of one node and one connection conserves the usage if it moves it between
\* that node, that connection and the reports.
LEMMA UsageStep ==
  ASSUME TypeOK, TypeOK', UsageConserved, NEW n, NEW c,
         \A m \in AuditNode \ {n} : /\ node'[m].live = node[m].live
                                    /\ node'[m].GlobalAuthId = node[m].GlobalAuthId
                                    /\ node'[m].usage = node[m].usage,
         \A d \in Conn \ {c} : /\ holder'[d].GlobalAuthId = holder[d].GlobalAuthId
                               /\ holder'[d].used = holder[d].used,
         \A g \in AuthId :
            reported'[g] + Carries(n, g)' + UsedBy(c, g)
            = reported[g] + Carries(n, g) + UsedBy(c, g)'
  PROVE  UsageConserved'
  <1> SUFFICES ASSUME NEW g \in AuthId
               PROVE  reported'[g] + SumOfNodes(g)' = SumOfConns(g)'
    BY DEF UsageConserved, SumOfNodes, SumOfConns
  <1>1. reported[g] + SumOfNodes(g) = SumOfConns(g)
    BY DEF UsageConserved, SumOfNodes, SumOfConns
  <1>2. /\ SumOfNodes(g) \in Nat /\ SumOfNodes(g)' \in Nat
        /\ SumOfNodes(g) + Carries(n, g)' = SumOfNodes(g)' + Carries(n, g)
    BY NodeSumStep
  <1>3. /\ SumOfConns(g) \in Nat /\ SumOfConns(g)' \in Nat
        /\ SumOfConns(g) + UsedBy(c, g)' = SumOfConns(g)' + UsedBy(c, g)
    BY ConnSumStep
  <1>4. reported[g] \in Nat /\ reported'[g] \in Nat
    BY DEF TypeOK
  <1>5. Carries(n, g) \in Nat /\ Carries(n, g)' \in Nat
    BY DEF TypeOK, NodeType, Carries
  <1>6. UsedBy(c, g) \in Nat /\ UsedBy(c, g)' \in Nat
    BY DEF TypeOK, HolderType, UsedBy
  <1> QED
    BY <1>1, <1>2, <1>3, <1>4, <1>5, <1>6

-----------------------------------------------------------------------------
(* The steps.                                                              *)

\* The invariant holds at the start.
LEMMA InitIInv == Init => IInv
  <1> SUFFICES ASSUME Init PROVE IInv
    OBVIOUS
  <1>1. TypeOK
    <2>1. NoRecord \in RecordType
      BY DEF NoRecord, RecordType, Row
    <2>2. FreeNode \in NodeType
      BY DEF FreeNode, NodeType, AuthId
    <2>3. [state |-> "new", id |-> Null, GlobalAuthId |-> Null, used |-> 0] \in HolderType
      BY DEF HolderType, AuthId
    <2> QED
      BY <2>1, <2>2, <2>3 DEF Init, TypeOK
  <1>2. HoldersServed /\ FreeNodesEmpty
    BY DEF Init, HoldersServed, HolderServed, FreeNodesEmpty, FreeNode
  <1>3. ReferencesCounted
    <2>1. \A n \in AuditNode :
             HeldBy(n) = {} /\ RecordOf(n) = {} /\ node[n].ReferenceCount = 0
      BY DEF Init, HeldBy, RecordOf, FreeNode, NoRecord
    <2>2. Cardinality({}) = 0
      BY FS_EmptySet
    <2>3. \A n \in AuditNode :
             /\ node[n].ReferenceCount = Cardinality(HeldBy(n)) + Cardinality(RecordOf(n))
             /\ Cardinality(RecordOf(n)) <= 1
      BY <2>1, <2>2
    <2> QED
      BY <2>1, <2>3, CountedIff
  <1>4. UsageConserved
    <2> SUFFICES ASSUME NEW g \in AuthId PROVE reported[g] + SumOfNodes(g) = SumOfConns(g)
      BY DEF UsageConserved, SumOfNodes, SumOfConns
    <2> DEFINE S == {n \in AuditNode : node[n].live /\ node[n].GlobalAuthId = g}
               T == {c \in Conn : holder[c].GlobalAuthId = g}
               h == [c \in Conn |-> holder[c].used]
    <2>1. S = {}
      BY DEF Init, FreeNode
    <2>2. SumOfNodes(g) = 0
      BY <2>1, SumEmpty DEF SumOfNodes
    <2>3. T \in SUBSET Conn /\ (\A c \in T : h[c] = 0)
      BY DEF Init
    <2>4. IsFiniteSet(T)
      BY <2>3, FS_Subset
    <2>5. SumOfConns(g) = SumFunctionOnSet(h, T)
      BY DEF SumOfConns
    <2> HIDE DEF h, T
    <2>6. SumOfConns(g) = 0
      BY <2>3, <2>4, <2>5, SumZero
    <2>7. reported[g] = 0
      BY DEF Init
    <2> QED
      BY <2>2, <2>6, <2>7
  <1> QED
    BY <1>1, <1>2, <1>3, <1>4 DEF IInv

\* A step that leaves the nodes, the connections and the ids in the records alone.
LEMMA QuietKeeps ==
  ASSUME IInv, UNCHANGED <<node, holder, reported>>,
         AuthMap' \in [Account -> Row] \cup {Null},
         record' \in [Account -> RecordType], \A a \in Account : record'[a].id = record[a].id
  PROVE  IInv'
  <1>1. TypeOK'
    BY DEF IInv, TypeOK
  <1>2. HoldersServed' /\ FreeNodesEmpty'
    BY DEF IInv, HoldersServed, HolderServed, FreeNodesEmpty
  <1>3. \A n : HeldBy(n)' = HeldBy(n) /\ RecordOf(n)' = RecordOf(n)
    BY DEF HeldBy, RecordOf
  <1>4. ReferencesCounted'
    BY <1>3, CountedIff, CountedIffNext DEF IInv
  <1>5. UsageConserved'
    BY DEF IInv, UsageConserved
  <1> QED
    BY <1>1, <1>2, <1>4, <1>5 DEF IInv

\* The references left when the records of the old map gave theirs up.
Left(n) == node[n].ReferenceCount - Dropped(n)

\* They are those of the connections and of the current map.
LEMMA LeftCounted ==
  ASSUME IInv, NEW n \in AuditNode
  PROVE  /\ Left(n) = Cardinality(HeldBy(n)) + Cardinality(CurrentOf(n))
         /\ CurrentOf(n) \in SUBSET RecordOf(n)
         /\ Cardinality(CurrentOf(n)) <= 1
  <1>1. /\ node[n].ReferenceCount = Cardinality(HeldBy(n)) + Cardinality(RecordOf(n))
        /\ Cardinality(RecordOf(n)) <= 1
    BY CountedIff DEF IInv
  <1>2. CASE AuthMap = Null
    <2>1. CurrentOf(n) = RecordOf(n)
      BY <1>2 DEF CurrentOf, RecordOf, Current
    <2>2. Dropped(n) = 0
      BY <1>2 DEF Dropped
    <2> QED
      BY <1>1, <2>1, <2>2, CountsFinite DEF Left
  <1>3. CASE AuthMap # Null
    <2>1. CurrentOf(n) = {}
      BY <1>3 DEF CurrentOf, Current, NoRecord
    <2>2. Dropped(n) = Cardinality(RecordOf(n))
      BY <1>3 DEF Dropped, RecordOf
    <2>3. Cardinality(CurrentOf(n)) = 0
      BY <2>1, FS_EmptySet
    <2> QED
      BY <1>1, <2>1, <2>2, <2>3, CountsFinite DEF Left
  <1> QED
    BY <1>2, <1>3

\* The record of an account in the current map.
LEMMA CurrentType == ASSUME TypeOK, NEW a \in Account PROVE Current(a) \in RecordType
  <1>1. NoRecord \in RecordType
    BY DEF NoRecord, RecordType, Row
  <1>2. CASE AuthMap = Null
    BY <1>2 DEF TypeOK, Current
  <1>3. CASE AuthMap # Null
    <2>1. AuthMap[a] \in Row
      BY <1>3 DEF TypeOK
    <2>2. Current(a) = [NoRecord EXCEPT !.row = AuthMap[a]]
      BY <1>3 DEF Current
    <2> QED
      BY <1>1, <2>1, <2>2 DEF RecordType
  <1> QED
    BY <1>2, <1>3

\* What a connection holds is a node.
LEMMA HeldIds == ASSUME TypeOK, NEW c \in Conn, holder[c].id # Null PROVE holder[c].id \in AuditNode
  <1>1. holder[c] \in HolderType
    BY DEF TypeOK
  <1> QED
    BY <1>1 DEF HolderType

\* A step that keeps the nodes of a connection keeps what is said of the connection.
LEMMA HolderKept ==
  ASSUME TypeOK, HoldersServed, NEW d \in Conn, holder'[d] = holder[d],
         \A n \in AuditNode : d \in HeldBy(n) => /\ node'[n].live
                                                 /\ node'[n].GlobalAuthId = node[n].GlobalAuthId
  PROVE  HolderServed(d)'
  <1>1. CASE holder[d].id = Null
    BY <1>1 DEF HoldersServed, HolderServed
  <1>2. CASE holder[d].id # Null
    <2>1. holder[d].id \in AuditNode /\ d \in HeldBy(holder[d].id)
      BY <1>2, HeldIds DEF HeldBy
    <2>2. /\ node'[holder[d].id].live
          /\ node'[holder[d].id].GlobalAuthId = node[holder[d].id].GlobalAuthId
      BY <2>1
    <2> QED
      BY <1>2, <2>2 DEF HoldersServed, HolderServed
  <1> QED
    BY <1>1, <1>2

\* AcquireAuthInfo for an account that the new map does not have.
LEMMA AcquireUnknownKeeps ==
  ASSUME IInv, NEW c \in Conn, NEW a \in Account, AcquireUnknown(c, a) PROVE IInv'
  <1> USE DEF AcquireUnknown
  <1>1. /\ record' = [x \in Account |-> Current(x)]
        /\ node' = [m \in AuditNode |-> [node[m] EXCEPT !.ReferenceCount = @ - Dropped(m)]]
        /\ AuthMap' = Null /\ UNCHANGED <<holder, reported>>
    OBVIOUS
  <1>2. \A n \in AuditNode : /\ node[n] \in NodeType
                             /\ node'[n] = [node[n] EXCEPT !.ReferenceCount = Left(n)]
    BY <1>1 DEF IInv, TypeOK, Left
  <1>3. \A n \in AuditNode : Left(n) \in Nat
    BY LeftCounted, CountsFinite
  <1> HIDE DEF AcquireUnknown
  <1>4. \A n \in AuditNode : /\ node'[n] \in NodeType /\ node'[n].ReferenceCount = Left(n)
                             /\ node'[n].live = node[n].live
                             /\ node'[n].GlobalAuthId = node[n].GlobalAuthId
                             /\ node'[n].usage = node[n].usage
    <2>1. \A x \in NodeType, k \in Nat : \A y :
             y = [x EXCEPT !.ReferenceCount = k] =>
                /\ y \in NodeType /\ y.ReferenceCount = k /\ y.live = x.live
                /\ y.GlobalAuthId = x.GlobalAuthId /\ y.usage = x.usage
      BY DEF NodeType
    <2>2. \A n \in AuditNode : node[n] \in NodeType /\ Left(n) \in Nat
      BY <1>2, <1>3
    <2>3. \A n \in AuditNode : node'[n] = [node[n] EXCEPT !.ReferenceCount = Left(n)]
      BY <1>2
    <2>4. ASSUME NEW n \in AuditNode
          PROVE /\ node'[n] \in NodeType /\ node'[n].ReferenceCount = Left(n)
                /\ node'[n].live = node[n].live
                /\ node'[n].GlobalAuthId = node[n].GlobalAuthId
                /\ node'[n].usage = node[n].usage
      <3> DEFINE k == Left(n)
      <3>1. /\ node[n] \in NodeType /\ k \in Nat
            /\ node'[n] = [node[n] EXCEPT !.ReferenceCount = k]
        BY <2>2, <2>3, <2>4
      <3> HIDE DEF k
      <3>2. /\ node'[n] \in NodeType /\ node'[n].ReferenceCount = k
            /\ node'[n].live = node[n].live
            /\ node'[n].GlobalAuthId = node[n].GlobalAuthId
            /\ node'[n].usage = node[n].usage
        BY <2>1, <3>1
      <3> QED
        BY <3>2 DEF k
    <2> QED
      BY <2>4
  <1>5. TypeOK'
    BY <1>1, <1>4, CurrentType DEF IInv, TypeOK
  <1>6. HoldersServed' /\ FreeNodesEmpty'
    <2>1. \A n \in AuditNode : HeldBy(n) # {} => node[n].live
      BY CountedIff DEF IInv
    <2>2. HoldersServed'
      <3> SUFFICES ASSUME NEW d \in Conn PROVE HolderServed(d)'
        BY DEF HoldersServed
      <3>1. \A n \in AuditNode : d \in HeldBy(n) =>
               node'[n].live /\ node'[n].GlobalAuthId = node[n].GlobalAuthId
        BY <1>4, <2>1
      <3>2. holder'[d] = holder[d]
        BY <1>1
      <3> QED
        BY <3>1, <3>2, HolderKept DEF IInv
    <2>3. FreeNodesEmpty'
      BY <1>4 DEF IInv, FreeNodesEmpty
    <2> QED
      BY <2>2, <2>3
  <1>7. ReferencesCounted'
    <2>1. \A n : HeldBy(n)' = HeldBy(n) /\ RecordOf(n)' = CurrentOf(n)
      BY <1>1 DEF HeldBy, RecordOf, CurrentOf
    <2> QED
      BY <1>4, <2>1, LeftCounted, CountedIff, CountedIffNext DEF IInv
  <1>8. UsageConserved'
    <2>1. \A g : Carries(Null, g)' = 0 /\ Carries(Null, g) = 0
                 /\ UsedBy(c, g)' = UsedBy(c, g)
      BY <1>1 DEF Carries, UsedBy
    <2>2. \A g : UsedBy(c, g) \in Nat
      BY DEF IInv, TypeOK, HolderType, UsedBy
    <2> QED
      BY <1>1, <1>4, <1>5, <2>1, <2>2, UsageStep DEF IInv, TypeOK
  <1> QED
    BY <1>5, <1>6, <1>7, <1>8 DEF IInv

\* AcquireAuthInfo for an account of the current map: its record has node n after it,
\* and connection c has it too if held is 1.
LEMMA TakeOverKeeps ==
  ASSUME IInv, NEW c \in Conn, NEW a \in Account, NEW n \in NodeFor(a), NEW b \in Nat,
         NEW held \in {0, 1},
         AuthMap' = Null, record' = Recorded(a, n, b), node' = Counted(a, n, held),
         reported' = reported,
         \/ held = 0 /\ holder' = holder
         \/ /\ held = 1 /\ holder[c].state = "new"
            /\ holder' = [holder EXCEPT ![c].state = "holds", ![c].id = n,
                                        ![c].GlobalAuthId = node'[n].GlobalAuthId]
  PROVE  IInv'
  <1> DEFINE fresh == Current(a).id = Null
  <1>1. /\ n \in AuditNode
        /\ fresh => ~node[n].live /\ HeldBy(n) = {} /\ RecordOf(n) = {}
        /\ ~fresh => Current(a).id = n /\ node[n].live
    <2>1. CASE fresh
      BY <2>1, CountedIff DEF IInv, NodeFor
    <2>2. CASE ~fresh
      <3>1. n = Current(a).id /\ Current(a) \in RecordType
        BY <2>2, CurrentType DEF NodeFor, IInv
      <3>2. n \in AuditNode /\ a \in CurrentOf(n)
        BY <2>2, <3>1 DEF RecordType, CurrentOf
      <3>3. a \in RecordOf(n)
        BY <3>2, LeftCounted
      <3> QED
        BY <2>2, <3>1, <3>2, <3>3, CountedIff DEF IInv
    <2> QED
      BY <2>1, <2>2
  <1>2. \A m \in AuditNode : node[m] \in NodeType /\ Left(m) \in Nat
    BY LeftCounted, CountsFinite DEF IInv, TypeOK
  <1>3. \A m \in AuditNode \ {n} : node'[m] = [node[m] EXCEPT !.ReferenceCount = Left(m)]
    <2> SUFFICES ASSUME NEW m \in AuditNode \ {n}
                 PROVE  node'[m] = [node[m] EXCEPT !.ReferenceCount = Left(m)]
      OBVIOUS
    <2>1. node'[m] = [node[m] EXCEPT !.ReferenceCount = @ - Dropped(m)]
      BY DEF Counted
    <2> QED
      BY <2>1 DEF Left
  <1>4. ASSUME ~fresh PROVE node'[n] = [node[n] EXCEPT !.ReferenceCount = Left(n) + held]
    <2>1. node'[n] = [[node[n] EXCEPT !.ReferenceCount = Left(n)] EXCEPT !.ReferenceCount = @ + held]
      BY <1>1, <1>4 DEF Counted, Left
    <2> QED
      BY <1>1, <1>2, <2>1 DEF NodeType
  <1>5. ASSUME fresh
        PROVE  /\ node'[n] \in NodeType /\ node'[n].live /\ node'[n].usage = 0
               /\ node'[n].ReferenceCount = 1 + held
    <2>1. node'[n] = [NewNode(a) EXCEPT !.ReferenceCount = @ + held]
      BY <1>1, <1>5 DEF Counted
    <2>2. /\ NewNode(a) \in NodeType /\ NewNode(a).live /\ NewNode(a).usage = 0
          /\ NewNode(a).ReferenceCount = 1
      BY DEF NewNode, FreeNode, NodeType, AuthId
    <2> QED
      BY <2>1, <2>2 DEF NodeType
  <1>6. \A m \in AuditNode \ {n} : /\ node'[m] \in NodeType
                                   /\ node'[m].ReferenceCount = Left(m)
                                   /\ node'[m].live = node[m].live
                                   /\ node'[m].GlobalAuthId = node[m].GlobalAuthId
                                   /\ node'[m].usage = node[m].usage
    <2> SUFFICES ASSUME NEW m \in AuditNode \ {n}
                 PROVE  /\ node'[m] \in NodeType
                        /\ node'[m].ReferenceCount = Left(m)
                        /\ node'[m].live = node[m].live
                        /\ node'[m].GlobalAuthId = node[m].GlobalAuthId
                        /\ node'[m].usage = node[m].usage
      OBVIOUS
    <2>1. node'[m] = [node[m] EXCEPT !.ReferenceCount = Left(m)]
      BY <1>3
    <2>2. node[m] \in NodeType /\ Left(m) \in Nat
      BY <1>2
    <2> QED
      BY <2>1, <2>2 DEF NodeType
  <1>7. /\ node'[n] \in NodeType /\ node'[n].live
        /\ ~fresh => /\ node'[n].GlobalAuthId = node[n].GlobalAuthId
                     /\ node'[n].ReferenceCount = Left(n) + held
        /\ node'[n].usage = node[n].usage
    <2>1. CASE fresh
      <3>1. node[n].usage = 0
        BY <1>1, <2>1 DEF IInv, FreeNodesEmpty
      <3> QED
        BY <1>5, <2>1, <3>1
    <2>2. CASE ~fresh
      BY <1>1, <1>2, <1>4, <2>2 DEF NodeType
    <2> QED
      BY <2>1, <2>2
  <1>8. \A d \in Conn : holder[d] \in HolderType
    BY DEF IInv, TypeOK
  <1>9. \A d \in Conn \ {c} : holder'[d] = holder[d]
    BY DEF IInv, TypeOK
  <1>10. /\ holder'[c] \in HolderType /\ holder'[c].used = holder[c].used
         /\ held = 0 => holder'[c] = holder[c]
         /\ held = 1 => /\ holder'[c].state = "holds" /\ holder'[c].id = n
                        /\ holder'[c].GlobalAuthId = node'[n].GlobalAuthId
                        /\ holder[c].id = Null /\ holder[c].used = 0
    <2>1. CASE held = 0
      BY <1>8, <2>1
    <2>2. CASE held = 1
      <3>1. holder[c].state = "new" /\ holder[c] \in HolderType /\ c \in DOMAIN holder
        BY <1>8, <2>2 DEF IInv, TypeOK
      <3>2. holder[c].id = Null /\ holder[c].used = 0
        BY <3>1 DEF IInv, HoldersServed, HolderServed
      <3>3. holder'[c] = [holder[c] EXCEPT !.state = "holds", !.id = n,
                                           !.GlobalAuthId = node'[n].GlobalAuthId]
        BY <2>2, <3>1
      <3>4. node'[n].GlobalAuthId \in AuthId
        BY <1>7 DEF NodeType
      <3> QED
        BY <1>1, <2>2, <3>1, <3>2, <3>3, <3>4 DEF HolderType
    <2> QED
      BY <2>1, <2>2
  <1>11. TypeOK'
    <2>1. record' \in [Account -> RecordType]
      <3> SUFFICES ASSUME NEW x \in Account
                   PROVE  (IF x = a THEN [Current(a) EXCEPT !.id = n, !.block = b]
                                    ELSE Current(x)) \in RecordType
        BY DEF Recorded
      <3>1. Current(a) \in RecordType /\ Current(x) \in RecordType
        BY CurrentType DEF IInv
      <3> QED
        BY <1>1, <3>1 DEF RecordType
    <2>2. node' \in [AuditNode -> NodeType]
      BY <1>6, <1>7 DEF Counted
    <2>3. DOMAIN holder' = Conn /\ holder' = [d \in Conn |-> holder'[d]]
      BY DEF IInv, TypeOK
    <2>4. holder' \in [Conn -> HolderType]
      BY <1>8, <1>9, <1>10, <2>3
    <2> QED
      BY <2>1, <2>2, <2>4 DEF IInv, TypeOK
  <1>12. HoldersServed'
    <2> SUFFICES ASSUME NEW d \in Conn PROVE HolderServed(d)'
      BY DEF HoldersServed
    <2>1. \A m \in AuditNode : d \in HeldBy(m) =>
             node'[m].live /\ node'[m].GlobalAuthId = node[m].GlobalAuthId
      BY <1>1, <1>6, <1>7, CountedIff DEF IInv
    <2>2. CASE holder'[d] = holder[d]
      BY <2>1, <2>2, HolderKept DEF IInv
    <2>3. CASE holder'[d] # holder[d]
      <3>1. d = c /\ held = 1
        BY <1>9, <1>10, <2>3
      <3> QED
        BY <1>1, <1>7, <1>10, <3>1 DEF HolderServed
    <2> QED
      BY <2>2, <2>3
  <1>13. FreeNodesEmpty'
    BY <1>6, <1>7 DEF IInv, FreeNodesEmpty
  <1>14. \A m \in AuditNode \ {n} : HeldBy(m)' = HeldBy(m) /\ RecordOf(m)' = CurrentOf(m)
    <2> SUFFICES ASSUME NEW m \in AuditNode \ {n}
                 PROVE  HeldBy(m)' = HeldBy(m) /\ RecordOf(m)' = CurrentOf(m)
      OBVIOUS
    <2>1. HeldBy(m)' = HeldBy(m)
      BY <1>1, <1>9, <1>10 DEF HeldBy
    <2>2. Current(a) \in RecordType
      BY CurrentType DEF IInv
    <2>3. record'[a].id = n /\ (\A x \in Account \ {a} : record'[x] = Current(x))
      BY <2>2 DEF Recorded, RecordType
    <2>4. Current(a).id # m
      BY <1>1
    <2> QED
      BY <2>1, <2>3, <2>4 DEF RecordOf, CurrentOf
  <1>15. /\ RecordOf(n)' = IF fresh THEN {a} ELSE CurrentOf(n)
         /\ HeldBy(n)' = IF held = 1 THEN HeldBy(n) \cup {c} ELSE HeldBy(n)
         /\ held = 1 => c \notin HeldBy(n)
    <2>1. Current(a) \in RecordType
      BY CurrentType DEF IInv
    <2>2. record'[a].id = n /\ (\A x \in Account \ {a} : record'[x] = Current(x))
      BY <2>1 DEF Recorded, RecordType
    <2>3. fresh => CurrentOf(n) = {}
      BY <1>1, LeftCounted
    <2>4. RecordOf(n)' = CurrentOf(n) \cup {a}
      BY <2>2 DEF RecordOf, CurrentOf
    <2>5. ~fresh => a \in CurrentOf(n)
      BY <1>1 DEF CurrentOf
    <2>6. held = 1 => c \notin HeldBy(n)
      BY <1>1, <1>10 DEF HeldBy
    <2>7. HeldBy(n)' = IF held = 1 THEN HeldBy(n) \cup {c} ELSE HeldBy(n)
      BY <1>9, <1>10 DEF HeldBy
    <2> QED
      BY <2>3, <2>4, <2>5, <2>6, <2>7
  <1>16. ReferencesCounted'
    <2> SUFFICES ASSUME NEW m \in AuditNode
                 PROVE  /\ node'[m].ReferenceCount
                             = Cardinality(HeldBy(m)') + Cardinality(RecordOf(m)')
                        /\ HeldBy(m)' \cup RecordOf(m)' # {} => node'[m].live
                        /\ Cardinality(RecordOf(m)') <= 1
      BY CountedIffNext
    <2>1. CASE m # n
      BY <1>6, <1>14, <2>1, LeftCounted, CountedIff DEF IInv
    <2>2. CASE m = n
      <3>1. Cardinality(HeldBy(n)') = Cardinality(HeldBy(n)) + held
        <4>1. CASE held = 0
          BY <1>15, <4>1, CountsFinite
        <4>2. CASE held = 1
          <5>1. c \notin HeldBy(n) /\ HeldBy(n)' = HeldBy(n) \cup {c}
            BY <1>15, <4>2
          <5>2. IsFiniteSet(HeldBy(n))
            BY CountsFinite
          <5> HIDE DEF HeldBy
          <5> QED
            BY <4>2, <5>1, <5>2, FS_AddElement
        <4> QED
          BY <4>1, <4>2
      <3>2. CASE fresh
        <4>1. Cardinality(HeldBy(n)) = 0
          BY <1>1, <3>2, FS_EmptySet
        <4>2. Cardinality(RecordOf(n)') = 1
          BY <1>15, <3>2, FS_Singleton
        <4> QED
          BY <1>5, <1>7, <2>2, <3>1, <3>2, <4>1, <4>2
      <3>3. CASE ~fresh
        <4>1. RecordOf(n)' = CurrentOf(n) /\ Cardinality(CurrentOf(n)) <= 1
              /\ Left(n) = Cardinality(HeldBy(n)) + Cardinality(CurrentOf(n))
          BY <1>1, <1>15, <3>3, LeftCounted
        <4> QED
          BY <1>7, <2>2, <3>1, <3>3, <4>1, CountsFinite
      <3> QED
        BY <3>2, <3>3
    <2> QED
      BY <2>1, <2>2
  <1>17. UsageConserved'
    <2>1. \A g \in AuthId : \/ Carries(n, g) = 0 /\ Carries(n, g)' = 0
                            \/ Carries(n, g) = Carries(n, g)'
      <3>1. CASE fresh
        <4>1. node[n].usage = 0
          BY <1>1, <3>1 DEF IInv, FreeNodesEmpty
        <4> QED
          BY <1>7, <4>1 DEF Carries
      <3>2. CASE ~fresh
        BY <1>1, <1>7, <3>2 DEF Carries
      <3> QED
        BY <3>1, <3>2
    <2>2. \A g \in AuthId : UsedBy(c, g)' = UsedBy(c, g)
      BY <1>10 DEF UsedBy
    <2>3. \A g \in AuthId :
            reported'[g] + Carries(n, g)' + UsedBy(c, g)
            = reported[g] + Carries(n, g) + UsedBy(c, g)'
      BY <2>1, <2>2
    <2> QED
      BY <1>6, <1>9, <1>11, <2>3, UsageStep DEF IInv
  <1> QED
    BY <1>11, <1>12, <1>13, <1>16, <1>17 DEF IInv

\* The two ways of AcquireAuthInfo for an account that is known.
LEMMA AcquireKnownKeeps ==
  ASSUME IInv, NEW c \in Conn, NEW a \in Account, AcquireBlocked(c, a) \/ AcquireGranted(c, a)
  PROVE  IInv'
  <1>1. Current(a) \in RecordType
    BY CurrentType DEF IInv
  <1>2. CASE AcquireBlocked(c, a)
    <2>1. PICK n \in NodeFor(a) :
            /\ AuthMap' = Null
            /\ record' = Recorded(a, n, IF Current(a).block > 0 THEN Current(a).block
                                                                ELSE BlockTimeout)
            /\ node' = Counted(a, n, 0)
      BY <1>2 DEF AcquireBlocked
    <2>2. UNCHANGED <<holder, reported>>
      BY <1>2 DEF AcquireBlocked
    <2>3. (IF Current(a).block > 0 THEN Current(a).block ELSE BlockTimeout) \in Nat
      BY <1>1 DEF RecordType
    <2> QED
      BY <2>1, <2>2, <2>3, TakeOverKeeps
  <1>3. CASE AcquireGranted(c, a)
    <2>1. PICK n \in NodeFor(a) :
            /\ AuthMap' = Null
            /\ record' = Recorded(a, n, 0)
            /\ node' = Counted(a, n, 1)
            /\ holder' = [holder EXCEPT ![c].state = "holds", ![c].id = n,
                                        ![c].GlobalAuthId = node'[n].GlobalAuthId]
      BY <1>3 DEF AcquireGranted
    <2>2. reported' = reported /\ holder[c].state = "new"
      BY <1>3 DEF AcquireGranted, Acquire
    <2> QED
      BY <2>1, <2>2, TakeOverKeeps
  <1> QED
    BY <1>2, <1>3

\* ReleaseAuthInfo: the use goes from the connection to the node.
LEMMA ReleaseKeeps ==
  ASSUME IInv, NEW c \in Conn, NEW used \in Usage, ReleaseAuthInfo(c, used) PROVE IInv'
  <1>0. holder[c].id \in AuditNode
    BY HeldIds DEF ReleaseAuthInfo, IInv, HoldersServed, HolderServed
  <1> PICK n \in AuditNode : n = holder[c].id
    BY <1>0
  <1>1. /\ holder[c].state = "holds" /\ UNCHANGED <<AuthMap, record, reported>>
        /\ node' = [node EXCEPT ![n].usage = @ + used, ![n].ReferenceCount = @ - 1]
        /\ holder' = [holder EXCEPT ![c].state = "done", ![c].id = Null, ![c].used = used]
    BY DEF ReleaseAuthInfo
  <1>2. /\ c \in HeldBy(n) /\ node[n].live
        /\ node[n].GlobalAuthId = holder[c].GlobalAuthId /\ holder[c].used = 0
    BY <1>1 DEF IInv, HoldersServed, HolderServed, HeldBy
  <1>3. holder[c] \in HolderType /\ node[n] \in NodeType /\ used \in Nat
    BY <1>2 DEF IInv, TypeOK
  <1>4. /\ node'[n] = [node[n] EXCEPT !.usage = @ + used, !.ReferenceCount = @ - 1]
        /\ \A m \in AuditNode \ {n} : node'[m] = node[m]
    BY <1>1, <1>2 DEF IInv, TypeOK
  <1>5. /\ holder'[c] = [holder[c] EXCEPT !.state = "done", !.id = Null, !.used = used]
        /\ \A d \in Conn \ {c} : holder'[d] = holder[d]
    BY <1>1 DEF IInv, TypeOK
  <1>6. /\ HeldBy(n)' = HeldBy(n) \ {c} /\ \A m : RecordOf(m)' = RecordOf(m)
        /\ \A m \in AuditNode \ {n} : HeldBy(m)' = HeldBy(m)
    <2>1. holder'[c].id = Null /\ holder[c].id = n
      BY <1>3, <1>5 DEF HolderType
    <2>2. HeldBy(n)' = HeldBy(n) \ {c}
      BY <1>2, <1>5, <2>1 DEF HeldBy
    <2>3. \A m \in AuditNode \ {n} : HeldBy(m)' = HeldBy(m)
      BY <1>5, <2>1 DEF HeldBy
    <2> QED
      BY <1>1, <2>2, <2>3 DEF RecordOf
  <1>7. /\ Cardinality(HeldBy(n)') = Cardinality(HeldBy(n)) - 1
        /\ Cardinality(HeldBy(n)) \in Nat \ {0}
    <2>1. IsFiniteSet(HeldBy(n)) /\ Cardinality(HeldBy(n)) \in Nat
      BY CountsFinite
    <2>2. Cardinality(HeldBy(n)) # 0
      BY <1>2, <2>1, FS_EmptySet
    <2> HIDE DEF HeldBy
    <2>3. Cardinality(HeldBy(n) \ {c}) = Cardinality(HeldBy(n)) - 1
      BY <1>2, <2>1, FS_RemoveElement
    <2>4. HeldBy(n)' = HeldBy(n) \ {c}
      BY <1>6
    <2> QED
      BY <2>1, <2>2, <2>3, <2>4
  <1>8. /\ node[n].ReferenceCount = Cardinality(HeldBy(n)) + Cardinality(RecordOf(n))
        /\ Cardinality(RecordOf(n)) \in Nat /\ Cardinality(RecordOf(n)) <= 1
    BY <1>2, CountedIff, CountsFinite DEF IInv
  <1>9. /\ node'[n] \in NodeType /\ node'[n].live
        /\ node'[n].GlobalAuthId = node[n].GlobalAuthId
        /\ node'[n].usage = node[n].usage + used
        /\ node'[n].ReferenceCount = node[n].ReferenceCount - 1
    <2> DEFINE r == node[n].ReferenceCount - 1
               u == node[n].usage + used
    <2>1. r \in Nat
      BY <1>7, <1>8
    <2>2. u \in Nat
      BY <1>3 DEF NodeType
    <2>3. node'[n] = [node[n] EXCEPT !.usage = u, !.ReferenceCount = r]
      BY <1>4
    <2> HIDE DEF r, u
    <2>4. /\ node'[n] \in NodeType /\ node'[n].live = node[n].live
          /\ node'[n].GlobalAuthId = node[n].GlobalAuthId
          /\ node'[n].usage = u /\ node'[n].ReferenceCount = r
      BY <1>3, <2>1, <2>2, <2>3 DEF NodeType
    <2> QED
      BY <1>2, <2>4 DEF r, u
  <1>10. /\ holder'[c] \in HolderType /\ holder'[c].used = used
         /\ holder'[c].GlobalAuthId = holder[c].GlobalAuthId
         /\ holder'[c].id = Null /\ holder'[c].state = "done"
    BY <1>3, <1>5 DEF HolderType
  <1>11. TypeOK'
    <2>1. node' \in [AuditNode -> NodeType]
      <3>1. node' = [m \in AuditNode |-> node'[m]]
        BY <1>1 DEF IInv, TypeOK
      <3>2. \A m \in AuditNode : node'[m] \in NodeType
        BY <1>4, <1>9 DEF IInv, TypeOK
      <3> QED
        BY <3>1, <3>2
    <2>2. holder' \in [Conn -> HolderType]
      <3>1. holder' = [d \in Conn |-> holder'[d]]
        BY <1>1 DEF IInv, TypeOK
      <3>2. \A d \in Conn : holder'[d] \in HolderType
        BY <1>5, <1>10 DEF IInv, TypeOK
      <3> QED
        BY <3>1, <3>2
    <2> QED
      BY <1>1, <2>1, <2>2 DEF IInv, TypeOK
  <1>12. HoldersServed'
    <2> SUFFICES ASSUME NEW d \in Conn PROVE HolderServed(d)'
      BY DEF HoldersServed
    <2>1. CASE d = c
      BY <1>10, <2>1 DEF HolderServed
    <2>2. CASE d # c
      <3>1. \A m \in AuditNode : d \in HeldBy(m) =>
               node'[m].live /\ node'[m].GlobalAuthId = node[m].GlobalAuthId
        BY <1>4, <1>9, CountedIff DEF IInv
      <3> QED
        BY <1>5, <2>2, <3>1, HolderKept DEF IInv
    <2> QED
      BY <2>1, <2>2
  <1>13. FreeNodesEmpty'
    BY <1>4, <1>9 DEF IInv, FreeNodesEmpty
  <1>14. ReferencesCounted'
    <2> SUFFICES ASSUME NEW m \in AuditNode
                 PROVE  /\ node'[m].ReferenceCount
                             = Cardinality(HeldBy(m)') + Cardinality(RecordOf(m)')
                        /\ HeldBy(m)' \cup RecordOf(m)' # {} => node'[m].live
                        /\ Cardinality(RecordOf(m)') <= 1
      BY CountedIffNext
    <2>1. CASE m # n
      BY <1>4, <1>6, <2>1, CountedIff DEF IInv
    <2>2. CASE m = n
      <3>1. RecordOf(n)' = RecordOf(n)
        BY <1>6
      <3> QED
        BY <1>7, <1>8, <1>9, <2>2, <3>1
    <2> QED
      BY <2>1, <2>2
  <1>15. UsageConserved'
    <2>1. \A g \in AuthId :
            reported'[g] + Carries(n, g)' + UsedBy(c, g)
            = reported[g] + Carries(n, g) + UsedBy(c, g)'
      <3> SUFFICES ASSUME NEW g \in AuthId
                   PROVE  reported'[g] + Carries(n, g)' + UsedBy(c, g)
                          = reported[g] + Carries(n, g) + UsedBy(c, g)'
        OBVIOUS
      <3>1. reported[g] \in Nat /\ node[n].usage \in Nat
        BY <1>3 DEF IInv, TypeOK, NodeType
      <3>2. CASE node[n].GlobalAuthId = g
        <4>1. Carries(n, g) = node[n].usage /\ Carries(n, g)' = node[n].usage + used
          BY <1>2, <1>9, <3>2 DEF Carries
        <4>2. UsedBy(c, g) = 0 /\ UsedBy(c, g)' = used
          BY <1>2, <1>10, <3>2 DEF UsedBy
        <4> QED
          BY <1>1, <1>3, <3>1, <4>1, <4>2
      <3>3. CASE node[n].GlobalAuthId # g
        <4>1. Carries(n, g) = 0 /\ Carries(n, g)' = 0
          BY <1>9, <3>3 DEF Carries
        <4>2. UsedBy(c, g) = 0 /\ UsedBy(c, g)' = 0
          BY <1>2, <1>10, <3>3 DEF UsedBy
        <4> QED
          BY <1>1, <4>1, <4>2
      <3> QED
        BY <3>2, <3>3
    <2> QED
      BY <1>4, <1>5, <1>11, <2>1, UsageStep DEF IInv
  <1> QED
    BY <1>11, <1>12, <1>13, <1>14, <1>15 DEF IInv

\* CheckAndReportLocalAudit: the use goes from the node to the reports.
LEMMA CheckAndReportKeeps ==
  ASSUME IInv, NEW n \in AuditNode, CheckAndReportLocalAudit(n) PROVE IInv'
  <1> DEFINE k == node[n].GlobalAuthId
  <1>1. /\ UNCHANGED <<AuthMap, record, holder>>
        /\ reported' = [reported EXCEPT ![k] = @ + node[n].usage]
        /\ node' = [node EXCEPT ![n] = IF Unused(n) THEN FreeNode ELSE Reported(n)]
    BY DEF CheckAndReportLocalAudit
  <1>2. node[n] \in NodeType /\ k \in AuthId
    BY DEF IInv, TypeOK, NodeType
  <1>3. Reported(n) = [node[n] EXCEPT !.usage = 0]
    BY DEF Reported
  <1>4. /\ node'[n] = (IF Unused(n) THEN FreeNode ELSE Reported(n))
        /\ \A m \in AuditNode \ {n} : node'[m] = node[m]
    BY <1>1 DEF IInv, TypeOK
  <1>5. /\ node'[n] \in NodeType /\ node'[n].usage = 0
        /\ node'[n].ReferenceCount = node[n].ReferenceCount
        /\ ~Unused(n) => /\ node'[n].live = node[n].live
                         /\ node'[n].GlobalAuthId = node[n].GlobalAuthId
    <2>1. CASE Unused(n)
      BY <1>4, <2>1 DEF FreeNode, NodeType, AuthId, Unused
    <2>2. CASE ~Unused(n)
      <3>1. node'[n] = [node[n] EXCEPT !.usage = 0]
        BY <1>3, <1>4, <2>2
      <3> QED
        BY <1>2, <2>2, <3>1 DEF NodeType
    <2> QED
      BY <2>1, <2>2
  <1>6. TypeOK'
    <2>1. node' \in [AuditNode -> NodeType]
      <3>1. node' = [m \in AuditNode |-> node'[m]]
        BY <1>1 DEF IInv, TypeOK
      <3>2. \A m \in AuditNode : node'[m] \in NodeType
        BY <1>4, <1>5 DEF IInv, TypeOK
      <3> QED
        BY <3>1, <3>2
    <2>2. reported' \in [AuthId -> Nat]
      BY <1>1, <1>2 DEF IInv, TypeOK, NodeType
    <2> QED
      BY <1>1, <2>1, <2>2 DEF IInv, TypeOK
  <1>7. \A m : HeldBy(m)' = HeldBy(m) /\ RecordOf(m)' = RecordOf(m)
    BY <1>1 DEF HeldBy, RecordOf
  <1>8. Unused(n) => HeldBy(n) = {} /\ RecordOf(n) = {}
    <2> SUFFICES ASSUME Unused(n) PROVE HeldBy(n) = {} /\ RecordOf(n) = {}
      OBVIOUS
    <2>1. Cardinality(HeldBy(n)) = 0 /\ Cardinality(RecordOf(n)) = 0
      BY CountedIff, CountsFinite DEF IInv, Unused
    <2> QED
      BY <2>1, CountsFinite, FS_EmptySet
  <1>9. ReferencesCounted'
    <2> SUFFICES ASSUME NEW m \in AuditNode
                 PROVE  /\ node'[m].ReferenceCount
                             = Cardinality(HeldBy(m)') + Cardinality(RecordOf(m)')
                        /\ HeldBy(m)' \cup RecordOf(m)' # {} => node'[m].live
                        /\ Cardinality(RecordOf(m)') <= 1
      BY CountedIffNext
    <2>1. CASE m # n
      BY <1>4, <1>7, <2>1, CountedIff DEF IInv
    <2>2. CASE m = n
      BY <1>5, <1>7, <1>8, <2>2, CountedIff DEF IInv
    <2> QED
      BY <2>1, <2>2
  <1>10. HoldersServed'
    <2> SUFFICES ASSUME NEW d \in Conn PROVE HolderServed(d)'
      BY DEF HoldersServed
    <2>1. \A m \in AuditNode : d \in HeldBy(m) =>
             node'[m].live /\ node'[m].GlobalAuthId = node[m].GlobalAuthId
      BY <1>4, <1>5, <1>8, CountedIff DEF IInv
    <2> QED
      BY <1>1, <2>1, HolderKept DEF IInv
  <1>11. FreeNodesEmpty'
    BY <1>4, <1>5 DEF IInv, FreeNodesEmpty
  <1>12. UsageConserved'
    <2>1. \A g \in AuthId :
            reported'[g] + Carries(n, g)' + UsedBy(Null, g)
            = reported[g] + Carries(n, g) + UsedBy(Null, g)'
      <3> SUFFICES ASSUME NEW g \in AuthId
                   PROVE  reported'[g] + Carries(n, g)' + UsedBy(Null, g)
                          = reported[g] + Carries(n, g) + UsedBy(Null, g)'
        OBVIOUS
      <3>1. reported[g] \in Nat /\ Carries(n, g) \in Nat
        BY <1>2 DEF IInv, TypeOK, NodeType, Carries
      <3>2. Carries(n, g)' = 0 /\ UsedBy(Null, g)' = UsedBy(Null, g) /\ UsedBy(Null, g) \in Nat
        BY <1>1, <1>5 DEF Carries, UsedBy, IInv, TypeOK, HolderType
      <3>3. reported'[g] = reported[g] + Carries(n, g)
        <4>1. CASE g = k
          <5>1. Carries(n, g) = node[n].usage
            BY <4>1 DEF Carries, IInv, FreeNodesEmpty
          <5> QED
            BY <1>1, <4>1, <5>1 DEF IInv, TypeOK
        <4>2. CASE g # k
          <5>1. Carries(n, g) = 0
            BY <4>2 DEF Carries
          <5> QED
            BY <1>1, <3>1, <4>2, <5>1 DEF IInv, TypeOK
        <4> QED
          BY <4>1, <4>2
      <3> QED
        BY <3>1, <3>2, <3>3
    <2>2. \A d \in Conn \ {Null} : /\ holder'[d].GlobalAuthId = holder[d].GlobalAuthId
                                   /\ holder'[d].used = holder[d].used
      BY <1>1
    <2> QED
      BY <1>4, <1>6, <2>1, <2>2, UsageStep DEF IInv
  <1> QED
    BY <1>6, <1>9, <1>10, <1>11, <1>12 DEF IInv

\* Every step keeps the invariant.
LEMMA NextIInv == ASSUME IInv, [Next]_vars PROVE IInv'
  <1>1. AuthMap \in [Account -> Row] \cup {Null} /\ record \in [Account -> RecordType]
    BY DEF IInv, TypeOK
  <1>2. ASSUME NEW c \in Conn, Call(c) PROVE IInv'
    <2>1. ASSUME NEW a \in Account, AcquireUnknown(c, a) PROVE IInv'
      BY <2>1, AcquireUnknownKeeps
    <2>2. ASSUME NEW a \in Account, AcquireBlocked(c, a) \/ AcquireGranted(c, a) PROVE IInv'
      BY <2>2, AcquireKnownKeeps
    <2>3. ASSUME NEW a \in Account, AcquireAborts(c, a) PROVE IInv'
      BY <1>1, <2>3, QuietKeeps DEF AcquireAborts
    <2>4. ASSUME NEW used \in Usage, ReleaseAuthInfo(c, used) PROVE IInv'
      BY <2>4, ReleaseKeeps
    <2> QED
      BY <1>2, <2>1, <2>2, <2>3, <2>4 DEF Call
  <1>3. CASE ReloadAuthFile
    <2>1. CASE ReloadFails
      BY <1>1, <2>1, QuietKeeps DEF ReloadFails
    <2>2. ASSUME NEW map \in [Account -> Row], Reload(map) PROVE IInv'
      BY <1>1, <2>2, QuietKeeps DEF Reload
    <2> QED
      BY <1>3, <2>1, <2>2 DEF ReloadAuthFile
  <1>4. CASE Tick
    <2>1. ASSUME NEW d \in {0, 1}, TickBegin(d) PROVE IInv'
      <3>1. UNCHANGED <<node, holder, reported, AuthMap>>
        BY <2>1 DEF TickBegin
      <3>2. \A a \in Account : /\ record[a] \in RecordType
               /\ record'[a] = [record[a] EXCEPT !.block = IF @ > d THEN @ - d ELSE 0]
        BY <1>1, <2>1 DEF TickBegin
      <3>3. \A a \in Account : record'[a] \in RecordType /\ record'[a].id = record[a].id
        <4> SUFFICES ASSUME NEW a \in Account
                     PROVE  record'[a] \in RecordType /\ record'[a].id = record[a].id
          OBVIOUS
        <4> DEFINE b == IF record[a].block > d THEN record[a].block - d ELSE 0
        <4>1. record[a] \in RecordType /\ record'[a] = [record[a] EXCEPT !.block = b]
          BY <3>2
        <4>2. record[a].block \in Nat
          BY <4>1 DEF RecordType
        <4>3. b \in Nat
          BY <4>2
        <4> HIDE DEF b
        <4> QED
          BY <4>1, <4>3 DEF RecordType
      <3>4. record' = [a \in Account |-> record'[a]]
        BY <2>1 DEF TickBegin
      <3>5. record' \in [Account -> RecordType]
        BY <3>3, <3>4
      <3> QED
        BY <1>1, <3>1, <3>3, <3>5, QuietKeeps
    <2>2. ASSUME NEW n \in AuditNode, CheckAndReportLocalAudit(n) PROVE IInv'
      BY <2>2, CheckAndReportKeeps
    <2>3. CASE EndLoop
      BY <1>1, <2>3, QuietKeeps DEF EndLoop
    <2> QED
      BY <1>4, <2>1, <2>2, <2>3 DEF Tick
  <1>5. CASE UNCHANGED vars
    BY <1>1, <1>5, QuietKeeps DEF vars
  <1> QED
    BY <1>2, <1>3, <1>4, <1>5 DEF Next

\* The invariant holds in every state, whatever is loaded, acquired and released.
THEOREM Invariance == Spec => []IInv
  <1>1. Init => IInv
    BY InitIInv
  <1>2. IInv /\ [Next]_vars => IInv'
    BY NextIInv
  <1> QED
    BY <1>1, <1>2, PTL DEF Spec

\* AcquireAuthInfo, ReleaseAuthInfo and the reloads count the references to every node.
THEOREM ReferencesAreCounted == Spec => []ReferencesCounted
  <1>1. IInv => ReferencesCounted
    BY DEF IInv
  <1> QED
    BY <1>1, Invariance, PTL

\* What the connections of an account used is what its nodes hold and what
\* CheckAndReportLocalAudit reported.
THEOREM UsageIsConserved == Spec => []UsageConserved
  <1>1. IInv => UsageConserved
    BY DEF IInv
  <1> QED
    BY <1>1, Invariance, PTL
=============================================================================
