-------------------------- MODULE ServerListProofs --------------------------
(***************************************************************************)
(* What ServerList promises, for any number of groups, places, changes and *)
(* datagrams in flight: one version is one list (VersionsAreLists), and    *)
(* both users of a list have exactly its connections open and send on the  *)
(* one that a hash selects (AuditFollows, PackedConnected).                *)
(*                                                                         *)
(* Versions.  VersionMeansList alone is not inductive: the next version    *)
(* could be one that is in flight.  VersionInv adds NoneAhead: what is     *)
(* held anywhere is not ahead of both the last version served and the      *)
(* clock, so the next one, the later of the two, is new.                   *)
(*                                                                         *)
(* Connections.  ConnectionsInv says what they are: those of the list that *)
(* the downloader has.  That a new list keeps it so is about loops, of     *)
(* which the one over two lists has an invariant of its own, LoopInv.      *)
(* That a loop keeps its invariant is shown without induction: of the      *)
(* rounds after which it fails one would be the first (Smallest).          *)
(***************************************************************************)
EXTENDS ServerList, TLAPS, FiniteSetTheorems, WellFoundedInduction

-----------------------------------------------------------------------------
(* Sequences of servers.                                                   *)

\* Of some numbers one is the smallest.
LEMMA Smallest ==
    ASSUME NEW T \in SUBSET Nat, T # {}
    PROVE  \E m \in T : \A k \in T : m <= k
<1>1. PICK m \in T : \A k \in T : <<k, m>> \notin OpToRel(<, Nat)
  BY NatLessThanWellFounded, WFMin
<1>2. \A k \in T : ~(k < m) BY <1>1 DEF OpToRel
<1>3. QED BY <1>2

\* The lists of servers, each server once.
Lists == {l \in Seq(Server) : \A j, k \in DOMAIN l : l[j].ServerId = l[k].ServerId => j = k}

\* What the elements of a list are.
LEMMA ListFacts ==
    /\ <<>> \in Lists
    /\ \A l \in Lists :
          /\ l \in Seq(Server) /\ Len(l) \in Nat /\ DOMAIN l = 1 .. Len(l)
          /\ \A k \in DOMAIN l : /\ l[k] \in Server /\ l[k].ServerId \in Place
                                 /\ l[k].ServerId \in Nat /\ l[k].Address \in Address
<1>1. <<>> \in Lists BY DEF Lists
<1>2. \A s \in Server : s.ServerId \in Place /\ s.ServerId \in Nat /\ s.Address \in Address
  BY DEF Server, Place
<1>3. ASSUME NEW l \in Lists
      PROVE  /\ l \in Seq(Server) /\ Len(l) \in Nat /\ DOMAIN l = 1 .. Len(l)
             /\ \A k \in DOMAIN l : l[k] \in Server
  BY DEF Lists
<1>4. QED BY <1>1, <1>2, <1>3

\* f is what the loop has packed of the list e of the server after each of n places.
IsPacking(f, e, n) ==
    f = [i \in 0 .. n |->
            IF i = 0 THEN <<>>
            ELSE IF e[i] = None THEN f[i - 1]
            ELSE Append(f[i - 1], [ServerId |-> i, Address |-> e[i]])]

\* Packed is that recursion.
LEMMA PackedIs == \A e : Packed(e) = (CHOOSE f : IsPacking(f, e, MaxServer))[MaxServer]
BY DEF Packed, IsPacking

\* The loop that packs a list gets to its end.
LEMMA PackingExists ==
    ASSUME NEW e, NEW n \in Nat
    PROVE  \E f : IsPacking(f, e, n)
<1>. DEFINE Fails == {k \in Nat : ~\E f : IsPacking(f, e, k)}
<1>1. SUFFICES ASSUME Fails # {} PROVE FALSE
  OBVIOUS
<1>2. PICK k \in Fails : \A j \in Fails : k <= j BY <1>1, Smallest
<1>3. CASE k = 0
  <2>1. IsPacking([i \in 0 .. 0 |-> <<>>], e, 0) BY DEF IsPacking
  <2>2. QED BY <1>2, <1>3, <2>1
<1>4. CASE k # 0
  <2>1. k - 1 \in Nat /\ k - 1 \notin Fails BY <1>2, <1>4
  <2>2. PICK h : IsPacking(h, e, k - 1) BY <2>1
  <2>. DEFINE f == [i \in 0 .. k |-> IF i < k THEN h[i]
                                     ELSE IF e[k] = None THEN h[k - 1]
                                     ELSE Append(h[k - 1], [ServerId |-> k, Address |-> e[k]])]
  <2>3. ASSUME NEW i \in 0 .. k
        PROVE  f[i] = IF i = 0 THEN <<>>
                      ELSE IF e[i] = None THEN f[i - 1]
                      ELSE Append(f[i - 1], [ServerId |-> i, Address |-> e[i]])
    <3>1. CASE i = k BY <1>4, <2>1, <3>1
    <3>2. CASE i < k
      <4>1. i \in 0 .. k - 1 /\ f[i] = h[i] BY <3>2
      <4>2. i # 0 => f[i - 1] = h[i - 1] /\ i - 1 \in 0 .. k - 1 BY <3>2
      <4>. HIDE DEF f
      <4>3. QED BY <2>2, <4>1, <4>2 DEF IsPacking
    <3>3. QED BY <3>1, <3>2
  <2>4. IsPacking(f, e, k) BY <2>3 DEF IsPacking
  <2>5. QED BY <1>2, <2>4
<1>5. QED BY <1>3, <1>4

\* A list is packed with each server once.
LEMMA PackedList ==
    ASSUME NEW e \in [Place -> Address \cup {None}]
    PROVE  Packed(e) \in Lists
<1>0. MaxServer \in Nat \ {0} BY ListAssumption
<1>. DEFINE f == CHOOSE g : IsPacking(g, e, MaxServer)
<1>1. IsPacking(f, e, MaxServer) BY <1>0, PackingExists
<1>. DEFINE Good(i) == f[i] \in Lists /\ \A k \in DOMAIN f[i] : f[i][k].ServerId <= i
            Fails == {i \in 0 .. MaxServer : ~Good(i)}
<1>. HIDE DEF f
<1>2. SUFFICES ASSUME Fails # {} PROVE FALSE
  BY <1>0, PackedIs DEF f
<1>3. PICK i \in Fails : \A j \in Fails : i <= j
  <2>1. Fails \in SUBSET Nat OBVIOUS
  <2>. HIDE DEF Fails
  <2>2. QED BY <1>2, <2>1, Smallest
<1>4. CASE i = 0
  <2>1. f[0] = <<>> BY <1>0, <1>1 DEF IsPacking
  <2>2. DOMAIN <<>> = {} OBVIOUS
  <2>3. Good(0) BY <2>1, <2>2, ListFacts
  <2>4. QED BY <1>3, <1>4, <2>3
<1>5. CASE i # 0
  <2>1. i \in Place /\ i - 1 \in 0 .. MaxServer /\ Good(i - 1) BY <1>0, <1>3, <1>5 DEF Place
  <2>2. CASE e[i] = None
    <3>1. f[i] = f[i - 1] BY <1>1, <1>5, <2>2 DEF IsPacking
    <3>2. \A k \in DOMAIN f[i] : f[i][k].ServerId <= i BY <2>1, <3>1, ListFacts DEF Place
    <3>3. QED BY <1>3, <2>1, <3>1, <3>2
  <2>3. CASE e[i] # None
    <3>. DEFINE x == [ServerId |-> i, Address |-> e[i]]
                l == f[i - 1]
    <3>1. f[i] = Append(l, x) BY <1>1, <1>5, <2>3 DEF IsPacking
    <3>2. x \in Server /\ x.ServerId = i BY <2>1, <2>3 DEF Server
    <3>3. /\ l \in Seq(Server) /\ \A k \in DOMAIN l : l[k].ServerId <= i - 1
          /\ \A j, k \in DOMAIN l : l[j].ServerId = l[k].ServerId => j = k
      BY <2>1 DEF Lists
    <3>. HIDE DEF x, l
    <3>4. /\ Append(l, x) \in Seq(Server) /\ DOMAIN Append(l, x) = 1 .. Len(l) + 1
          /\ DOMAIN l = 1 .. Len(l) /\ Len(l) \in Nat
          /\ Append(l, x)[Len(l) + 1] = x /\ \A k \in 1 .. Len(l) : Append(l, x)[k] = l[k]
      BY <3>2, <3>3
    <3>5. \A k \in DOMAIN f[i] : k \in DOMAIN l \/ k = Len(l) + 1 BY <3>1, <3>4
    <3>6. \A k \in DOMAIN l : f[i][k] = l[k] /\ l[k].ServerId \in Nat
      BY <2>1, <3>1, <3>3, <3>4, ListFacts DEF l
    <3>7. f[i][Len(l) + 1] = x BY <3>1, <3>4
    <3>8. \A k \in DOMAIN f[i] : f[i][k].ServerId <= i BY <2>1, <3>2, <3>3, <3>5, <3>6, <3>7
    <3>9. \A j, k \in DOMAIN f[i] : f[i][j].ServerId = f[i][k].ServerId => j = k
      BY <2>1, <3>2, <3>3, <3>5, <3>6, <3>7
    <3>10. Good(i) BY <3>1, <3>4, <3>8, <3>9 DEF Lists
    <3>11. QED BY <1>3, <3>10
  <2>4. QED BY <2>2, <2>3
<1>6. QED BY <1>4, <1>5

-----------------------------------------------------------------------------
(* Versions.                                                               *)

\* The variables that hold lists and versions.
ListTypes ==
    /\ entry \in [Group -> [Place -> Address \cup {None}]]
    /\ served \in [Group -> [version : Nat, list : Lists, Dirty : BOOLEAN]]
    /\ known \in [Group -> [version : Nat, list : Lists]]
    /\ answers \in SUBSET [group : Group, version : Nat, list : Lists]
    /\ now \in 1 .. MaxNow

\* What is held of a group under some version: by the server, by the downloader, in flight.
Held(g) ==
    {[version |-> served[g].version, list |-> served[g].list], known[g]}
    \cup {[version |-> m.version, list |-> m.list] : m \in InFlight(g)}

\* No version is ahead of both the one that was served last and the server's clock: the
\* next one, taken from either, is a new one.
NoneAhead == \A g \in Group : \A x \in Held(g) : x.version <= served[g].version \/ x.version < now

VersionInv == ListTypes /\ VersionMeansList /\ NoneAhead

\* What is held is a version and a list.
LEMMA HeldType == ASSUME ListTypes, NEW g \in Group PROVE Held(g) \subseteq [version : Nat, list : Lists]
<1>1. \A m \in InFlight(g) : m \in [group : Group, version : Nat, list : Lists]
  BY DEF ListTypes, InFlight
<1>2. served[g] \in [version : Nat, list : Lists, Dirty : BOOLEAN] /\ known[g] \in [version : Nat, list : Lists]
  BY DEF ListTypes
<1>3. QED BY <1>1, <1>2 DEF Held

\* VersionMeansList, of the copies that are held.
LEMMA VersionsOfHeld ==
    /\ VersionMeansList <=>
          \A g \in Group : \A x, y \in Held(g) : x.version = y.version /\ x.version # 0 => x.list = y.list
    /\ VersionMeansList' <=>
          \A g \in Group : \A x, y \in Held(g)' : x.version = y.version /\ x.version # 0 => x.list = y.list
BY DEF VersionMeansList, Held

\* A step after which nothing is held that was not held before.
LEMMA NothingNew ==
    ASSUME VersionInv, ListTypes',
           \A g \in Group : /\ \A x \in Held(g)' : x \in Held(g) \/ x.version = 0
                            /\ \/ served'[g].version >= served[g].version
                               \/ now' > served[g].version,
           now' >= now
    PROVE  VersionInv'
<1>1. /\ now \in Nat /\ now' \in Nat
      /\ \A g \in Group : served[g].version \in Nat /\ served'[g].version \in Nat
      /\ \A g \in Group : \A x \in Held(g) : x.version \in Nat
  BY HeldType, ListAssumption DEF VersionInv, ListTypes
<1>2. VersionMeansList' BY VersionsOfHeld DEF VersionInv
<1>3. NoneAhead' BY <1>1 DEF VersionInv, NoneAhead
<1>4. QED BY <1>2, <1>3 DEF VersionInv

\* Building an answer: what was built before, or a version that nobody has.
LEMMA BuiltFacts ==
    ASSUME VersionInv, NEW g \in Group
    PROVE  /\ Built(g) \in [version : Nat, list : Lists, Dirty : BOOLEAN]
           /\ Built(g).version >= served[g].version
           /\ \/ Built(g) = served[g]
              \/ \A x \in Held(g) : x.version < Built(g).version
<1>1. /\ now \in Nat /\ entry[g] \in [Place -> Address \cup {None}]
      /\ served[g] \in [version : Nat, list : Lists, Dirty : BOOLEAN]
      /\ \A x \in Held(g) : /\ x.version \in Nat
                            /\ x.version <= served[g].version \/ x.version < now
  BY HeldType, ListAssumption DEF VersionInv, ListTypes, NoneAhead
<1>2. CASE ~served[g].Dirty BY <1>1, <1>2 DEF Built
<1>3. CASE served[g].Dirty
  <2>. DEFINE v == Later(now, served[g].version + 1)
  <2>1. v \in Nat /\ v >= now /\ v >= served[g].version + 1 BY <1>1 DEF Later
  <2>2. Built(g) = [version |-> v, list |-> Packed(entry[g]), Dirty |-> FALSE]
    BY <1>3 DEF Built
  <2>3. Packed(entry[g]) \in Lists BY <1>1, PackedList
  <2>. HIDE DEF v
  <2>4. QED BY <1>1, <2>1, <2>2, <2>3
<1>4. QED BY <1>2, <1>3

\* OnDownloadList keeps versions and lists together.
LEMMA DownloadKeeps == ASSUME VersionInv, NEW g \in Group, OnDownloadList(g) PROVE VersionInv'
<1>. DEFINE b == [version |-> Built(g).version, list |-> Built(g).list]
<1>0. /\ ListTypes /\ Built(g) \in [version : Nat, list : Lists, Dirty : BOOLEAN]
      /\ Built(g).version >= served[g].version /\ b \in [version : Nat, list : Lists]
      /\ Built(g) = served[g] \/ \A x \in Held(g) : x.version < b.version
  BY BuiltFacts DEF VersionInv
<1>1. /\ served' = [served EXCEPT ![g] = Built(g)] /\ UNCHANGED <<entry, now, known>>
      /\ answers' \subseteq answers \cup {Answer(g, Built(g))}
  BY DEF OnDownloadList, clientVars
<1>2. ListTypes'
  <2>1. Answer(g, Built(g)) \in [group : Group, version : Nat, list : Lists] BY <1>0 DEF Answer
  <2>2. QED BY <1>0, <1>1, <2>1 DEF ListTypes
<1>3. \A h \in Group \ {g} : served'[h] = served[h] /\ Held(h)' \subseteq Held(h)
  BY <1>0, <1>1 DEF ListTypes, Held, InFlight, Answer
<1>4. served'[g] = Built(g) /\ \A x \in Held(g)' : x = b \/ x \in Held(g)
  <2>1. served'[g] = Built(g) BY <1>0, <1>1 DEF ListTypes
  <2>2. \A m \in InFlight(g)' : m \in InFlight(g) \/ [version |-> m.version, list |-> m.list] = b
    BY <1>1 DEF InFlight, Answer
  <2>3. QED BY <1>1, <2>1, <2>2 DEF Held
<1>. HIDE DEF b
<1>5. CASE Built(g) = served[g]
  <2>1. b \in Held(g) BY <1>5 DEF Held, b
  <2>2. \A h \in Group : Held(h)' \subseteq Held(h) /\ served'[h].version >= served[h].version
    <3>1. \A h \in Group : served[h].version >= served[h].version BY <1>0 DEF ListTypes
    <3>2. QED BY <1>3, <1>4, <1>5, <2>1, <3>1
  <2>3. now' >= now BY <1>1, ListAssumption DEF VersionInv, ListTypes
  <2>4. QED BY <1>2, <2>2, <2>3, NothingNew
<1>6. CASE \A x \in Held(g) : x.version < b.version
  <2>0. \A h \in Group : \A x \in Held(h) : x.version \in Nat BY <1>0, HeldType
  <2>1. VersionMeansList'
    <3>1. \A x, y \in Held(g)' : x.version = y.version /\ x.version # 0 => x.list = y.list
      <4>1. \A x, y \in Held(g) : x.version = y.version /\ x.version # 0 => x.list = y.list
        BY VersionsOfHeld DEF VersionInv
      <4>2. QED BY <1>0, <1>4, <1>6, <2>0, <4>1
    <3>2. QED BY <1>3, <3>1, VersionsOfHeld DEF VersionInv
  <2>2. NoneAhead'
    <3>1. \A x \in Held(g)' : x.version <= served'[g].version
      BY <1>0, <1>4, <1>6, <2>0 DEF b
    <3>2. \A h \in Group \ {g} : \A x \in Held(h)' :
              x.version <= served'[h].version \/ x.version < now'
      BY <1>1, <1>3 DEF VersionInv, NoneAhead
    <3>3. QED BY <3>1, <3>2 DEF NoneAhead
  <2>3. QED BY <1>2, <2>1, <2>2 DEF VersionInv
<1>7. QED BY <1>0, <1>5, <1>6

\* Every step keeps versions and lists together.
LEMMA NextVersionInv == ASSUME VersionInv, [Next]_vars PROVE VersionInv'
<1>0. /\ ListTypes /\ now \in Nat /\ MaxNow \in Nat /\ now <= MaxNow
      /\ \A g \in Group : /\ served[g] \in [version : Nat, list : Lists, Dirty : BOOLEAN]
                          /\ served[g].version \in Nat /\ served[g].version >= served[g].version
  BY ListAssumption DEF VersionInv, ListTypes
<1>1. CASE UNCHANGED <<entry, served, known, answers>> /\ now' >= now /\ now' \in 1 .. MaxNow
  <2>1. ListTypes' BY <1>0, <1>1 DEF ListTypes
  <2>2. \A g \in Group : Held(g)' = Held(g) BY <1>1 DEF Held, InFlight
  <2>3. QED BY <1>0, <1>1, <2>1, <2>2, NothingNew
<1>2. CASE UNCHANGED <<entry, served, known, answers, now>>
  <2>1. now' >= now /\ now' \in 1 .. MaxNow BY <1>0, <1>2 DEF ListTypes
  <2>2. QED BY <1>1, <1>2, <2>1
<1>3. ASSUME NEW g \in Group, NEW i \in Place,
             OnRemoveServerId(g, i) \/ \E a \in Address : OnNewServerId(g, i, a)
      PROVE  VersionInv'
  <2>1. PICK a \in Address \cup {None} :
          /\ entry' = [entry EXCEPT ![g][i] = a] /\ served' = [served EXCEPT ![g].Dirty = TRUE]
          /\ UNCHANGED <<now, answers, known>>
    BY <1>3 DEF OnRemoveServerId, OnNewServerId, Change, clientVars
  <2>2. ListTypes' BY <1>0, <2>1 DEF ListTypes
  <2>3. \A h \in Group : served'[h].version = served[h].version /\ served'[h].list = served[h].list
    BY <1>0, <2>1 DEF ListTypes
  <2>4. \A h \in Group : Held(h)' = Held(h) BY <2>1, <2>3 DEF Held, InFlight
  <2>5. now' >= now BY <1>0, <2>1
  <2>6. QED BY <1>0, <2>2, <2>3, <2>4, <2>5, NothingNew
<1>4. ASSUME NEW t \in 1 .. MaxNow, Restart(t) PROVE VersionInv'
  <2>1. /\ now' = t /\ t > now /\ (\A g \in Group : t > served[g].version)
        /\ entry' = [g \in Group |-> [i \in Place |-> None]]
        /\ served' = [g \in Group |-> NothingServed] /\ UNCHANGED <<answers, known>>
    BY <1>4 DEF Restart, clientVars
  <2>2. ListTypes'
    <3>1. NothingServed \in [version : Nat, list : Lists, Dirty : BOOLEAN]
      BY ListFacts DEF NothingServed
    <3>2. QED BY <1>0, <2>1, <3>1 DEF ListTypes
  <2>3. \A g \in Group : \A x \in Held(g)' : x \in Held(g) \/ x.version = 0
    BY <2>1 DEF Held, InFlight, NothingServed
  <2>4. now' >= now /\ \A g \in Group : now' > served[g].version BY <1>0, <2>1
  <2>5. QED BY <2>2, <2>3, <2>4, NothingNew
<1>5. CASE Loss
  <2>1. UNCHANGED <<entry, served, known, now>> /\ answers' \subseteq answers
    BY <1>5 DEF Loss, serverVars, clientVars
  <2>2. ListTypes' BY <1>0, <2>1 DEF ListTypes
  <2>3. \A g \in Group : Held(g)' \subseteq Held(g) BY <2>1 DEF Held, InFlight
  <2>4. now' >= now BY <1>0, <2>1
  <2>5. QED BY <1>0, <2>1, <2>2, <2>3, <2>4, NothingNew
<1>6. ASSUME NEW m \in answers, OnUdpPacket(m) PROVE VersionInv'
  <2>0. m \in [group : Group, version : Nat, list : Lists] BY <1>0 DEF ListTypes
  <2>1. UNCHANGED <<entry, served, now>> /\ answers' \subseteq answers
    BY <1>6 DEF OnUdpPacket, serverVars
  <2>2. \/ UNCHANGED known
        \/ known' = [known EXCEPT ![m.group] = [version |-> m.version, list |-> m.list]]
    BY <1>6 DEF OnUdpPacket
  <2>3. ListTypes'
    <3>. DEFINE x == [version |-> m.version, list |-> m.list]
    <3>1. x \in [version : Nat, list : Lists] /\ m.group \in Group BY <2>0
    <3>2. known \in [Group -> [version : Nat, list : Lists]] BY <1>0 DEF ListTypes
    <3>3. known' = known \/ known' = [known EXCEPT ![m.group] = x] BY <2>2
    <3>. HIDE DEF x
    <3>4. known' \in [Group -> [version : Nat, list : Lists]] BY <3>1, <3>2, <3>3
    <3>5. QED BY <1>0, <2>1, <3>4 DEF ListTypes
  <2>4. \A g \in Group : Held(g)' \subseteq Held(g)
    <3>1. \A g \in Group :
             \/ known'[g] = known[g]
             \/ g = m.group /\ known'[g] = [version |-> m.version, list |-> m.list]
      BY <1>0, <2>2 DEF ListTypes
    <3>2. \A g \in Group : g = m.group => [version |-> m.version, list |-> m.list] \in Held(g)
      BY DEF Held, InFlight
    <3>3. \A g \in Group : known[g] \in Held(g) /\ InFlight(g)' \subseteq InFlight(g)
      BY <2>1 DEF Held, InFlight
    <3>4. \A g \in Group : known'[g] \in Held(g) BY <3>1, <3>2, <3>3
    <3>5. QED BY <2>1, <3>3, <3>4 DEF Held
  <2>5. now' >= now BY <1>0, <2>1
  <2>6. QED BY <1>0, <2>1, <2>3, <2>4, <2>5, NothingNew
<1>7. ASSUME NEW d \in {0, 1}, TickBegin(d) PROVE VersionInv'
  <2>1. UNCHANGED <<entry, served, known, answers>> /\ now' = IF now + d < MaxNow THEN now + d ELSE MaxNow
    BY <1>7 DEF TickBegin
  <2>2. now' >= now /\ now' \in 1 .. MaxNow BY <1>0, <2>1 DEF ListTypes
  <2>3. QED BY <1>1, <2>1, <2>2
<1>8. CASE (\E g \in Group : UpdateOneEnabledServerList(g)) \/ UpdateNone \/ UNCHANGED vars
  BY <1>2, <1>8 DEF UpdateOneEnabledServerList, UpdateNone, vars, serverVars, clientVars
<1>9. QED
  BY <1>3, <1>4, <1>5, <1>6, <1>7, <1>8, DownloadKeeps DEF Next, Tick

\* Nothing is served or known at first.
LEMMA InitVersionInv == Init => VersionInv
<1>. SUFFICES ASSUME Init PROVE VersionInv
  OBVIOUS
<1>1. ListTypes
  <2>1. NothingServed \in [version : Nat, list : Lists, Dirty : BOOLEAN]
    BY ListFacts DEF NothingServed
  <2>2. [version |-> 0, list |-> <<>>] \in [version : Nat, list : Lists] BY ListFacts
  <2>3. QED BY <2>1, <2>2, ListAssumption DEF Init, ListTypes
<1>2. \A g \in Group : \A x \in Held(g) : x.version = 0
  BY DEF Init, Held, InFlight, NothingServed
<1>3. VersionMeansList BY <1>2, VersionsOfHeld
<1>4. NoneAhead BY <1>2, <1>1 DEF NoneAhead, ListTypes
<1>5. QED BY <1>1, <1>3, <1>4 DEF VersionInv

\* Lists, versions and the clock in every state that is reached.
THEOREM Invariance == Spec => []VersionInv
<1>1. QED BY InitVersionInv, NextVersionInv, PTL DEF Spec

\* Who has the version of a list has the list, whatever was lost or late and however
\* often the server was restarted.
THEOREM VersionsAreLists == Spec => []VersionMeansList
<1>1. VersionInv => VersionMeansList BY DEF VersionInv
<1>2. QED BY <1>1, Invariance, PTL

-----------------------------------------------------------------------------
(* The connections of those who use a list.                                *)

\* 1 if s is among the elements i to j of l.
Among(s, l, i, j) == IF \E k \in i .. j : l[k] = s THEN 1 ELSE 0

\* What one connection per server of a list looks like.
OneEach(l) == [s \in Server |-> Among(s, l, 1, Len(l))]

\* What is true after k rounds of the loop that takes the connections of the list old to
\* those of the list new.
LoopInv(old, new, k, r) ==
    /\ r \in [OldIndex : Nat, NewIndex : Nat, ids : Seq(Server), open : [Server -> Nat]]
    /\ r.OldIndex \in 1 .. Len(old) + 1 /\ r.NewIndex \in 1 .. Len(new) + 1
    /\ \/ r.OldIndex + r.NewIndex >= k + 2
       \/ r.OldIndex = Len(old) + 1 /\ r.NewIndex = Len(new) + 1
    /\ Len(r.ids) = r.NewIndex - 1 /\ \A j \in 1 .. r.NewIndex - 1 : r.ids[j] = new[j]
    /\ \A s \in Server : r.open[s] = Among(s, old, r.OldIndex, Len(old)) + Among(s, new, 1, r.NewIndex - 1)

\* One step of an index along a list: the element that is passed changes sides.
LEMMA AmongStep ==
    ASSUME NEW l \in Lists, NEW i \in 1 .. Len(l), NEW s \in Server
    PROVE  /\ Among(s, l, i, Len(l)) = Among(s, l, i + 1, Len(l)) + (IF l[i] = s THEN 1 ELSE 0)
           /\ Among(s, l, 1, i) = Among(s, l, 1, i - 1) + (IF l[i] = s THEN 1 ELSE 0)
<1>1. Len(l) \in Nat /\ \A j, k \in 1 .. Len(l) : l[j] = l[k] => j = k BY ListFacts DEF Lists
<1>2. CASE l[i] = s BY <1>1, <1>2 DEF Among
<1>3. CASE l[i] # s
  <2>1. \A k : k \in i .. Len(l) <=> k = i \/ k \in i + 1 .. Len(l) BY <1>1
  <2>2. \A k : k \in 1 .. i <=> k = i \/ k \in 1 .. i - 1 BY <1>1
  <2>3. QED BY <1>3, <2>1, <2>2 DEF Among
<1>4. QED BY <1>2, <1>3

\* The indices of a round, and what a list has there.
LEMMA RoundFacts ==
    ASSUME NEW old \in Lists, NEW new \in Lists, NEW k \in Nat, NEW r, LoopInv(old, new, k, r)
    PROVE  /\ r.OldIndex \in Nat /\ r.NewIndex \in Nat /\ Len(old) \in Nat /\ Len(new) \in Nat
           /\ r.OldIndex <= Len(old) => old[r.OldIndex] \in Server
           /\ r.NewIndex <= Len(new) => new[r.NewIndex] \in Server
BY ListFacts DEF LoopInv

\* Where the loop is, given its indices, its connections, and how many of them are open.
LEMMA LoopInvOf ==
    ASSUME NEW old \in Lists, NEW new \in Lists, NEW k \in Nat, NEW q,
           q = [OldIndex |-> q.OldIndex, NewIndex |-> q.NewIndex, ids |-> q.ids, open |-> q.open],
           q.OldIndex \in 1 .. Len(old) + 1, q.NewIndex \in 1 .. Len(new) + 1,
           \/ q.OldIndex + q.NewIndex >= k + 2
           \/ q.OldIndex = Len(old) + 1 /\ q.NewIndex = Len(new) + 1,
           q.ids \in Seq(Server), Len(q.ids) = q.NewIndex - 1,
           \A j \in 1 .. q.NewIndex - 1 : q.ids[j] = new[j],
           q.open = [s \in Server |-> q.open[s]],
           \A s \in Server :
               q.open[s] = Among(s, old, q.OldIndex, Len(old)) + Among(s, new, 1, q.NewIndex - 1)
    PROVE  LoopInv(old, new, k, q)
<1>1. ASSUME NEW s \in Server PROVE q.open[s] \in Nat
  <2>. DEFINE A == Among(s, old, q.OldIndex, Len(old))
              B == Among(s, new, 1, q.NewIndex - 1)
  <2>1. A \in {0, 1} /\ B \in {0, 1} /\ q.open[s] = A + B BY DEF Among
  <2>. HIDE DEF A, B
  <2>2. QED BY <2>1
<1>2. q.open \in [Server -> Nat] BY <1>1
<1>3. q.OldIndex \in Nat /\ q.NewIndex \in Nat BY ListFacts
<1>4. q \in [OldIndex : Nat, NewIndex : Nat, ids : Seq(Server), open : [Server -> Nat]]
  BY <1>2, <1>3
<1>5. QED BY <1>4 DEF LoopInv

\* A sequence that agrees with the first n - 1 elements of a list, and has one more.
LEMMA NextAppended ==
    ASSUME NEW new \in Lists, NEW ids \in Seq(Server), NEW n \in 1 .. Len(new),
           Len(ids) = n - 1, \A j \in 1 .. n - 1 : ids[j] = new[j]
    PROVE  /\ Append(ids, new[n]) \in Seq(Server) /\ Len(Append(ids, new[n])) = n
           /\ \A j \in 1 .. n : Append(ids, new[n])[j] = new[j]
<1>1. new[n] \in Server /\ n \in Nat BY ListFacts
<1>. DEFINE x == new[n]
            l == Append(ids, x)
<1>2. x \in Server /\ x = new[n] BY <1>1
<1>. HIDE DEF x
<1>3. l \in Seq(Server) /\ Len(l) = Len(ids) + 1 BY <1>2
<1>4. \A j \in 1 .. Len(ids) : l[j] = ids[j] BY <1>2
<1>5. l[Len(ids) + 1] = x BY <1>2
<1>. HIDE DEF l
<1>6. Len(ids) = n - 1 /\ Len(ids) + 1 = n BY <1>1
<1>7. \A j \in 1 .. n : j \in 1 .. Len(ids) \/ j = n BY <1>1, <1>6
<1>8. \A j \in 1 .. n : l[j] = new[j] BY <1>2, <1>4, <1>5, <1>6, <1>7
<1>9. QED BY <1>2, <1>3, <1>6, <1>8 DEF l

\* The server at OldIndex is passed, and its connection is closed.
LEMMA RemoveRound ==
    ASSUME NEW old \in Lists, NEW new \in Lists, NEW k \in Nat, NEW a, NEW r, LoopInv(old, new, k, r),
           a.ids = old, r.OldIndex <= Len(old)
    PROVE  LoopInv(old, new, k + 1, Remove(a, r))
<1>. DEFINE x == old[r.OldIndex]
            q == Remove(a, r)
<1>1. /\ r \in [OldIndex : Nat, NewIndex : Nat, ids : Seq(Server), open : [Server -> Nat]]
      /\ r.OldIndex \in 1 .. Len(old) /\ r.NewIndex \in 1 .. Len(new) + 1
      /\ Len(old) \in Nat /\ Len(new) \in Nat /\ x \in Server
  <2>1. Len(old) \in Nat /\ Len(new) \in Nat /\ x \in Server BY RoundFacts
  <2>2. QED BY <2>1 DEF LoopInv
<1>2. q = [r EXCEPT !.OldIndex = r.OldIndex + 1, !.open = [r.open EXCEPT ![x] = r.open[x] - 1]]
  BY DEF Remove, RemoveServer
<1>. HIDE DEF x, q
<1>3. /\ q.OldIndex = r.OldIndex + 1 /\ q.NewIndex = r.NewIndex /\ q.ids = r.ids
      /\ q.open = [r.open EXCEPT ![x] = r.open[x] - 1]
      /\ q = [OldIndex |-> q.OldIndex, NewIndex |-> q.NewIndex, ids |-> q.ids, open |-> q.open]
  BY <1>1, <1>2
<1>4. \A s \in Server :
         q.open[s] = Among(s, old, q.OldIndex, Len(old)) + Among(s, new, 1, q.NewIndex - 1)
  <2>1. \A s \in Server : q.open[s] = IF s = x THEN r.open[s] - 1 ELSE r.open[s] BY <1>1, <1>3
  <2>2. \A s \in Server :
           r.open[s] = Among(s, old, r.OldIndex, Len(old)) + Among(s, new, 1, r.NewIndex - 1)
    BY DEF LoopInv
  <2>3. \A s \in Server : Among(s, old, r.OldIndex, Len(old)) =
                 Among(s, old, r.OldIndex + 1, Len(old)) + (IF x = s THEN 1 ELSE 0)
    BY <1>1, AmongStep DEF x
  <2>4. ASSUME NEW s \in Server
        PROVE  q.open[s] = Among(s, old, q.OldIndex, Len(old)) + Among(s, new, 1, q.NewIndex - 1)
    <3>. DEFINE A == Among(s, old, r.OldIndex + 1, Len(old))
                B == Among(s, new, 1, r.NewIndex - 1)
                C == Among(s, old, r.OldIndex, Len(old))
    <3>1. A \in {0, 1} /\ B \in {0, 1} BY DEF Among
    <3>2. /\ C = A + (IF x = s THEN 1 ELSE 0) /\ r.open[s] = C + B
          /\ q.open[s] = IF s = x THEN r.open[s] - 1 ELSE r.open[s]
      BY <2>1, <2>2, <2>3
    <3>. HIDE DEF A, B, C
    <3>3. q.open[s] = A + B BY <3>1, <3>2
    <3>4. QED BY <1>3, <3>3 DEF A, B
  <2>5. QED BY <2>4
<1>5. q.open = [s \in Server |-> q.open[s]] BY <1>1, <1>3
<1>6. /\ \/ q.OldIndex + q.NewIndex >= k + 1 + 2
         \/ q.OldIndex = Len(old) + 1 /\ q.NewIndex = Len(new) + 1
      /\ q.OldIndex \in 1 .. Len(old) + 1 /\ q.NewIndex \in 1 .. Len(new) + 1
  <2>1. \/ r.OldIndex + r.NewIndex >= k + 2
        \/ r.OldIndex = Len(old) + 1 /\ r.NewIndex = Len(new) + 1
    BY DEF LoopInv
  <2>2. q.OldIndex \in 1 .. Len(old) + 1 /\ q.NewIndex \in 1 .. Len(new) + 1 BY <1>1, <1>3
  <2>3. r.OldIndex \in Nat /\ r.NewIndex \in Nat /\ r.OldIndex <= Len(old) BY <1>1
  <2>4. r.OldIndex + r.NewIndex >= k + 2 => r.OldIndex + 1 + r.NewIndex >= k + 1 + 2 BY <2>3
  <2>5. r.OldIndex + r.NewIndex >= k + 2 BY <1>1, <2>1, <2>3
  <2>6. q.OldIndex + q.NewIndex >= k + 1 + 2 BY <1>3, <2>4, <2>5
  <2>7. QED BY <2>2, <2>6
<1>7. /\ q.ids \in Seq(Server) /\ Len(q.ids) = q.NewIndex - 1
      /\ \A j \in 1 .. q.NewIndex - 1 : q.ids[j] = new[j]
  BY <1>1, <1>3 DEF LoopInv
<1>8. LoopInv(old, new, k + 1, q)
  <2>1. k + 1 \in Nat OBVIOUS
  <2>2. QED BY <1>3, <1>4, <1>5, <1>6, <1>7, <2>1, LoopInvOf
<1>9. QED BY <1>8 DEF q

\* A connection to the server at NewIndex is opened, and kept as the next one.
LEMMA AddRound ==
    ASSUME NEW old \in Lists, NEW new \in Lists, NEW k \in Nat, NEW r, LoopInv(old, new, k, r),
           r.NewIndex <= Len(new)
    PROVE  LoopInv(old, new, k + 1, Add(new, r))
<1>. DEFINE x == new[r.NewIndex]
            q == Add(new, r)
<1>1. /\ r \in [OldIndex : Nat, NewIndex : Nat, ids : Seq(Server), open : [Server -> Nat]]
      /\ r.OldIndex \in 1 .. Len(old) + 1 /\ r.NewIndex \in 1 .. Len(new)
      /\ Len(old) \in Nat /\ Len(new) \in Nat /\ x \in Server
  <2>1. Len(old) \in Nat /\ Len(new) \in Nat /\ x \in Server BY RoundFacts
  <2>2. QED BY <2>1 DEF LoopInv
<1>2. q = [r EXCEPT !.NewIndex = r.NewIndex + 1, !.ids = Append(r.ids, x),
                    !.open = [r.open EXCEPT ![x] = r.open[x] + 1]]
  BY DEF Add, AddServer
<1>. HIDE DEF x, q
<1>3. /\ q.OldIndex = r.OldIndex /\ q.NewIndex = r.NewIndex + 1 /\ q.ids = Append(r.ids, x)
      /\ q.open = [r.open EXCEPT ![x] = r.open[x] + 1]
      /\ q = [OldIndex |-> q.OldIndex, NewIndex |-> q.NewIndex, ids |-> q.ids, open |-> q.open]
  BY <1>1, <1>2
<1>4. \A s \in Server :
         q.open[s] = Among(s, old, q.OldIndex, Len(old)) + Among(s, new, 1, q.NewIndex - 1)
  <2>1. \A s \in Server : q.open[s] = IF s = x THEN r.open[s] + 1 ELSE r.open[s] BY <1>1, <1>3
  <2>2. \A s \in Server :
           r.open[s] = Among(s, old, r.OldIndex, Len(old)) + Among(s, new, 1, r.NewIndex - 1)
    BY DEF LoopInv
  <2>3. \A s \in Server : Among(s, new, 1, r.NewIndex) =
                 Among(s, new, 1, r.NewIndex - 1) + (IF x = s THEN 1 ELSE 0)
    BY <1>1, AmongStep DEF x
  <2>4. q.NewIndex - 1 = r.NewIndex BY <1>1, <1>3
  <2>5. ASSUME NEW s \in Server
        PROVE  q.open[s] = Among(s, old, q.OldIndex, Len(old)) + Among(s, new, 1, q.NewIndex - 1)
    <3>. DEFINE A == Among(s, old, r.OldIndex, Len(old))
                B == Among(s, new, 1, r.NewIndex - 1)
                C == Among(s, new, 1, r.NewIndex)
    <3>1. A \in {0, 1} /\ B \in {0, 1} BY DEF Among
    <3>2. /\ C = B + (IF x = s THEN 1 ELSE 0) /\ r.open[s] = A + B
          /\ q.open[s] = IF s = x THEN r.open[s] + 1 ELSE r.open[s]
      BY <2>1, <2>2, <2>3
    <3>. HIDE DEF A, B, C
    <3>3. q.open[s] = A + C BY <3>1, <3>2
    <3>4. QED BY <1>3, <2>4, <3>3 DEF A, C
  <2>6. QED BY <2>5
<1>5. q.open = [s \in Server |-> q.open[s]] BY <1>1, <1>3
<1>6. /\ q.ids \in Seq(Server) /\ Len(q.ids) = q.NewIndex - 1
      /\ \A j \in 1 .. q.NewIndex - 1 : q.ids[j] = new[j]
  <2>1. Len(r.ids) = r.NewIndex - 1 /\ \A j \in 1 .. r.NewIndex - 1 : r.ids[j] = new[j]
    BY DEF LoopInv
  <2>2. r.ids \in Seq(Server) /\ r.NewIndex \in 1 .. Len(new) /\ x = new[r.NewIndex] BY <1>1 DEF x
  <2>3. q.NewIndex - 1 = r.NewIndex BY <1>1, <1>3
  <2>4. /\ Append(r.ids, new[r.NewIndex]) \in Seq(Server)
        /\ Len(Append(r.ids, new[r.NewIndex])) = r.NewIndex
        /\ \A j \in 1 .. r.NewIndex : Append(r.ids, new[r.NewIndex])[j] = new[j]
    BY <2>1, <2>2, NextAppended
  <2>5. q.ids = Append(r.ids, new[r.NewIndex]) BY <1>3, <2>2
  <2>6. QED BY <2>3, <2>4, <2>5
<1>7. /\ \/ q.OldIndex + q.NewIndex >= k + 1 + 2
         \/ q.OldIndex = Len(old) + 1 /\ q.NewIndex = Len(new) + 1
      /\ q.OldIndex \in 1 .. Len(old) + 1 /\ q.NewIndex \in 1 .. Len(new) + 1
  <2>1. \/ r.OldIndex + r.NewIndex >= k + 2
        \/ r.OldIndex = Len(old) + 1 /\ r.NewIndex = Len(new) + 1
    BY DEF LoopInv
  <2>2. q.OldIndex \in 1 .. Len(old) + 1 /\ q.NewIndex \in 1 .. Len(new) + 1 BY <1>1, <1>3
  <2>3. r.OldIndex \in Nat /\ r.NewIndex \in Nat /\ r.NewIndex <= Len(new) BY <1>1
  <2>4. r.OldIndex + r.NewIndex >= k + 2 => r.OldIndex + (r.NewIndex + 1) >= k + 1 + 2 BY <2>3
  <2>5. r.OldIndex + r.NewIndex >= k + 2 BY <1>1, <2>1, <2>3
  <2>6. q.OldIndex + q.NewIndex >= k + 1 + 2 BY <1>3, <2>4, <2>5
  <2>7. QED BY <2>2, <2>6
<1>8. LoopInv(old, new, k + 1, q)
  <2>1. k + 1 \in Nat OBVIOUS
  <2>2. QED BY <1>3, <1>4, <1>5, <1>6, <1>7, <2>1, LoopInvOf
<1>9. QED BY <1>8 DEF q

\* The server is in both lists: its connection is kept.
LEMMA KeepRound ==
    ASSUME NEW old \in Lists, NEW new \in Lists, NEW k \in Nat, NEW a, NEW r, LoopInv(old, new, k, r),
           a.ids = old, r.OldIndex <= Len(old), r.NewIndex <= Len(new),
           old[r.OldIndex] = new[r.NewIndex]
    PROVE  LoopInv(old, new, k + 1, Keep(a, r))
<1>. DEFINE x == new[r.NewIndex]
            q == Keep(a, r)
<1>1. /\ r \in [OldIndex : Nat, NewIndex : Nat, ids : Seq(Server), open : [Server -> Nat]]
      /\ r.OldIndex \in 1 .. Len(old) /\ r.NewIndex \in 1 .. Len(new)
      /\ Len(old) \in Nat /\ Len(new) \in Nat /\ x \in Server
  <2>1. Len(old) \in Nat /\ Len(new) \in Nat /\ x \in Server BY RoundFacts
  <2>2. QED BY <2>1 DEF LoopInv
<1>2. q = [r EXCEPT !.OldIndex = r.OldIndex + 1, !.NewIndex = r.NewIndex + 1, !.ids = Append(r.ids, x)]
  BY DEF Keep
<1>0. old[r.OldIndex] = x OBVIOUS
<1>. HIDE DEF x, q
<1>3. /\ q.OldIndex = r.OldIndex + 1 /\ q.NewIndex = r.NewIndex + 1 /\ q.ids = Append(r.ids, x)
      /\ q.open = r.open
      /\ q = [OldIndex |-> q.OldIndex, NewIndex |-> q.NewIndex, ids |-> q.ids, open |-> q.open]
  BY <1>1, <1>2
<1>4. \A s \in Server :
         q.open[s] = Among(s, old, q.OldIndex, Len(old)) + Among(s, new, 1, q.NewIndex - 1)
  <2>1. \A s \in Server :
           r.open[s] = Among(s, old, r.OldIndex, Len(old)) + Among(s, new, 1, r.NewIndex - 1)
    BY DEF LoopInv
  <2>2. \A s \in Server :
           /\ Among(s, new, 1, r.NewIndex) =
                 Among(s, new, 1, r.NewIndex - 1) + (IF x = s THEN 1 ELSE 0)
           /\ Among(s, old, r.OldIndex, Len(old)) =
                 Among(s, old, r.OldIndex + 1, Len(old)) + (IF x = s THEN 1 ELSE 0)
    <3>1. r.OldIndex \in 1 .. Len(old) /\ r.NewIndex \in 1 .. Len(new) BY <1>1
    <3>2. \A s \in Server : Among(s, new, 1, r.NewIndex) =
                 Among(s, new, 1, r.NewIndex - 1) + (IF x = s THEN 1 ELSE 0)
      BY <3>1, AmongStep DEF x
    <3>3. \A s \in Server : Among(s, old, r.OldIndex, Len(old)) =
                 Among(s, old, r.OldIndex + 1, Len(old)) + (IF old[r.OldIndex] = s THEN 1 ELSE 0)
      BY <3>1, AmongStep
    <3>4. QED BY <1>0, <3>2, <3>3
  <2>3. q.NewIndex - 1 = r.NewIndex BY <1>1, <1>3
  <2>4. ASSUME NEW s \in Server
        PROVE  q.open[s] = Among(s, old, q.OldIndex, Len(old)) + Among(s, new, 1, q.NewIndex - 1)
    <3>. DEFINE A == Among(s, old, r.OldIndex, Len(old))
                B == Among(s, new, 1, r.NewIndex - 1)
                C == Among(s, old, r.OldIndex + 1, Len(old))
                D == Among(s, new, 1, r.NewIndex)
    <3>1. B \in {0, 1} /\ C \in {0, 1} BY DEF Among
    <3>2. /\ A = C + (IF x = s THEN 1 ELSE 0) /\ D = B + (IF x = s THEN 1 ELSE 0)
          /\ q.open[s] = A + B
      BY <1>3, <2>1, <2>2
    <3>. HIDE DEF A, B, C, D
    <3>3. q.open[s] = C + D BY <3>1, <3>2
    <3>4. QED BY <1>3, <2>3, <3>3 DEF C, D
  <2>5. QED BY <2>4
<1>5. q.open = [s \in Server |-> q.open[s]] BY <1>1, <1>3
<1>6. /\ q.ids \in Seq(Server) /\ Len(q.ids) = q.NewIndex - 1
      /\ \A j \in 1 .. q.NewIndex - 1 : q.ids[j] = new[j]
  <2>1. Len(r.ids) = r.NewIndex - 1 /\ \A j \in 1 .. r.NewIndex - 1 : r.ids[j] = new[j]
    BY DEF LoopInv
  <2>2. r.ids \in Seq(Server) /\ r.NewIndex \in 1 .. Len(new) /\ x = new[r.NewIndex] BY <1>1 DEF x
  <2>3. q.NewIndex - 1 = r.NewIndex BY <1>1, <1>3
  <2>4. /\ Append(r.ids, new[r.NewIndex]) \in Seq(Server)
        /\ Len(Append(r.ids, new[r.NewIndex])) = r.NewIndex
        /\ \A j \in 1 .. r.NewIndex : Append(r.ids, new[r.NewIndex])[j] = new[j]
    BY <2>1, <2>2, NextAppended
  <2>5. q.ids = Append(r.ids, new[r.NewIndex]) BY <1>3, <2>2
  <2>6. QED BY <2>3, <2>4, <2>5
<1>7. /\ \/ q.OldIndex + q.NewIndex >= k + 1 + 2
         \/ q.OldIndex = Len(old) + 1 /\ q.NewIndex = Len(new) + 1
      /\ q.OldIndex \in 1 .. Len(old) + 1 /\ q.NewIndex \in 1 .. Len(new) + 1
  <2>1. \/ r.OldIndex + r.NewIndex >= k + 2
        \/ r.OldIndex = Len(old) + 1 /\ r.NewIndex = Len(new) + 1
    BY DEF LoopInv
  <2>2. q.OldIndex \in 1 .. Len(old) + 1 /\ q.NewIndex \in 1 .. Len(new) + 1
    <3>1. r.OldIndex + 1 \in 1 .. Len(old) + 1 BY <1>1
    <3>2. r.NewIndex + 1 \in 1 .. Len(new) + 1 BY <1>1
    <3>3. QED BY <1>3, <3>1, <3>2
  <2>3. r.OldIndex \in Nat /\ r.NewIndex \in Nat /\ r.OldIndex <= Len(old) BY <1>1
  <2>4. r.OldIndex + r.NewIndex >= k + 2 BY <1>1, <2>1, <2>3
  <2>5. r.OldIndex + 1 + (r.NewIndex + 1) >= k + 1 + 2 BY <2>3, <2>4
  <2>6. QED BY <1>3, <2>2, <2>5
<1>8. LoopInv(old, new, k + 1, q)
  <2>1. k + 1 \in Nat OBVIOUS
  <2>2. QED BY <1>3, <1>4, <1>5, <1>6, <1>7, <2>1, LoopInvOf
<1>9. QED BY <1>8 DEF q

\* Every round passes a server of one of the lists, until both are done.
LEMMA EveryRound ==
    ASSUME NEW old \in Lists, NEW new \in Lists, NEW k \in Nat, NEW a, NEW r, LoopInv(old, new, k, r),
           a.ids = old
    PROVE  LoopInv(old, new, k + 1, Round(a, old, new, r))
<1>. DEFINE o == r.OldIndex
            n == r.NewIndex
<1>1. /\ o \in Nat /\ n \in Nat /\ Len(old) \in Nat /\ Len(new) \in Nat
      /\ o \in 1 .. Len(old) + 1 /\ n \in 1 .. Len(new) + 1
      /\ o <= Len(old) => old[o] \in Server /\ old[o].ServerId \in Nat
      /\ n <= Len(new) => new[n] \in Server /\ new[n].ServerId \in Nat
  <2>1. \A s \in Server : s.ServerId \in Nat BY DEF Server, Place
  <2>2. o \in 1 .. Len(old) + 1 /\ n \in 1 .. Len(new) + 1 BY DEF LoopInv
  <2>3. QED BY <2>1, <2>2, RoundFacts
<1>2. CASE o > Len(old) /\ n > Len(new)
  <2>1. Round(a, old, new, r) = r BY <1>1, <1>2 DEF Round
  <2>2. r.OldIndex = Len(old) + 1 /\ r.NewIndex = Len(new) + 1 BY <1>1, <1>2
  <2>3. LoopInv(old, new, k + 1, r) BY <2>2 DEF LoopInv
  <2>4. QED BY <2>1, <2>3
<1>3. CASE Round(a, old, new, r) = Remove(a, r) /\ o <= Len(old)
  BY <1>3, RemoveRound
<1>4. CASE Round(a, old, new, r) = Add(new, r) /\ n <= Len(new)
  BY <1>4, AddRound
<1>5. CASE Round(a, old, new, r) = Keep(a, r) /\ o <= Len(old) /\ n <= Len(new) /\ old[o] = new[n]
  BY <1>5, KeepRound
<1>6. CASE Round(a, old, new, r) = Add(new, Remove(a, r)) /\ o <= Len(old) /\ n <= Len(new)
  <2>. DEFINE q == Remove(a, r)
              p == Add(new, q)
  <2>1. LoopInv(old, new, k + 1, q) BY <1>6, RemoveRound
  <2>2. q.NewIndex = n
    <3>1. r \in [OldIndex : Nat, NewIndex : Nat, ids : Seq(Server), open : [Server -> Nat]]
      BY DEF LoopInv
    <3>2. QED BY <3>1 DEF Remove
  <2>3. k + 1 \in Nat /\ q.NewIndex <= Len(new) BY <1>6, <2>2
  <2>. HIDE DEF q
  <2>4. LoopInv(old, new, k + 1 + 1, p) BY <2>1, <2>3, AddRound
  <2>5. p.OldIndex \in Nat /\ p.NewIndex \in Nat
    <3>1. k + 1 + 1 \in Nat OBVIOUS
    <3>. HIDE DEF p
    <3>2. QED BY <2>4, <3>1, RoundFacts
  <2>. HIDE DEF p
  <2>6. LoopInv(old, new, k + 1, p)
    <3>1. p.OldIndex + p.NewIndex >= k + 1 + 1 + 2 => p.OldIndex + p.NewIndex >= k + 1 + 2
      BY <2>5
    <3>2. QED BY <2>4, <3>1 DEF LoopInv
  <2>7. QED BY <1>6, <2>6 DEF p, q
<1>7. \/ o > Len(old) /\ n > Len(new)
      \/ Round(a, old, new, r) = Remove(a, r) /\ o <= Len(old)
      \/ Round(a, old, new, r) = Add(new, r) /\ n <= Len(new)
      \/ Round(a, old, new, r) = Keep(a, r) /\ o <= Len(old) /\ n <= Len(new) /\ old[o] = new[n]
      \/ Round(a, old, new, r) = Add(new, Remove(a, r)) /\ o <= Len(old) /\ n <= Len(new)
  BY <1>1 DEF Round
<1>8. QED BY <1>2, <1>3, <1>4, <1>5, <1>6, <1>7

\* f is what the loop has done after each of n rounds.
AreRounds(f, a, old, new, n) ==
    f = [k \in 0 .. n |-> IF k = 0 THEN Start(a) ELSE Round(a, old, new, f[k - 1])]

\* Renewed is where that recursion ends.
LEMMA RenewedIs ==
    \A a, old, new :
        LET f == CHOOSE g : AreRounds(g, a, old, new, Len(old) + Len(new))
            r == f[Len(old) + Len(new)]
        IN  Renewed(a, old, new) = [ids |-> r.ids, open |-> r.open]
BY DEF Renewed, AreRounds

\* The loop gets through any number of rounds.
LEMMA RoundsExist ==
    ASSUME NEW a, NEW old, NEW new, NEW n \in Nat
    PROVE  \E f : AreRounds(f, a, old, new, n)
<1>. DEFINE Fails == {k \in Nat : ~\E f : AreRounds(f, a, old, new, k)}
<1>1. SUFFICES ASSUME Fails # {} PROVE FALSE
  OBVIOUS
<1>2. PICK k \in Fails : \A j \in Fails : k <= j BY <1>1, Smallest
<1>3. CASE k = 0
  <2>1. AreRounds([j \in 0 .. 0 |-> Start(a)], a, old, new, 0) BY DEF AreRounds
  <2>2. QED BY <1>2, <1>3, <2>1
<1>4. CASE k # 0
  <2>1. k - 1 \in Nat /\ k - 1 \notin Fails BY <1>2, <1>4
  <2>2. PICK h : AreRounds(h, a, old, new, k - 1) BY <2>1
  <2>. DEFINE f == [i \in 0 .. k |-> IF i < k THEN h[i] ELSE Round(a, old, new, h[k - 1])]
  <2>3. ASSUME NEW i \in 0 .. k
        PROVE  f[i] = IF i = 0 THEN Start(a) ELSE Round(a, old, new, f[i - 1])
    <3>1. CASE i = k BY <1>4, <2>1, <3>1
    <3>2. CASE i < k
      <4>1. i \in 0 .. k - 1 /\ f[i] = h[i] BY <3>2
      <4>2. i # 0 => f[i - 1] = h[i - 1] /\ i - 1 \in 0 .. k - 1 BY <3>2
      <4>. HIDE DEF f
      <4>3. QED BY <2>2, <4>1, <4>2 DEF AreRounds
    <3>3. QED BY <3>1, <3>2
  <2>4. AreRounds(f, a, old, new, k) BY <2>3 DEF AreRounds
  <2>5. QED BY <1>2, <2>4
<1>5. QED BY <1>3, <1>4

\* xAuditService::OnServerListUpdated leaves the connections of the new list.
LEMMA RenewedFollows ==
    ASSUME NEW old \in Lists, NEW new \in Lists, NEW a, a.ids = old, a.open = OneEach(old)
    PROVE  Renewed(a, old, new) = [ids |-> new, open |-> OneEach(new)]
<1>. DEFINE N == Len(old) + Len(new)
            f == CHOOSE g : AreRounds(g, a, old, new, N)
            Fails == {k \in 0 .. N : ~LoopInv(old, new, k, f[k])}
<1>0. Len(old) \in Nat /\ Len(new) \in Nat /\ N \in Nat BY ListFacts
<1>1. AreRounds(f, a, old, new, N) BY <1>0, RoundsExist
<1>2. Renewed(a, old, new) = [ids |-> f[N].ids, open |-> f[N].open] BY RenewedIs
<1>. HIDE DEF f
<1>3. LoopInv(old, new, 0, Start(a))
  <2>. DEFINE q == Start(a)
  <2>1. /\ q.OldIndex = 1 /\ q.NewIndex = 1 /\ q.ids = <<>> /\ q.open = OneEach(old)
        /\ q = [OldIndex |-> q.OldIndex, NewIndex |-> q.NewIndex, ids |-> q.ids, open |-> q.open]
    BY DEF Start
  <2>. HIDE DEF q
  <2>2. \A s \in Server : q.open[s] = Among(s, old, 1, Len(old)) + Among(s, new, 1, q.NewIndex - 1)
    <3>1. \A s : Among(s, new, 1, q.NewIndex - 1) = 0 BY <2>1 DEF Among
    <3>2. \A s \in Server : q.open[s] = Among(s, old, 1, Len(old)) BY <2>1 DEF OneEach
    <3>3. \A s : Among(s, old, 1, Len(old)) \in {0, 1} BY DEF Among
    <3>4. QED BY <3>1, <3>2, <3>3
  <2>3. q.open = [s \in Server |-> q.open[s]] BY <2>1 DEF OneEach
  <2>4. /\ q.ids \in Seq(Server) /\ Len(q.ids) = q.NewIndex - 1
        /\ \A j \in 1 .. q.NewIndex - 1 : q.ids[j] = new[j]
        /\ q.OldIndex \in 1 .. Len(old) + 1 /\ q.NewIndex \in 1 .. Len(new) + 1
        /\ q.OldIndex + q.NewIndex >= 0 + 2 /\ 0 \in Nat
    BY <1>0, <2>1
  <2>5. LoopInv(old, new, 0, q) BY <2>1, <2>2, <2>3, <2>4, LoopInvOf
  <2>6. QED BY <2>5 DEF q
<1>4. Fails = {}
  <2>1. SUFFICES ASSUME Fails # {} PROVE FALSE
    OBVIOUS
  <2>2. PICK k \in Fails : \A j \in Fails : k <= j
    <3>1. Fails \in SUBSET Nat BY <1>0
    <3>. HIDE DEF Fails
    <3>2. QED BY <2>1, <3>1, Smallest
  <2>3. k # 0
    <3>1. f[0] = Start(a) BY <1>0, <1>1 DEF AreRounds
    <3>2. QED BY <1>3, <2>2, <3>1
  <2>4. k - 1 \in 0 .. N /\ k - 1 \in Nat /\ k - 1 \notin Fails BY <1>0, <2>2, <2>3
  <2>5. LoopInv(old, new, k - 1, f[k - 1]) BY <2>4
  <2>6. f[k] = Round(a, old, new, f[k - 1]) BY <1>1, <2>2, <2>3 DEF AreRounds
  <2>7. LoopInv(old, new, k - 1 + 1, f[k]) BY <2>4, <2>5, <2>6, EveryRound
  <2>8. k - 1 + 1 = k BY <2>4
  <2>9. QED BY <2>2, <2>7, <2>8
<1>5. LoopInv(old, new, N, f[N]) BY <1>0, <1>4
<1>. DEFINE r == f[N]
<1>. HIDE DEF Fails, N
<1>6. /\ r \in [OldIndex : Nat, NewIndex : Nat, ids : Seq(Server), open : [Server -> Nat]]
      /\ r.OldIndex = Len(old) + 1 /\ r.NewIndex = Len(new) + 1
      /\ Len(r.ids) = r.NewIndex - 1 /\ \A j \in 1 .. r.NewIndex - 1 : r.ids[j] = new[j]
      /\ \A s \in Server : r.open[s] = Among(s, old, r.OldIndex, Len(old)) + Among(s, new, 1, r.NewIndex - 1)
  BY <1>0, <1>5 DEF LoopInv, N
<1>. HIDE DEF r
<1>7. r.ids = new
  <2>1. Len(r.ids) = Len(new) /\ \A j \in 1 .. Len(new) : r.ids[j] = new[j] BY <1>0, <1>6
  <2>2. r.ids \in Seq(Server) /\ new \in Seq(Server) BY <1>6 DEF Lists
  <2>3. QED BY <2>1, <2>2
<1>8. r.open = OneEach(new)
  <2>1. \A s \in Server : r.open[s] = Among(s, new, 1, Len(new))
    <3>1. \A s : Among(s, old, r.OldIndex, Len(old)) = 0 BY <1>0, <1>6 DEF Among
    <3>2. \A s : Among(s, new, 1, Len(new)) \in {0, 1} BY DEF Among
    <3>3. r.NewIndex - 1 = Len(new) BY <1>0, <1>6
    <3>4. QED BY <1>6, <3>1, <3>2, <3>3
  <2>2. QED BY <1>6, <2>1 DEF OneEach
<1>9. QED BY <1>2, <1>7, <1>8 DEF r

\* A list has each server once, or not.
LEMMA CountFacts ==
    ASSUME NEW l \in Lists, NEW s \in Server
    PROVE  Count(l, s) = Among(s, l, 1, Len(l))
<1>. DEFINE K == {k \in DOMAIN l : l[k] = s}
<1>1. DOMAIN l = 1 .. Len(l) /\ \A j, k \in DOMAIN l : l[j] = l[k] => j = k BY ListFacts DEF Lists
<1>2. CASE \E k \in DOMAIN l : l[k] = s
  <2>1. PICK k \in DOMAIN l : l[k] = s BY <1>2
  <2>2. K = {k} BY <1>1, <2>1
  <2>3. Cardinality(K) = 1 BY <2>2, FS_Singleton
  <2>4. QED BY <1>1, <1>2, <2>3 DEF Count, Among
<1>3. CASE ~\E k \in DOMAIN l : l[k] = s
  <2>1. K = {} BY <1>3
  <2>2. Cardinality(K) = 0 BY <2>1, FS_EmptySet
  <2>3. QED BY <1>1, <1>3, <2>2 DEF Count, Among
<1>4. QED BY <1>2, <1>3

\* The places of the servers of a list.
LEMMA SpreadFacts ==
    ASSUME NEW l \in Lists
    PROVE  /\ \A n \in DOMAIN l : Spread(l)[l[n].ServerId] = l[n].Address
           /\ \A s \in Server : Among(s, l, 1, Len(l)) = 1 <=> Spread(l)[s.ServerId] = s.Address
<1>0. /\ DOMAIN l = 1 .. Len(l) /\ \A n \in DOMAIN l : l[n] \in Server /\ l[n].ServerId \in Place
      /\ \A j, k \in DOMAIN l : l[j].ServerId = l[k].ServerId => j = k
      /\ None \notin Address
  BY ListFacts, ListAssumption DEF Lists
<1>1. ASSUME NEW n \in DOMAIN l PROVE Spread(l)[l[n].ServerId] = l[n].Address
  <2>. DEFINE i == l[n].ServerId
              c == CHOOSE s \in Server : s.ServerId = i /\ Count(l, s) > 0
  <2>1. \A s \in Server : Count(l, s) > 0 <=> \E k \in DOMAIN l : l[k] = s
    BY <1>0, CountFacts DEF Among
  <2>2. \E s \in Server : s.ServerId = i /\ Count(l, s) > 0 BY <1>0, <2>1
  <2>3. c \in Server /\ c.ServerId = i /\ Count(l, c) > 0 BY <2>2
  <2>4. c = l[n]
    <3>1. PICK k \in DOMAIN l : l[k] = c BY <2>1, <2>3
    <3>2. k = n BY <1>0, <2>3, <3>1
    <3>3. QED BY <3>1, <3>2
  <2>5. Spread(l)[i] = c.Address BY <1>0 DEF Spread
  <2>6. QED BY <2>4, <2>5
<1>2. ASSUME NEW s \in Server
      PROVE  Among(s, l, 1, Len(l)) = 1 <=> Spread(l)[s.ServerId] = s.Address
  <2>1. Among(s, l, 1, Len(l)) = 1 <=> \E n \in DOMAIN l : l[n] = s BY <1>0 DEF Among
  <2>2. s.ServerId \in Place /\ s.Address \in Address
        /\ s = [ServerId |-> s.ServerId, Address |-> s.Address] BY DEF Server
  <2>3. CASE \E n \in DOMAIN l : l[n].ServerId = s.ServerId
    <3>1. PICK n \in DOMAIN l : l[n].ServerId = s.ServerId BY <2>3
    <3>2. Spread(l)[s.ServerId] = l[n].Address BY <1>1, <3>1
    <3>3. l[n] = [ServerId |-> l[n].ServerId, Address |-> l[n].Address] BY <1>0 DEF Server
    <3>4. l[n] = s <=> l[n].Address = s.Address BY <2>2, <3>1, <3>3
    <3>5. \A k \in DOMAIN l : l[k] = s => k = n BY <1>0, <3>1
    <3>6. QED BY <2>1, <3>2, <3>4, <3>5
  <2>4. CASE ~\E n \in DOMAIN l : l[n].ServerId = s.ServerId
    <3>1. Spread(l)[s.ServerId] = None BY <2>2, <2>4 DEF Spread
    <3>2. QED BY <1>0, <2>1, <2>2, <2>4, <3>1
  <2>5. QED BY <2>3, <2>4
<1>3. QED BY <1>1, <1>2

\* The connections that the two users of a list have.
AuditOf(l) == [ids |-> l, open |-> OneEach(l)]
LinkOf(l) ==
    [at |-> Spread(l), packed |-> [n \in DOMAIN l |-> l[n].ServerId], open |-> OneEach(l)]

\* xSmallServerListTcpClient::UpdateServerList leaves the connections of the new list.
LEMMA RelinkedFollows ==
    ASSUME NEW old \in Lists, NEW new \in Lists
    PROVE  Relinked(LinkOf(old), new) = LinkOf(new)
<1>. DEFINE open == [s \in Server |->
             OneEach(old)[s]
             + (IF Spread(old)[s.ServerId] # Spread(new)[s.ServerId] /\ Spread(new)[s.ServerId] = s.Address
                THEN 1 ELSE 0)
             - (IF Spread(old)[s.ServerId] # Spread(new)[s.ServerId] /\ Spread(old)[s.ServerId] = s.Address
                THEN 1 ELSE 0)]
<1>1. \A s \in Server : s.ServerId \in Place BY DEF Server
<1>2. Relinked(LinkOf(old), new) =
         [at |-> Spread(new), packed |-> [n \in DOMAIN new |-> new[n].ServerId], open |-> open]
  BY <1>1 DEF Relinked, LinkOf
<1>3. ASSUME NEW s \in Server PROVE open[s] = OneEach(new)[s]
  <2>. DEFINE A == Among(s, old, 1, Len(old))
              B == Among(s, new, 1, Len(new))
              p == Spread(old)[s.ServerId]
              q == Spread(new)[s.ServerId]
  <2>1. /\ OneEach(old)[s] = A /\ OneEach(new)[s] = B
        /\ A \in {0, 1} /\ B \in {0, 1}
    BY DEF OneEach, Among
  <2>2. (A = 1 <=> p = s.Address) /\ (B = 1 <=> q = s.Address) BY SpreadFacts
  <2>3. open[s] = A + (IF p # q /\ q = s.Address THEN 1 ELSE 0)
                    - (IF p # q /\ p = s.Address THEN 1 ELSE 0)
    BY <2>1
  <2>. HIDE DEF A, B, p, q, open
  <2>4. QED BY <2>1, <2>2, <2>3
<1>4. open = OneEach(new)
  <2>1. open = [s \in Server |-> open[s]] /\ OneEach(new) = [s \in Server |-> OneEach(new)[s]]
    BY DEF OneEach
  <2>. HIDE DEF open
  <2>2. QED BY <1>3, <2>1
<1>5. QED BY <1>2, <1>4 DEF LinkOf

\* Both users of the lists have the connections of the list that the downloader has.
ConnectionsInv ==
    /\ audit = [g \in Group |-> AuditOf(known[g].list)]
    /\ link = [g \in Group |-> LinkOf(known[g].list)]

\* Nobody is connected at first.
LEMMA InitConnectionsInv == Init => ConnectionsInv
<1>. SUFFICES ASSUME Init PROVE ConnectionsInv
  OBVIOUS
<1>1. \A g \in Group : known[g].list = <<>> BY DEF Init
<1>2. OneEach(<<>>) = NoneOpen BY DEF OneEach, Among, NoneOpen
<1>3. Spread(<<>>) = [i \in Place |-> None] BY DEF Spread
<1>4. [n \in DOMAIN <<>> |-> <<>>[n].ServerId] = <<>> OBVIOUS
<1>5. AuditOf(<<>>) = [ids |-> <<>>, open |-> NoneOpen] BY <1>2 DEF AuditOf
<1>6. LinkOf(<<>>) = [at |-> [i \in Place |-> None], packed |-> <<>>, open |-> NoneOpen]
  BY <1>2, <1>3, <1>4 DEF LinkOf
<1>7. audit = [g \in Group |-> AuditOf(<<>>)] /\ link = [g \in Group |-> LinkOf(<<>>)]
  BY <1>5, <1>6 DEF Init
<1>8. QED BY <1>1, <1>7 DEF ConnectionsInv

\* Every step keeps them.
LEMMA NextConnectionsInv ==
    ASSUME ListTypes, ConnectionsInv, [Next]_vars PROVE ConnectionsInv'
<1>1. CASE UNCHANGED <<known, audit, link>> BY <1>1 DEF ConnectionsInv, AuditOf, LinkOf, OneEach, Among, Spread, Count
<1>2. ASSUME NEW m \in answers, OnUdpPacket(m), ~UNCHANGED <<known, audit, link>>
      PROVE  ConnectionsInv'
  <2>. DEFINE g == m.group
              old == known[g].list
  <2>1. g \in Group /\ m.list \in Lists /\ old \in Lists /\ known \in [Group -> [version : Nat, list : Lists]]
    BY DEF ListTypes
  <2>2. /\ known' = [known EXCEPT ![g] = [version |-> m.version, list |-> m.list]]
        /\ audit' = [audit EXCEPT ![g] = Renewed(audit[g], old, m.list)]
        /\ link' = [link EXCEPT ![g] = Relinked(link[g], m.list)]
    BY <1>2 DEF OnUdpPacket
  <2>3. audit[g] = AuditOf(old) /\ link[g] = LinkOf(old) BY <2>1 DEF ConnectionsInv
  <2>4. Renewed(audit[g], old, m.list) = AuditOf(m.list)
    <3>1. audit[g].ids = old /\ audit[g].open = OneEach(old) BY <2>3 DEF AuditOf
    <3>. HIDE DEF old, g
    <3>2. QED BY <2>1, <3>1, RenewedFollows DEF AuditOf
  <2>5. Relinked(link[g], m.list) = LinkOf(m.list) BY <2>1, <2>3, RelinkedFollows
  <2>. HIDE DEF old, g
  <2>6. \A h \in Group : known'[h].list = IF h = g THEN m.list ELSE known[h].list BY <2>1, <2>2
  <2>7. audit' = [h \in Group |-> AuditOf(known'[h].list)] BY <2>1, <2>2, <2>4, <2>6 DEF ConnectionsInv
  <2>8. link' = [h \in Group |-> LinkOf(known'[h].list)] BY <2>1, <2>2, <2>5, <2>6 DEF ConnectionsInv
  <2>9. QED BY <2>7, <2>8 DEF ConnectionsInv, AuditOf, LinkOf, OneEach, Among, Spread, Count
<1>3. \/ UNCHANGED <<known, audit, link>>
      \/ \E m \in answers : OnUdpPacket(m)
  BY DEF Next, Tick, TickBegin, UpdateOneEnabledServerList, UpdateNone, Loss, Restart,
         OnDownloadList, OnNewServerId, OnRemoveServerId, Change, vars, serverVars, clientVars
<1>4. QED BY <1>1, <1>2, <1>3

\* The connections of both users of the lists, in every state that is reached.
THEOREM ConnectionsInvariance == Spec => []ConnectionsInv
<1>1. VersionInv => ListTypes BY DEF VersionInv
<1>2. QED BY <1>1, InitConnectionsInv, NextConnectionsInv, Invariance, PTL DEF Spec

\* A hash selects an element of a list.
LEMMA Selects ==
    ASSUME NEW l \in Lists, l # <<>>, NEW h \in Hash
    PROVE  Len(l) \in Nat \ {0} /\ (h % Len(l)) + 1 \in DOMAIN l
<1>1. l \in Seq(Server) /\ Len(l) \in Nat /\ DOMAIN l = 1 .. Len(l) BY ListFacts
<1>2. Len(l) # 0 BY <1>1
<1>3. h \in Nat BY ListAssumption DEF Hash
<1>4. h % Len(l) \in 0 .. Len(l) - 1 BY <1>1, <1>2, <1>3
<1>5. QED BY <1>1, <1>2, <1>4

\* Whether a server is in the list that the downloader has.
LEMMA ListedIs ==
    ASSUME ListTypes, NEW g \in Group, NEW s \in Server
    PROVE  Listed(g, s) = OneEach(known[g].list)[s]
<1>1. known[g].list \in Lists BY DEF ListTypes
<1>2. Count(known[g].list, s) = Among(s, known[g].list, 1, Len(known[g].list)) BY <1>1, CountFacts
<1>3. QED BY <1>2 DEF Listed, OneEach, Among

\* What is reported of an account goes on a connection to the server that its hash
\* selects, and no other connection is left open.
THEOREM AuditFollows == Spec => []AuditConnectionsFollow
<1>1. ASSUME ListTypes, ConnectionsInv PROVE AuditConnectionsFollow
  <2>1. SUFFICES ASSUME NEW g \in Group
                 PROVE  /\ \A h \in Hash : ReportUsage(g, h) = ReportTarget(g, h)
                        /\ \A s \in Server : audit[g].open[s] = Listed(g, s)
    BY DEF AuditConnectionsFollow
  <2>. DEFINE l == known[g].list
  <2>2. audit[g].ids = l /\ audit[g].open = OneEach(l) /\ l \in Lists
    BY <1>1 DEF ConnectionsInv, AuditOf, ListTypes
  <2>3. \A s \in Server : audit[g].open[s] = Listed(g, s) BY <1>1, <2>2, ListedIs
  <2>4. Len(l) = 0 <=> l = <<>>
    <3>1. l \in Seq(Server) BY <2>2, ListFacts
    <3>2. QED BY <3>1
  <2>5. \A h \in Hash : ReportUsage(g, h) = ReportTarget(g, h) BY <2>2, <2>4 DEF ReportUsage, ReportTarget
  <2>6. QED BY <2>3, <2>5
<1>2. VersionInv => ListTypes BY DEF VersionInv
<1>3. QED BY <1>1, <1>2, Invariance, ConnectionsInvariance, PTL

\* A message goes to the server that its hash selects, on a connection that is open, and
\* no other is.
THEOREM PackedConnected == Spec => []PackedServersConnected
<1>1. ASSUME ListTypes, ConnectionsInv PROVE PackedServersConnected
  <2>1. SUFFICES ASSUME NEW g \in Group
                 PROVE  /\ \A h \in Hash : PostMessage(g, h) = ReportTarget(g, h)
                        /\ \A s \in Server : link[g].open[s] = Listed(g, s)
    BY DEF PackedServersConnected
  <2>. DEFINE l == known[g].list
              p == link[g].packed
  <2>2. /\ l \in Lists /\ link[g].at = Spread(l) /\ link[g].open = OneEach(l)
        /\ p = [n \in DOMAIN l |-> l[n].ServerId]
    BY <1>1 DEF ConnectionsInv, LinkOf, ListTypes
  <2>3. \A s \in Server : link[g].open[s] = Listed(g, s) BY <1>1, <2>2, ListedIs
  <2>4. l \in Seq(Server) /\ DOMAIN l = 1 .. Len(l) /\ Len(l) \in Nat BY <2>2, ListFacts
  <2>5. Len(p) = Len(l) /\ (p = <<>> <=> l = <<>>)
    <3>. HIDE DEF l, p
    <3>1. p \in Seq(Nat) BY <2>2, <2>4, ListFacts
    <3>2. Len(p) = Len(l) BY <2>2, <2>4, <3>1
    <3>3. QED BY <2>4, <3>1, <3>2
  <2>6. ASSUME NEW h \in Hash PROVE PostMessage(g, h) = ReportTarget(g, h)
    <3>1. CASE l = <<>> BY <2>5, <3>1 DEF PostMessage, ReportTarget
    <3>2. CASE l # <<>>
      <4>. DEFINE n == (h % Len(l)) + 1
      <4>1. n \in DOMAIN l BY <2>2, <3>2, Selects
      <4>2. PostMessage(g, h) = [ServerId |-> p[n], Address |-> link[g].at[p[n]]]
        BY <2>5, <3>2 DEF PostMessage
      <4>3. ReportTarget(g, h) = l[n] BY <3>2 DEF ReportTarget
      <4>4. p[n] = l[n].ServerId /\ link[g].at[p[n]] = l[n].Address BY <2>2, <4>1, SpreadFacts
      <4>5. l[n] = [ServerId |-> l[n].ServerId, Address |-> l[n].Address]
        BY <2>2, <4>1, ListFacts DEF Server
      <4>6. QED BY <4>2, <4>3, <4>4, <4>5
    <3>3. QED BY <3>1, <3>2
  <2>7. QED BY <2>3, <2>6
<1>2. VersionInv => ListTypes BY DEF VersionInv
<1>3. QED BY <1>1, <1>2, Invariance, ConnectionsInvariance, PTL
=============================================================================
