-------------------------- MODULE BinaryTreeProofs --------------------------
(***************************************************************************)
(* BinaryTree proved for every finite set of keys: the tree stays ordered, *)
(* its height fits its size, and its calls implement TreeStore.            *)
(***************************************************************************)
EXTENDS BinaryTree, SequenceTheorems, FunctionTheorems, FiniteSetTheorems, NaturalsInduction,
        WellFoundedInduction, TLAPS

-----------------------------------------------------------------------------
(* Sets of numbers.                                                        *)

LEMMA LeastNumber ==
  ASSUME NEW S \in SUBSET Nat, S # {}
  PROVE  \E m \in S : \A x \in S : m <= x
<1> DEFINE Less == {p \in Nat \X Nat : p[1] < p[2]}
<1>1. IsWellFoundedOn(Less, Nat)
  BY NatLessThanWellFounded, Zenon DEF OpToRel
<1>2. PICK m \in S : \A x \in S : ~(<<x, m>> \in Less)
  BY <1>1, WFMin
<1>3. ASSUME NEW x \in S PROVE m <= x
  <2>1. x \in Nat /\ m \in Nat /\ ~(<<x, m>> \in Less)
    BY <1>2
  <2> QED
    BY <2>1
<1> QED
  BY <1>3

\* A set of numbers with a bound has a greatest one, and Max is that one.
LEMMA GreatestNumber ==
  ASSUME NEW S \in SUBSET Nat, S # {}, NEW b \in Nat, \A x \in S : x <= b
  PROVE  Max(S) \in S /\ \A x \in S : x <= Max(S)
<1> DEFINE Gaps == {b - x : x \in S}
<1>1. Gaps \in SUBSET Nat /\ Gaps # {}
  <2>1. \A x \in S : x \in Nat /\ x <= b /\ b - x \in Nat
    OBVIOUS
  <2> QED
    BY <2>1
<1>2. PICK g \in Gaps : \A x \in Gaps : g <= x
  BY <1>1, LeastNumber
<1>3. PICK m \in S : g = b - m
  OBVIOUS
<1>4. \A x \in S : x <= m
  <2> SUFFICES ASSUME NEW x \in S PROVE x <= m
    OBVIOUS
  <2>1. b - x \in Gaps /\ x \in Nat /\ m \in Nat
    OBVIOUS
  <2> QED
    BY <1>2, <1>3, <2>1
<1>5. Max(S) \in S /\ \A x \in S : Max(S) >= x
  BY <1>4 DEF Max
<1> QED
  BY <1>5

-----------------------------------------------------------------------------
(* The tree between two calls.                                             *)

Entries == [key : Keys, value : Values]

Paths(t) ==
    /\ DOMAIN t \subseteq Seq(Sides) /\ IsFiniteSet(DOMAIN t)
    /\ t = [p \in DOMAIN t |-> t[p]]
    /\ \A p \in DOMAIN t : t[p] \in Entries

\* Every entry is where a search for its key comes to.
Ordered(t) == \A p \in DOMAIN t : LeadsTo(t, t[p].key, p)

TreeOK(t) == Paths(t) /\ Ordered(t)

LEMMA BeforeFacts ==
  ASSUME NEW p \in Seq(Sides), NEW i \in 1..Len(p)
  PROVE  /\ Before(p, i) \in Seq(Sides) /\ Len(Before(p, i)) = i - 1
         /\ \A j \in 1..i - 1 : Before(p, i)[j] = p[j]
<1>1. 1 \in 1..Len(p) + 1 /\ i - 1 \in 0..Len(p) /\ Len(p) \in Nat
  OBVIOUS
<1> QED
  BY <1>1, SubSeqProperties DEF Before

LEMMA SamePath ==
  ASSUME NEW p \in Seq(Sides), NEW q \in Seq(Sides), Len(p) = Len(q),
         \A i \in 1..Len(p) : p[i] = q[i]
  PROVE  p = q
BY SeqEqual

\* Two searches for one key go the same way.
LEMMA SameWay ==
  ASSUME NEW t, NEW k, NEW p \in Seq(Sides), NEW q \in Seq(Sides),
         LeadsTo(t, k, p), LeadsTo(t, k, q)
  PROVE  \A i \in 1..Len(p) : i <= Len(q) => p[i] = q[i]
<1> DEFINE Apart == {i \in 1..Len(p) : i <= Len(q) /\ p[i] # q[i]}
<1> SUFFICES ASSUME Apart # {} PROVE FALSE
  OBVIOUS
<1>1. Apart \in SUBSET Nat
  OBVIOUS
<1>2. PICK i \in Apart : \A j \in Apart : i <= j
  BY <1>1, LeastNumber
<1>3. i \in 1..Len(p) /\ i \in 1..Len(q) /\ Len(p) \in Nat /\ Len(q) \in Nat
  OBVIOUS
<1>4. \A j \in 1..i - 1 : p[j] = q[j]
  BY <1>2, <1>3
<1>5. Before(p, i) = Before(q, i)
  <2>1. /\ Before(p, i) \in Seq(Sides) /\ Len(Before(p, i)) = i - 1
        /\ \A j \in 1..i - 1 : Before(p, i)[j] = p[j]
    BY <1>3, BeforeFacts
  <2>2. /\ Before(q, i) \in Seq(Sides) /\ Len(Before(q, i)) = i - 1
        /\ \A j \in 1..i - 1 : Before(q, i)[j] = q[j]
    BY <1>3, BeforeFacts
  <2> HIDE DEF Apart
  <2> QED
    BY <1>4, <2>1, <2>2, SamePath
<1>6. p[i] = q[i]
  BY <1>3, <1>5 DEF LeadsTo
<1> QED
  BY <1>6

LEMMA NotBelow ==
  ASSUME NEW t, NEW k, NEW p \in Seq(Sides), NEW q \in Seq(Sides),
         LeadsTo(t, k, p), Stops(t, k, p), LeadsTo(t, k, q)
  PROVE  Len(q) <= Len(p)
<1> SUFFICES ASSUME Len(q) > Len(p) PROVE FALSE
  BY LenProperties
<1> DEFINE i == Len(p) + 1
<1>1. i \in 1..Len(q) /\ Len(p) \in Nat /\ Len(q) \in Nat
  OBVIOUS
<1>2. /\ Before(q, i) \in Seq(Sides) /\ Len(Before(q, i)) = Len(p)
      /\ \A j \in 1..Len(p) : Before(q, i)[j] = q[j]
  BY <1>1, BeforeFacts
<1>3. \A j \in 1..Len(p) : p[j] = q[j]
  BY <1>1, SameWay
<1>4. Before(q, i) = p
  BY <1>2, <1>3, SamePath
<1> QED
  BY <1>1, <1>4 DEF LeadsTo, Stops

\* A search for a key ends at one node.
LEMMA OnePlace ==
  ASSUME NEW t, NEW k, NEW p \in Seq(Sides), NEW q \in Seq(Sides),
         LeadsTo(t, k, p), Stops(t, k, p), LeadsTo(t, k, q), Stops(t, k, q)
  PROVE  p = q
<1>1. Len(p) = Len(q)
  BY NotBelow, LenProperties
<1>2. \A i \in 1..Len(p) : p[i] = q[i]
  BY <1>1, SameWay
<1> QED
  BY <1>1, <1>2, SamePath

LEMMA NoKeyTwice ==
  ASSUME NEW t, TreeOK(t), NEW p \in DOMAIN t, NEW q \in DOMAIN t, t[p].key = t[q].key
  PROVE  p = q
BY OnePlace DEF TreeOK, Paths, Ordered, Stops

-----------------------------------------------------------------------------
(* Heights.                                                                *)

\* A node is no deeper than there are entries.
LEMMA NotDeep ==
  ASSUME NEW t, TreeOK(t), NEW p \in DOMAIN t
  PROVE  Len(p) + 1 <= Cardinality(DOMAIN t)
<1>1. p \in Seq(Sides) /\ Len(p) \in Nat
  BY DEF TreeOK, Paths
<1> DEFINE f == [i \in 1..Len(p) + 1 |-> IF i = Len(p) + 1 THEN p ELSE Before(p, i)]
<1>2. \A i \in 1..Len(p) + 1 : f[i] \in DOMAIN t /\ f[i] \in Seq(Sides) /\ Len(f[i]) = i - 1
  BY <1>1, BeforeFacts DEF TreeOK, Ordered, LeadsTo
<1>3. f \in Injection(1..Len(p) + 1, DOMAIN t)
  <2>1. f \in [1..Len(p) + 1 -> DOMAIN t]
    BY <1>2
  <2>2. \A i, j \in 1..Len(p) + 1 : f[i] = f[j] => i = j
    BY <1>1, <1>2
  <2> HIDE DEF f
  <2> QED
    BY <2>1, <2>2 DEF Injection, IsInjective
<1>4. IsFiniteSet(DOMAIN t)
  BY DEF TreeOK, Paths
<1>5. Cardinality(1..Len(p) + 1) <= Cardinality(DOMAIN t)
  BY <1>3, <1>4, FS_Injection
<1>6. Cardinality(1..Len(p) + 1) = Len(p) + 1
  BY <1>1, FS_Interval
<1> QED
  BY <1>5, <1>6

LEMMA HeightFacts ==
  ASSUME NEW t, TreeOK(t)
  PROVE  /\ tree_size(t) \in Nat
         /\ tree_height(t) \in 0..tree_size(t)
         /\ \A p \in DOMAIN t : Len(p) + 1 <= tree_height(t)
<1> DEFINE S == {Len(p) + 1 : p \in DOMAIN t} \cup {0}
<1>1. tree_size(t) \in Nat
  BY FS_CardinalityType DEF TreeOK, Paths, tree_size
<1>2. S \in SUBSET Nat
  BY LenProperties DEF TreeOK, Paths
<1>3. \A x \in S : x <= tree_size(t)
  BY <1>1, NotDeep DEF tree_size
<1>4. Max(S) \in S /\ \A x \in S : x <= Max(S)
  BY <1>1, <1>2, <1>3, GreatestNumber
<1> QED
  BY <1>1, <1>2, <1>3, <1>4 DEF tree_height

\* A path is told by the set of its steps to the right and its length.
Code(p) == {i \in 1..Len(p) : p[i] = "direita"} \cup {Len(p) + 1}

LEMMA CodeTells ==
  ASSUME NEW p \in Seq(Sides), NEW q \in Seq(Sides), Code(p) = Code(q)
  PROVE  p = q
<1>1. Len(p) \in Nat /\ Len(q) \in Nat
  OBVIOUS
<1>2. Len(p) = Len(q)
  <2>1. Len(p) + 1 \in Code(q) /\ Len(q) + 1 \in Code(p)
    BY DEF Code
  <2>2. Len(p) + 1 <= Len(q) + 1 /\ Len(q) + 1 <= Len(p) + 1
    BY <1>1, <2>1 DEF Code
  <2> QED
    BY <1>1, <2>2
<1>3. \A i \in 1..Len(p) : p[i] \in Sides /\ q[i] \in Sides
  BY <1>2, ElementOfSeq
<1>4. \A i \in 1..Len(p) : p[i] = "direita" <=> q[i] = "direita"
  BY <1>1, <1>2 DEF Code
<1> QED
  BY <1>2, <1>3, <1>4, SamePath DEF Sides

LEMMA RoomByHeight ==
  ASSUME NEW t, TreeOK(t)
  PROVE  tree_size(t) < 2 ^ tree_height(t)
<1> DEFINE h == tree_height(t)
           C == SUBSET (1..h)
           D == C \ {{}}
           f == [p \in DOMAIN t |-> Code(p)]
<1>1. h \in Nat /\ tree_size(t) \in Nat
  BY HeightFacts
<1>2. IsFiniteSet(1..h) /\ Cardinality(1..h) = h
  BY <1>1, FS_Interval
<1>3. IsFiniteSet(C) /\ Cardinality(C) = 2 ^ h
  BY <1>2, FS_SUBSET
<1>4. Cardinality(C) \in Nat /\ IsFiniteSet(D) /\ Cardinality(D) = Cardinality(C) - 1
  BY <1>3, FS_CardinalityType, FS_RemoveElement
<1>5. \A p \in DOMAIN t : Code(p) \in D
  <2> SUFFICES ASSUME NEW p \in DOMAIN t PROVE Code(p) \in D
    OBVIOUS
  <2>1. Len(p) \in Nat /\ Len(p) + 1 <= h
    BY HeightFacts, LenProperties DEF TreeOK, Paths
  <2> QED
    BY <1>1, <2>1 DEF Code
<1>6. f \in Injection(DOMAIN t, D)
  <2>1. f \in [DOMAIN t -> D]
    BY <1>5
  <2>2. \A p, q \in DOMAIN t : f[p] = f[q] => p = q
    BY CodeTells DEF TreeOK, Paths
  <2> HIDE DEF f, D
  <2> QED
    BY <2>1, <2>2 DEF Injection, IsInjective
<1>7. tree_size(t) <= Cardinality(D)
  BY <1>4, <1>6, FS_Injection DEF tree_size
<1> QED
  BY <1>1, <1>3, <1>4, <1>7

-----------------------------------------------------------------------------
(* Where a search ends.                                                    *)

LEMMA GoesOn ==
  ASSUME NEW t, NEW k, NEW p \in Seq(Sides), p \in DOMAIN t, t[p].key # k, LeadsTo(t, k, p)
  PROVE  LeadsTo(t, k, Append(p, Side(t[p].key, k)))
<1> DEFINE s == Side(t[p].key, k)
           r == Append(p, s)
<1>1. s \in Sides
  BY DEF Side, Sides
<1>2. /\ r \in Seq(Sides) /\ Len(r) = Len(p) + 1 /\ Len(p) \in Nat
      /\ \A i \in 1..Len(p) : r[i] = p[i]
      /\ r[Len(p) + 1] = s
  BY <1>1, AppendProperties
<1> HIDE DEF r, s
<1> SUFFICES ASSUME NEW i \in 1..Len(r)
             PROVE  /\ Before(r, i) \in DOMAIN t
                    /\ t[Before(r, i)].key # k
                    /\ r[i] = Side(t[Before(r, i)].key, k)
  BY DEF LeadsTo, r, s
<1>3. /\ Before(r, i) \in Seq(Sides) /\ Len(Before(r, i)) = i - 1
      /\ \A j \in 1..i - 1 : Before(r, i)[j] = r[j]
  BY <1>2, BeforeFacts
<1>4. CASE i = Len(p) + 1
  <2>1. Before(r, i) = p
    BY <1>2, <1>3, <1>4, SamePath
  <2> QED
    BY <1>2, <1>4, <2>1 DEF s
<1>5. CASE i \in 1..Len(p)
  <2>1. /\ Before(p, i) \in Seq(Sides) /\ Len(Before(p, i)) = i - 1
        /\ \A j \in 1..i - 1 : Before(p, i)[j] = p[j]
    BY <1>5, BeforeFacts
  <2>2. Before(r, i) = Before(p, i)
    BY <1>2, <1>3, <1>5, <2>1, SamePath
  <2> QED
    BY <1>2, <1>5, <2>2 DEF LeadsTo
<1> QED
  BY <1>2, <1>4, <1>5

\* tree_put finds its place, in every tree.
LEMMA PlaceFacts ==
  ASSUME NEW t, TreeOK(t), NEW k
  PROVE  /\ Place(t, k) \in Nodes(t) /\ Place(t, k) \in Seq(Sides)
         /\ LeadsTo(t, k, Place(t, k)) /\ Stops(t, k, Place(t, k))
<1> DEFINE R == {p \in Nodes(t) : LeadsTo(t, k, p)}
           L == {Len(p) : p \in R}
<1>1. /\ Nodes(t) \subseteq Seq(Sides)
      /\ \A p \in Nodes(t) : Len(p) <= Cardinality(DOMAIN t)
  <2>1. Cardinality(DOMAIN t) \in Nat
    BY FS_CardinalityType DEF TreeOK, Paths
  <2>2. ASSUME NEW p \in DOMAIN t, NEW s \in Sides
        PROVE  Append(p, s) \in Seq(Sides) /\ Len(Append(p, s)) <= Cardinality(DOMAIN t)
    BY NotDeep, AppendProperties DEF TreeOK, Paths
  <2>3. Root \in Seq(Sides) /\ Len(Root) = 0
    BY DEF Root
  <2>4. ASSUME NEW p \in Nodes(t)
        PROVE  p \in Seq(Sides) /\ Len(p) <= Cardinality(DOMAIN t)
    <3>1. CASE p = Root
      BY <2>1, <2>3, <3>1
    <3>2. CASE p # Root
      <4>1. PICK q \in DOMAIN t, s \in Sides : p = Append(q, s)
        BY <3>2 DEF Nodes
      <4> QED
        BY <2>2, <4>1
    <3> QED
      BY <3>1, <3>2
  <2> QED
    BY <2>4
<1>2. Root \in R
  BY DEF Nodes, LeadsTo, Root
<1>3. L \in SUBSET Nat /\ L # {} /\ Cardinality(DOMAIN t) \in Nat
  BY ZenonT(40), <1>1, <1>2, FS_CardinalityType, LenProperties DEF TreeOK, Paths
<1>4. Max(L) \in L /\ \A x \in L : x <= Max(L)
  BY <1>1, <1>3, GreatestNumber
<1>5. PICK p \in R : \A q \in R : Len(q) <= Len(p)
  BY <1>4
<1>6. Stops(t, k, p)
  <2> SUFFICES ASSUME p \in DOMAIN t, t[p].key # k PROVE FALSE
    BY DEF Stops
  <2> DEFINE r == Append(p, Side(t[p].key, k))
  <2>1. Side(t[p].key, k) \in Sides
    BY DEF Side, Sides
  <2>2. p \in Seq(Sides) /\ LeadsTo(t, k, p)
    BY <1>1
  <2>3. LeadsTo(t, k, r)
    BY <2>2, GoesOn
  <2>4. r \in Nodes(t)
    BY <2>1 DEF Nodes
  <2>5. Len(r) = Len(p) + 1 /\ Len(p) \in Nat
    BY <2>1, <2>2, AppendProperties
  <2>6. Len(r) <= Len(p)
    BY <1>5, <2>3, <2>4
  <2> QED
    BY <2>5, <2>6
<1>7. \E q \in Nodes(t) : LeadsTo(t, k, q) /\ Stops(t, k, q)
  BY <1>6
<1> QED
  BY <1>1, <1>7 DEF Place

\* ... and finds a key that is stored.
LEMMA FindsKey ==
  ASSUME NEW t, TreeOK(t), NEW p \in DOMAIN t
  PROVE  Place(t, t[p].key) = p
<1>1. p \in Seq(Sides) /\ LeadsTo(t, t[p].key, p) /\ Stops(t, t[p].key, p)
  BY DEF TreeOK, Paths, Ordered, Stops
<1> QED
  BY <1>1, PlaceFacts, OnePlace

LEMMA StoreKeeps ==
  ASSUME NEW t, TreeOK(t), NEW k \in Keys, NEW v \in Values
  PROVE  TreeOK(Store(t, Place(t, k), Entry(k, v)))
<1> DEFINE p == Place(t, k)
           u == Store(t, p, Entry(k, v))
<1>1. p \in Seq(Sides) /\ LeadsTo(t, k, p) /\ Stops(t, k, p)
  BY PlaceFacts
<1> HIDE DEF p
<1>2. /\ DOMAIN u = DOMAIN t \cup {p} /\ u[p] = [key |-> k, value |-> v]
      /\ \A q \in DOMAIN t : q # p => u[q] = t[q]
      /\ u = [q \in DOMAIN u |-> u[q]]
  BY DEF Store, Entry
<1> HIDE DEF u
<1>3. Paths(u)
  <2>1. IsFiniteSet(DOMAIN u)
    BY <1>2, FS_AddElement DEF TreeOK, Paths
  <2>2. \A q \in DOMAIN u : u[q] \in Entries
    BY <1>2 DEF TreeOK, Paths, Entries
  <2> QED
    BY <1>1, <1>2, <2>1, <2>2 DEF TreeOK, Paths
<1>4. \A q \in DOMAIN t : u[q].key = t[q].key
  BY <1>1, <1>2 DEF Stops
<1>5. ASSUME NEW j, NEW q, LeadsTo(t, j, q) PROVE LeadsTo(u, j, q)
  BY <1>2, <1>4, <1>5 DEF LeadsTo
<1>6. \A q \in DOMAIN u : LeadsTo(u, u[q].key, q)
  <2> SUFFICES ASSUME NEW q \in DOMAIN u PROVE LeadsTo(u, u[q].key, q)
    OBVIOUS
  <2>1. CASE q = p
    BY <1>1, <1>2, <1>5, <2>1
  <2>2. CASE q \in DOMAIN t
    <3>1. LeadsTo(t, t[q].key, q)
      BY <2>2 DEF TreeOK, Ordered
    <3> QED
      BY <1>4, <1>5, <2>2, <3>1
  <2> QED
    BY <1>2, <2>1, <2>2
<1> QED
  BY <1>3, <1>6 DEF TreeOK, Ordered, u, p

LEMMA EmptyOK == TreeOK(tree_create)
<1>1. DOMAIN tree_create = {}
  BY DEF tree_create
<1>2. tree_create = [p \in {} |-> tree_create[p]]
  BY DEF tree_create
<1>3. IsFiniteSet({})
  BY FS_EmptySet
<1> QED
  BY <1>1, <1>2, <1>3 DEF TreeOK, Paths, Ordered

LEMMA NoRoot ==
  ASSUME NEW t, TreeOK(t), Root \notin DOMAIN t
  PROVE  t = tree_create
<1>1. ASSUME NEW p \in DOMAIN t PROVE FALSE
  <2>1. p \in Seq(Sides) /\ p # <<>>
    BY DEF TreeOK, Paths, Root
  <2>2. 1 \in 1..Len(p)
    BY <2>1, EmptySeq, LenProperties
  <2>3. Before(p, 1) = Root
    BY <2>1, <2>2, BeforeFacts, EmptySeq DEF Root
  <2> QED
    BY <2>2, <2>3 DEF TreeOK, Ordered, LeadsTo
<1>2. DOMAIN t = {} /\ t = [p \in DOMAIN t |-> t[p]]
  BY <1>1 DEF TreeOK, Paths
<1> QED
  BY <1>2 DEF tree_create

\* After the test of line 144 a root has no children: lines 155-171 are
\* never reached.
LEMMA LoneRoot ==
  ASSUME NEW t, TreeOK(t), Root \in DOMAIN t, ~(tree_size(t) > 1)
  PROVE  RemoveRoot(t) = Result(tree_create, 0)
<1>1. IsFiniteSet(DOMAIN t) /\ IsFiniteSet({Root}) /\ Cardinality({Root}) = 1
  BY FS_Singleton DEF TreeOK, Paths
<1>2. Cardinality(DOMAIN t) \in Nat /\ Cardinality(DOMAIN t) <= 1
  BY <1>1, FS_CardinalityType DEF tree_size
<1>3. {Root} = DOMAIN t
  <2>1. {Root} \in SUBSET (DOMAIN t)
    OBVIOUS
  <2>2. /\ 1 <= Cardinality(DOMAIN t)
        /\ Cardinality(DOMAIN t) = 1 => {Root} = DOMAIN t
    BY <1>1, <2>1, FS_Subset
  <2> QED
    BY <1>2, <2>2
<1>4. \A s \in Sides : Child(t, s) = tree_create
  <2> SUFFICES ASSUME NEW s \in Sides PROVE Child(t, s) = tree_create
    OBVIOUS
  <2>1. {p \in DOMAIN t : p # Root /\ Head(p) = s} = {}
    BY <1>3
  <2>2. {Tail(p) : p \in {p \in DOMAIN t : p # Root /\ Head(p) = s}} = {}
    BY <2>1
  <2> QED
    BY <2>2 DEF Child, tree_create
<1> QED
  BY <1>4 DEF RemoveRoot, Sides

-----------------------------------------------------------------------------
(* What is stored, as TreeStore sees it.                                   *)

Found(t, k) ==
    IF \E p \in DOMAIN t : t[p].key = k
    THEN t[CHOOSE p \in DOMAIN t : t[p].key = k].value
    ELSE NoData

LEMMA FoundThere ==
  ASSUME NEW t, TreeOK(t), NEW p \in DOMAIN t
  PROVE  Found(t, t[p].key) = t[p].value /\ t[p].value \in Values /\ t[p].value # NoData
<1> DEFINE q == CHOOSE q \in DOMAIN t : t[q].key = t[p].key
<1>1. q \in DOMAIN t /\ t[q].key = t[p].key
  OBVIOUS
<1>2. q = p
  BY <1>1, NoKeyTwice
<1>3. t[p].value \in Values
  BY DEF TreeOK, Paths, Entries
<1> QED
  BY <1>2, <1>3, BinaryTreeAssumption DEF Found

LEMMA FoundNowhere ==
  ASSUME NEW t, NEW k, \A p \in DOMAIN t : t[p].key # k
  PROVE  Found(t, k) = NoData
BY DEF Found

LEMMA PutIsFound ==
  ASSUME NEW t, TreeOK(t), NEW k \in Keys, NEW v \in Values, NEW j \in Keys
  PROVE  Found(Store(t, Place(t, k), Entry(k, v)), j) = IF j = k THEN v ELSE Found(t, j)
<1> DEFINE p == Place(t, k)
           u == Store(t, p, Entry(k, v))
<1>1. TreeOK(u) /\ Stops(t, k, p)
  BY StoreKeeps, PlaceFacts
<1> HIDE DEF p
<1>2. /\ DOMAIN u = DOMAIN t \cup {p} /\ u[p].key = k /\ u[p].value = v
      /\ \A q \in DOMAIN t : q # p => u[q] = t[q]
  BY DEF Store, Entry
<1> HIDE DEF u
<1>3. CASE j = k
  BY <1>1, <1>2, <1>3, FoundThere DEF u, p
<1>4. CASE j # k /\ \E q \in DOMAIN t : t[q].key = j
  <2>1. PICK q \in DOMAIN t : t[q].key = j
    BY <1>4
  <2>2. q # p
    BY <1>1, <1>4, <2>1 DEF Stops
  <2>3. u[q] = t[q] /\ q \in DOMAIN u
    BY <1>2, <2>2
  <2>4. Found(u, j) = t[q].value /\ Found(t, j) = t[q].value
    BY <1>1, <2>1, <2>3, FoundThere
  <2> QED
    BY <1>4, <2>4 DEF u, p
<1>5. CASE j # k /\ \A q \in DOMAIN t : t[q].key # j
  <2>1. \A q \in DOMAIN u : u[q].key # j
    BY <1>2, <1>5
  <2> QED
    BY <1>5, <2>1, FoundNowhere DEF u, p
<1> QED
  BY <1>3, <1>4, <1>5

LEMMA SizeIsKeys ==
  ASSUME NEW t, TreeOK(t)
  PROVE  Cardinality({k \in Keys : Found(t, k) # NoData}) = tree_size(t)
<1> DEFINE K == {k \in Keys : Found(t, k) # NoData}
           f == [p \in DOMAIN t |-> t[p].key]
<1>1. ASSUME NEW p \in DOMAIN t PROVE t[p].key \in K
  <2>1. t[p].key \in Keys
    BY DEF TreeOK, Paths, Entries
  <2> QED
    BY <2>1, FoundThere
<1>2. \A k \in K : \E p \in DOMAIN t : t[p].key = k
  BY DEF Found
<1>3. f \in [DOMAIN t -> K]
  BY <1>1
<1>4. \A p, q \in DOMAIN t : f[p] = f[q] => p = q
  BY NoKeyTwice
<1>5. \A k \in K : \E p \in DOMAIN t : f[p] = k
  BY <1>2
<1> HIDE DEF f, K
<1>6. f \in Bijection(DOMAIN t, K)
  BY <1>3, <1>4, <1>5 DEF Bijection, Injection, Surjection, IsInjective
<1>7. ExistsBijection(DOMAIN t, K)
  BY <1>6 DEF ExistsBijection
<1>8. IsFiniteSet(DOMAIN t)
  BY DEF TreeOK, Paths
<1> QED
  BY <1>7, <1>8, FS_Bijection DEF tree_size, K

LEMMA ViewFacts ==
  ASSUME TreeOK(tree)
  PROVE  /\ View.root = IF Root \in DOMAIN tree THEN tree[Root].key ELSE NoKey
         /\ View.data = [k \in Keys |-> Found(tree, k)]
         /\ Map!tree_size(View) = tree_size(tree)
<1>1. /\ View.root = IF Root \in DOMAIN tree THEN tree[Root].key ELSE NoKey
      /\ View.data = [k \in Keys |-> Found(tree, k)]
  BY DEF View, Found
<1>2. Map!KeysOf(View) = {k \in Keys : Found(tree, k) # NoData}
  BY <1>1 DEF Map!KeysOf
<1>3. Cardinality(Map!KeysOf(View)) = tree_size(tree)
  BY <1>2, SizeIsKeys
<1> QED
  BY <1>1, <1>3 DEF Map!tree_size, Map!Cardinality, Cardinality

LEMMA EmptyView ==
  ASSUME tree = tree_create
  PROVE  View = Map!tree_create
<1>1. DOMAIN tree = {}
  BY DEF tree_create
<1> QED
  BY <1>1 DEF View, Map!tree_create

-----------------------------------------------------------------------------
(* The calls.                                                              *)

LEMMA PutStep ==
  ASSUME TreeOK(tree), NEW k \in Keys, NEW v \in Values \cup {NoData}, Put(k, v)
  PROVE  TreeOK(tree') /\ Map!Put(k, v) /\ ret' \in Int
<1>1. CASE v = NoData
  <2>1. tree' = tree /\ ret' = -1 /\ call' = <<"tree_put", k, v>>
    BY <1>1 DEF Put, tree_put, Result
  <2>2. View' = View
    BY <2>1 DEF View
  <2> QED
    BY <1>1, <2>1, <2>2 DEF Map!Put, Map!tree_put
<1>2. CASE v # NoData
  <2> DEFINE p == Place(tree, k)
  <2>0. v \in Values
    BY <1>2
  <2>1. /\ tree' = Store(tree, p, Entry(k, v)) /\ ret' = IF p = Root THEN 0 ELSE -1
        /\ call' = <<"tree_put", k, v>>
    BY <1>2 DEF Put, tree_put, Result
  <2>2. TreeOK(tree')
    BY <2>0, <2>1, StoreKeeps
  <2>3. p \in Seq(Sides) /\ LeadsTo(tree, k, p) /\ Stops(tree, k, p)
    BY PlaceFacts
  <2>4. p = Root <=> Stops(tree, k, Root)
    <3>1. Root \in Seq(Sides) /\ LeadsTo(tree, k, Root)
      BY DEF Root, LeadsTo
    <3> QED
      BY <2>3, <3>1, OnePlace
  <2>5. p # Root => Root \in DOMAIN tree
    BY <2>4 DEF Stops
  <2>6. /\ DOMAIN tree' = DOMAIN tree \cup {p} /\ tree'[p].key = k
        /\ \A q \in DOMAIN tree : q # p => tree'[q] = tree[q]
    BY <2>1 DEF Store, Entry
  <2> HIDE DEF p
  <2>7. View'.root = IF View.root = NoKey THEN k ELSE View.root
    <3>1. View'.root = IF Root \in DOMAIN tree' THEN tree'[Root].key ELSE NoKey
      BY DEF View
    <3>2. View.root = IF Root \in DOMAIN tree THEN tree[Root].key ELSE NoKey
      BY DEF View
    <3>3. Root \in DOMAIN tree => tree[Root].key # NoKey
      BY BinaryTreeAssumption DEF TreeOK, Paths, Entries
    <3>4. CASE p = Root
      BY <2>4, <2>6, <3>1, <3>2, <3>3, <3>4 DEF Stops
    <3>5. CASE p # Root
      BY <2>5, <2>6, <3>1, <3>2, <3>3, <3>5
    <3> QED
      BY <3>4, <3>5
  <2>8. View'.data = [View.data EXCEPT ![k] = v]
    <3>1. \A j \in Keys : Found(tree', j) = IF j = k THEN v ELSE Found(tree, j)
      BY <2>0, <2>1, PutIsFound DEF p
    <3>2. View'.data = [j \in Keys |-> Found(tree', j)]
      BY DEF View, Found
    <3>3. View.data = [j \in Keys |-> Found(tree, j)]
      BY ViewFacts
    <3> QED
      BY <3>1, <3>2, <3>3
  <2>9. View' = [root |-> View'.root, data |-> View'.data]
    BY DEF View
  <2>10. View' = Map!tree_put(View, k, v)
    BY <1>2, <2>7, <2>8, <2>9 DEF Map!tree_put
  <2>11. ret' = IF View.root \in {k, NoKey} THEN 0 ELSE -1
    <3>1. Root \in DOMAIN tree => tree[Root].key # NoKey
      BY BinaryTreeAssumption DEF TreeOK, Paths, Entries
    <3>2. View.root = IF Root \in DOMAIN tree THEN tree[Root].key ELSE NoKey
      BY DEF View
    <3>3. k # NoKey
      BY BinaryTreeAssumption
    <3> QED
      BY <2>1, <2>4, <3>1, <3>2, <3>3 DEF Stops, p
  <2> QED
    BY <1>2, <2>1, <2>2, <2>10, <2>11 DEF Map!Put
<1> QED
  BY <1>1, <1>2

LEMMA DelStep ==
  ASSUME TreeOK(tree), NEW k \in Keys, Del(k)
  PROVE  TreeOK(tree') /\ Map!Del(k) /\ ret' \in Int
<1>0. k # NoKey
  BY BinaryTreeAssumption
<1>1. CASE Root \in DOMAIN tree /\ ~(tree_size(tree) > 1) /\ tree[Root].key = k
  <2>1. tree' = tree_create /\ ret' = 0 /\ call' = <<"tree_del", k>>
    BY <1>1, LoneRoot DEF Del, tree_del, Result
  <2>2. View' = Map!tree_create
    <3>1. DOMAIN tree' = {}
      BY <2>1 DEF tree_create
    <3> QED
      BY <3>1 DEF View, Map!tree_create
  <2>3. View.root = k /\ Map!tree_create.root = NoKey
    BY <1>1 DEF View, Map!tree_create
  <2>4. Map!tree_size(View) <= 1
    BY <1>1, ViewFacts, HeightFacts
  <2> QED
    BY <1>0, <2>1, <2>2, <2>3, <2>4, EmptyOK DEF Map!Del, Map!tree_del
<1>2. CASE ~(Root \in DOMAIN tree /\ ~(tree_size(tree) > 1) /\ tree[Root].key = k)
  <2>1. tree' = tree /\ ret' = -1 /\ call' = <<"tree_del", k>>
    BY <1>2 DEF Del, tree_del, Result
  <2>2. View' = View
    BY <2>1 DEF View
  <2>3. View.root # k \/ ~(Map!tree_size(View) <= 1)
    BY <1>0, <1>2, ViewFacts, HeightFacts
  <2> QED
    BY <2>1, <2>2, <2>3 DEF Map!Del, Map!tree_del
<1> QED
  BY <1>1, <1>2

LEMMA GetStep ==
  ASSUME TreeOK(tree), NEW k \in Keys, Get(k)
  PROVE  TreeOK(tree') /\ Map!Get(k) /\ ret' \in Values \cup {NoData}
<1>1. tree' = tree /\ call' = <<"tree_get", k>> /\ ret' = tree_get(tree, k)
  BY DEF Get
<1>2. View' = View
  BY <1>1 DEF View
<1>3. CASE Root \in DOMAIN tree /\ tree[Root].key = k
  <2>1. /\ Found(tree, k) = tree[Root].value /\ tree[Root].value \in Values
    BY <1>3, FoundThere
  <2>2. View.root = k /\ View.data[k] = tree[Root].value
    BY <1>3, <2>1, ViewFacts
  <2> QED
    BY <1>1, <1>2, <1>3, <2>1, <2>2 DEF tree_get, Map!Get, Map!tree_get
<1>4. CASE ~(Root \in DOMAIN tree /\ tree[Root].key = k)
  <2>1. View.root # k
    BY <1>4, BinaryTreeAssumption DEF View
  <2> QED
    BY <1>1, <1>2, <1>4, <2>1 DEF tree_get, Map!Get, Map!tree_get
<1> QED
  BY <1>3, <1>4

LEMMA SizeStep ==
  ASSUME TreeOK(tree), Size
  PROVE  TreeOK(tree') /\ Map!Size /\ ret' \in Int
<1>1. tree' = tree /\ call' = <<"tree_size">> /\ ret' = tree_size(tree)
  BY DEF Size
<1>2. View' = View
  BY <1>1 DEF View
<1> QED
  BY <1>1, <1>2, ViewFacts, HeightFacts DEF Map!Size

\* What a step of the tree does is the call of TreeStore.
LEMMA Simulation ==
  TreeOK(tree) /\ [Next]_vars => TreeOK(tree') /\ [Map!Next]_(Map!vars)
<1> SUFFICES ASSUME TreeOK(tree), [Next]_vars
             PROVE  TreeOK(tree') /\ [Map!Next]_(Map!vars)
  OBVIOUS
<1>1. ASSUME NEW k \in Keys, Del(k) PROVE TreeOK(tree') /\ Map!Next
  BY <1>1, DelStep DEF Map!Next
<1>2. ASSUME NEW k \in Keys, Get(k) PROVE TreeOK(tree') /\ Map!Next
  BY <1>2, GetStep DEF Map!Next
<1>3. ASSUME NEW k \in Keys, NEW v \in Values \cup {NoData}, Put(k, v)
      PROVE  TreeOK(tree') /\ Map!Next
  BY <1>3, PutStep DEF Map!Next, Map!Data
<1>4. CASE Size
  BY <1>4, SizeStep DEF Map!Next
<1>5. CASE UNCHANGED vars
  BY <1>5 DEF vars, Map!vars, View
<1> QED
  BY <1>1, <1>2, <1>3, <1>4, <1>5 DEF Next

IInv == TreeOK(tree)

LEMMA Inductive == IInv /\ [Next]_vars => IInv' /\ [Map!Next]_(Map!vars)
BY Simulation DEF IInv

LEMMA Invariance == Spec => []IInv
<1>1. Init => IInv
  BY EmptyOK DEF Init, IInv
<1> QED
  BY <1>1, Inductive, PTL DEF Spec

\* Whatever was put and deleted, a search for a stored key comes to it: the
\* two comparisons of tree_put (tree.c:92-97) keep the order they rely on.
THEOREM TreeStaysOrdered == Spec => []SearchOrder
<1>1. IInv => SearchOrder
  <2> SUFFICES ASSUME TreeOK(tree), NEW q \in DOMAIN tree, NEW i \in 1..Len(q)
               PROVE  IF q[i] = "esquerda"
                      THEN tree[q].key < tree[Before(q, i)].key
                      ELSE tree[q].key > tree[Before(q, i)].key
    BY DEF SearchOrder, IInv
  <2>1. /\ Before(q, i) \in DOMAIN tree
        /\ tree[Before(q, i)].key # tree[q].key
        /\ q[i] = Side(tree[Before(q, i)].key, tree[q].key)
    BY DEF TreeOK, Ordered, LeadsTo
  <2>2. tree[q].key \in Int /\ tree[Before(q, i)].key \in Int
    BY <2>1, BinaryTreeAssumption DEF TreeOK, Paths, Entries
  <2> QED
    BY <2>1, <2>2 DEF Side
<1> QED
  BY <1>1, Invariance, PTL

\* tree_height and tree_size (tree.c:207-235) fit each other in every tree the
\* calls can build.
THEOREM HeightAndSizeFit == Spec => []HeightFitsSize
<1>1. IInv => HeightFitsSize
  BY HeightFacts, RoomByHeight DEF HeightFitsSize, IInv
<1> QED
  BY <1>1, Invariance, PTL

\* The tree of tree.c, node by node, answers every call like the map with a
\* root that the server modules put in its place.
THEOREM TreeIsAStore == Spec => ImplementsStore
<1>1. Init => Map!Init
  BY EmptyView DEF Init, Map!Init
<1> QED
  BY <1>1, Invariance, Inductive, PTL DEF Spec, ImplementsStore, Map!Spec

\* No call of tree_del follows a NULL pointer: the branches that would
\* (tree.c:155-171) need a tree that line 144 has refused.
THEOREM NoNullFollowed == Spec => [](ret # Segfault)
<1>1. Init => ret # Segfault
  BY BinaryTreeAssumption DEF Init
<1>2. IInv /\ ret # Segfault /\ [Next]_vars => (ret # Segfault)'
  <2> SUFFICES ASSUME TreeOK(tree), ret # Segfault, [Next]_vars
               PROVE  ret' # Segfault
    BY DEF IInv
  <2>1. CASE UNCHANGED vars
    BY <2>1 DEF vars
  <2>2. CASE Next
    <3>1. ret' \in Int \cup Values \cup {NoData}
      BY <2>2, DelStep, GetStep, PutStep, SizeStep DEF Next
    <3> QED
      BY <3>1, BinaryTreeAssumption
  <2> QED
    BY <2>1, <2>2
<1> QED
  BY <1>1, <1>2, Invariance, PTL DEF Spec

=============================================================================
