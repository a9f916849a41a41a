----------------------------- MODULE BinaryTree -----------------------------
(***************************************************************************)
(* tree.c node by node.  A node is named by the way to it from the root, a *)
(* sequence of the fields esquerda and direita; a tree is the function     *)
(* from the nodes whose raiz is set to their entries.  Leaves are          *)
(* allocated: a node with an entry has two children (tree_put, lines       *)
(* 80-81), so a call on a child looks at a node that is there.  Where the  *)
(* functions recurse, the calls are those on the nodes down one path, or   *)
(* on all nodes (tree_size, tree_height), and are said by that set.        *)
(* The functions that write through the pointer return the new tree next   *)
(* to their C result.  A dereferenced NULL is the result Segfault.         *)
(* strcmp's order on keys is the order of the integers that stand for them.*)
(***************************************************************************)
EXTENDS Integers, Sequences, FiniteSetsExt

CONSTANTS Keys, Values, NULL, NoKey, NoData, Segfault

ASSUME BinaryTreeAssumption ==
    /\ Keys \subseteq Int
    /\ NoKey \notin Keys
    /\ NoData \notin Values
    /\ Segfault \notin Int \cup Values \cup {NoData}

VARIABLES
    tree,   \* the root node
    call,   \* the last call and its arguments
    ret     \* what it returned

vars == <<tree, call, ret>>

Sides == {"esquerda", "direita"}

Root == <<>>

Result(t, r) == [tree |-> t, ret |-> r]

tree_create == [p \in {} |-> NULL]

tree_size(t) == Cardinality(DOMAIN t)

(* Mutant: the right side does not count. *)
HeightOfLeftSide(t) ==
    Max({Len(p) + 1 : p \in {q \in DOMAIN t : \A i \in 1..Len(q) : q[i] = "esquerda"}} \cup {0})

tree_height(t) == Max({Len(p) + 1 : p \in DOMAIN t} \cup {0})

Entry(k, v) == [key |-> k, value |-> v]

(* Mutant: the arguments of strcmp are swapped. *)
OtherSide(have, want) == IF have > want THEN "direita" ELSE "esquerda"

\* The child a search goes on to.
Side(have, want) == IF have < want THEN "direita" ELSE "esquerda"

Nodes(t) == {Root} \cup {Append(p, s) : p \in DOMAIN t, s \in Sides}

\* The node on the way to p where the i-th step is taken.
Before(p, i) == SubSeq(p, 1, i - 1)

\* A search for k comes to the node p: every node before has another key.
LeadsTo(t, k, p) ==
    \A i \in 1..Len(p) :
        /\ Before(p, i) \in DOMAIN t
        /\ t[Before(p, i)].key # k
        /\ p[i] = Side(t[Before(p, i)].key, k)

Stops(t, k, p) == p \notin DOMAIN t \/ t[p].key = k

\* The node of the last recursive call.
Place(t, k) == CHOOSE p \in Nodes(t) : LeadsTo(t, k, p) /\ Stops(t, k, p)

Store(t, p, e) == [q \in DOMAIN t \cup {p} |-> IF q = p THEN e ELSE t[q]]

(* Mutant: a key that is there keeps its old data. *)
PutKeepsOld(t, k, v) ==
    IF v = NoData THEN Result(t, -1)
    ELSE LET p == Place(t, k)
         IN  Result(IF p \in DOMAIN t THEN t ELSE Store(t, p, Entry(k, v)),
                    IF p = Root THEN 0 ELSE -1)

\* Stored at a node without an entry, or with this key.  The results of the
\* recursive calls are dropped.
tree_put(t, k, v) ==
    IF v = NoData THEN Result(t, -1)
    ELSE LET p == Place(t, k)
         IN  Result(Store(t, p, Entry(k, v)), IF p = Root THEN 0 ELSE -1)

\* The recursive calls' results are dropped; only the root can answer.
tree_get(t, k) ==
    IF Root \in DOMAIN t /\ t[Root].key = k THEN t[Root].value ELSE NoData

Child(t, s) ==
    LET side == {p \in DOMAIN t : p # Root /\ Head(p) = s}
    IN  [q \in {Tail(p) : p \in side} |-> t[<<s>> \o q]]

WithChild(t, s, c) ==
    LET rest == {p \in DOMAIN t : p = Root \/ Head(p) # s}
    IN  [p \in rest \cup {<<s>> \o q : q \in DOMAIN c} |-> IF p \in rest THEN t[p] ELSE c[Tail(p)]]

\* tree_del(t, t->raiz->key): a root with children is refused (line 144).
DelRoot(t) == IF tree_size(t) > 1 THEN t ELSE tree_create

\* Below the first left child the result of the recursion is dropped too.
searchMin(t) == IF Child(t, "esquerda") = tree_create THEN t[Root] ELSE NULL

\* The node was overwritten by its child t on side s; t's own child on that
\* side is deleted.
Overwritten(t, s) ==
    IF Child(t, s) = tree_create THEN Result(t, Segfault)
    ELSE Result(WithChild(t, s, DelRoot(Child(t, s))), 0)

\* With two children, the successor's entry is copied up and deleted below.
RemoveRoot(t) ==
    LET l == Child(t, "esquerda")
        r == Child(t, "direita")
        min == searchMin(r)
    IN  IF l = tree_create /\ r = tree_create THEN Result(tree_create, 0)
        ELSE IF l = tree_create THEN Overwritten(r, "direita")
        ELSE IF r = tree_create THEN Overwritten(l, "esquerda")
        ELSE IF min = NULL THEN Result(t, Segfault)
        ELSE Result(WithChild([t EXCEPT ![Root] = min], "direita", DelRoot(r)),
                    IF tree_size(r) > 1 THEN -1 ELSE 0)

\* In a lone root's place the recursive call finds an empty child: -1.
tree_del(t, k) ==
    IF Root \notin DOMAIN t \/ tree_size(t) > 1 THEN Result(t, -1)
    ELSE IF t[Root].key = k THEN RemoveRoot(t)
    ELSE Result(t, -1)

-----------------------------------------------------------------------------
Init == tree = tree_create /\ call = <<"tree_create">> /\ ret = 0

Put(k, v) ==
    /\ call' = <<"tree_put", k, v>>
    /\ LET r == tree_put(tree, k, v) IN tree' = r.tree /\ ret' = r.ret

Del(k) ==
    /\ call' = <<"tree_del", k>>
    /\ LET r == tree_del(tree, k) IN tree' = r.tree /\ ret' = r.ret

Get(k) ==
    /\ call' = <<"tree_get", k>>
    /\ ret' = tree_get(tree, k)
    /\ UNCHANGED tree

Size ==
    /\ call' = <<"tree_size">>
    /\ ret' = tree_size(tree)
    /\ UNCHANGED tree

Next ==
    /\ ret # Segfault
    /\ \/ \E k \in Keys : Del(k) \/ Get(k) \/ \E v \in Values \cup {NoData} : Put(k, v)
       \/ Size

Spec == Init /\ [][Next]_vars

-----------------------------------------------------------------------------
\* Every node keeps smaller keys to its left and larger ones to its right,
\* whatever puts and deletions came before: what tree_put's descent by
\* strcmp (tree.c:92-97) relies on to find a key it must replace.
SearchOrder ==
    \A q \in DOMAIN tree : \A i \in 1..Len(q) :
        IF q[i] = "esquerda"
        THEN tree[q].key < tree[Before(q, i)].key
        ELSE tree[q].key > tree[Before(q, i)].key

\* tree_height and tree_size (tree.c:207-235) agree with each other: the
\* height is at most the size, and a tree that high has room for the size.
HeightFitsSize ==
    /\ tree_height(tree) <= tree_size(tree)
    /\ tree_size(tree) < 2 ^ tree_height(tree)

\* The tree as RootedMap sees it: the root key and what a full search of the
\* nodes finds under each key.
View ==
    [root |-> IF Root \in DOMAIN tree THEN tree[Root].key ELSE NoKey,
     data |-> [k \in Keys |->
        IF \E p \in DOMAIN tree : tree[p].key = k
        THEN tree[CHOOSE p \in DOMAIN tree : tree[p].key = k].value
        ELSE NoData]]

Map == INSTANCE TreeStore WITH tree <- View

\* The nodes and pointers of tree.c implement the root-and-contents view the
\* server modules use: same results, same contents, call by call.
ImplementsStore == Map!Spec

\* tree.h:27, "obter da arvore o valor associado a chave key": a get of a key
\* that is in the tree returns its data.
GetFindsKey ==
    call[1] = "tree_get" =>
        \A p \in DOMAIN tree : tree[p].key = call[2] => ret = tree[p].value

=============================================================================
