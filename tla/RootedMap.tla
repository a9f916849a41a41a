------------------------------ MODULE RootedMap ------------------------------
(***************************************************************************)
(* What the server can observe of its search tree (tree.c, with entry.c    *)
(* and data.c below it): the key at the root and the data stored under     *)
(* each key.  The shape under the root cannot be told apart by tree_put,   *)
(* tree_get, tree_del and tree_size:                                       *)
(*   - tree_get drops the result of its recursive calls (lines 123-129),   *)
(*     so only the root key is ever found;                                 *)
(*   - tree_del refuses every tree of more than one entry (line 144), so   *)
(*     only a lone root is ever removed, and the root is the first key put *)
(*     into an empty tree.                                                 *)
(* Module BinaryTree models the nodes and pointers and is proved to        *)
(* implement this view (module TreeStore); the server modules use the view.*)
(***************************************************************************)
EXTENDS Naturals, FiniteSets

CONSTANTS
    Keys,       \* the keys clients use
    Values,     \* the data blocks clients store (never empty: data.c:37)
    NoKey,      \* raiz == NULL at the root
    NoData      \* a NULL struct data_t *, what data_create2 returns for size 0

ASSUME RootedMapAssumption ==
    /\ IsFiniteSet(Keys)
    /\ NoKey \notin Keys
    /\ NoData \notin Values

Data == Values \cup {NoData}

Tree == [root : Keys \cup {NoKey}, data : [Keys -> Data]]

tree_create == [root |-> NoKey, data |-> [k \in Keys |-> NoData]]

KeysOf(t) == {k \in Keys : t.data[k] # NoData}

tree_size(t) == Cardinality(KeysOf(t))

\* A NULL value changes nothing: that is how a forwarded deletion arrives.
tree_put(t, k, v) ==
    IF v = NoData
    THEN t
    ELSE [root |-> IF t.root = NoKey THEN k ELSE t.root,
          data |-> [t.data EXCEPT ![k] = v]]

tree_del(t, k) ==
    IF t.root = k /\ tree_size(t) <= 1 THEN tree_create ELSE t

tree_get(t, k) == IF t.root = k THEN t.data[k] ELSE NoData

\* The root is a stored key, and an empty tree has none.
RootStored(t) ==
    /\ t.root # NoKey => t.data[t.root] # NoData
    /\ t.root = NoKey => KeysOf(t) = {}

=============================================================================
