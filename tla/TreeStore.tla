------------------------------ MODULE TreeStore ------------------------------
(***************************************************************************)
(* The tree as a black box: which call returns what, over the root-and-    *)
(* contents view of RootedMap.  One action per call of tree.h.  BinaryTree *)
(* implements it.                                                          *)
(***************************************************************************)
EXTENDS RootedMap, Integers

VARIABLES
    tree,   \* the observable tree
    call,   \* the last call and its arguments
    ret     \* what it returned: 0, -1, a size, or data

vars == <<tree, call, ret>>

Init == tree = tree_create /\ call = <<"tree_create">> /\ ret = 0

\* tree_put answers 0 only when it stops at the root; the recursive call's
\* result is dropped and -1 returned (lines 92-98).
Put(k, v) ==
    /\ call' = <<"tree_put", k, v>>
    /\ tree' = tree_put(tree, k, v)
    /\ ret' = IF v # NoData /\ tree.root \in {k, NoKey} THEN 0 ELSE -1

Del(k) ==
    /\ call' = <<"tree_del", k>>
    /\ tree' = tree_del(tree, k)
    /\ ret' = IF tree' # tree THEN 0 ELSE -1

Get(k) ==
    /\ call' = <<"tree_get", k>>
    /\ ret' = tree_get(tree, k)
    /\ UNCHANGED tree

Size ==
    /\ call' = <<"tree_size">>
    /\ ret' = tree_size(tree)
    /\ UNCHANGED tree

Next ==
    \/ \E k \in Keys : Del(k) \/ Get(k) \/ \E v \in Data : Put(k, v)
    \/ Size

Spec == Init /\ [][Next]_vars

=============================================================================
