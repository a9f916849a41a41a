----------------------------- MODULE AsyncStore -----------------------------
(***************************************************************************)
(* What a server promises its clients about writes: an accepted write gets *)
(* the next number and waits its turn; accepted writes are executed on the *)
(* tree one at a time, in the order of their numbers, each at most once,   *)
(* and none is forgotten but by a VERIFY, which may throw away those that  *)
(* have waited longest.  No threads, locks or messages.                    *)
(***************************************************************************)
EXTENDS RootedMap, Sequences, Integers

CONSTANT MaxOps     \* how many writes are ever accepted

VARIABLES
    tree,       \* the tree the reads see
    pending,    \* accepted writes not executed yet, oldest first
    accepted,   \* how many writes were accepted: the last number given
    verifying   \* whether a VERIFY is being served; nothing here sets it

vars == <<tree, pending, accepted>>

\* A write: op = 0 deletes the key, op = 1 puts the data (tree_skel-private.h).
Write == [op_n : 1..MaxOps, op : {0, 1}, key : Keys, data : Data]

Execution(t, w) ==
    IF w.op = 0 THEN tree_del(t, w.key) ELSE tree_put(t, w.key, w.data)

Init == tree = tree_create /\ pending = <<>> /\ accepted = 0

Accept(w) ==
    /\ w.op_n = accepted + 1
    /\ accepted' = accepted + 1
    /\ pending' = Append(pending, w)
    /\ UNCHANGED tree

Execute ==
    /\ pending # <<>>
    /\ tree' = Execution(tree, Head(pending))
    /\ pending' = Tail(pending)
    /\ UNCHANGED accepted

Discard(n) ==
    /\ verifying
    /\ pending' = SubSeq(pending, n + 1, Len(pending))
    /\ UNCHANGED <<tree, accepted>>

Next ==
    \/ \E w \in Write : Accept(w)
    \/ Execute
    \/ \E n \in 1..Len(pending) : Discard(n)

Spec == Init /\ [][Next]_vars

FairSpec == Spec /\ WF_vars(Execute)

=============================================================================
