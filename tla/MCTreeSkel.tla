----------------------------- MODULE MCTreeSkel -----------------------------
(* What tree-client and the other server send a server: puts and deletions *)
(* while it is primary (tree-client.c:63, 89), reads and verifications     *)
(* while it is backup (tree-client.c:74, 97-111), and with them the        *)
(* primary's forwarded writes.                                             *)
EXTENDS TreeSkel

Message(op, key, data, n) == [opcode |-> op, key |-> key, data |-> data, op_n |-> n]

AnyKey == CHOOSE k \in Keys : TRUE

Puts == {Message(OP_PUT, k, v, 0) : k \in Keys, v \in Values}
Dels == {Message(OP_DEL, k, NoData, 0) : k \in Keys}
Quit == {Message(OP_BAD, AnyKey, NoData, 0)}

\* A forwarded deletion is a put without data, and a forwarded message the
\* main thread had already turned into a reply carries OP_PUT + 1.
BackupRequests ==
    Puts
    \cup {Message(OP_PUT, AnyKey, NoData, 0), Message(OP_PUT + 1, AnyKey, NoData, 0)}
    \cup {Message(OP_GET, k, NoData, 0) : k \in Keys}
    \cup {Message(op, AnyKey, NoData, 0) : op \in {OP_SIZE, OP_HEIGHT, OP_GETKEYS}}
    \cup {Message(OP_VERIFY, AnyKey, NoData, n) : n \in 1..MaxOps + 1}

\* A server is backup first, perhaps, and primary once it is promoted.
ServerRequests == BackupRequests \cup Dels \cup Quit

=============================================================================
