--------------------------- MODULE MCReplication ---------------------------
(* The clients' puts and deletions at the primary, and the reads at the    *)
(* backup that come between two forwarded frames.                          *)
EXTENDS Replication, TLC

Message(op, key, data) == [opcode |-> op, key |-> key, data |-> data, op_n |-> 0]

Puts == {Message(OP_PUT, k, v) : k \in Keys, v \in Values}

Dels == {Message(OP_DEL, k, NoData) : k \in Keys}

Quits == {Message(OP_BAD, k, NoData) : k \in Keys}

AllWrites == Puts \cup Dels \cup Quits

Gets == {Message(OP_GET, k, NoData) : k \in Keys}

\* Without reads at the backup: they change nothing there but the moment a
\* frame is taken, and MCReplicationLive has them.
NoReads == {}

\* No key is special: the writes treat them alike and nothing chooses one.
KeySymmetry == Permutations(Keys)

=============================================================================
