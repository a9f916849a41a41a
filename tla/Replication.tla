----------------------------- MODULE Replication -----------------------------
(***************************************************************************)
(* The two tree-servers and the connection between them: the primary       *)
(* serves puts and deletions and forwards each one it executed; the backup *)
(* takes them as requests of one more client, and serves the reads.  Each  *)
(* server is an instance of TreeSkel.  The primary never reads from the    *)
(* connection (process_task only calls network_send), but the backup's     *)
(* main loop answers every message, the forwarded ones too: the answers    *)
(* pile up in acks.                                                        *)
(***************************************************************************)
EXTENDS RootedMap, Opcodes, Sequences, Integers

CONSTANTS
    Writes,         \* what the clients send the primary
    Reads,          \* what the clients send the backup
    NoRequest,
    MaxOps,         \* bound on the writes the primary accepts
    SockBuf,        \* forwarded frames the connection holds
    AckBuf,         \* answers the connection holds in the other direction
    LateBackup      \* whether clients write before the primary has connected
                    \* to the backup

VARIABLES
    pTree, pQueue, pLast, pOpcode, pMain, pReq, pResult, pWorker, pSockfd,
    out, pExecuted,
    bTree, bQueue, bLast, bOpcode, bMain, bReq, bResult, bWorker, bExecuted,
    from,           \* who sent the message the backup is serving
    acks            \* answers of the backup nobody will read

pVars == <<pTree, pQueue, pLast, pOpcode, pMain, pReq, pResult, pWorker,
           pSockfd, out, pExecuted>>
bVars == <<bTree, bQueue, bLast, bOpcode, bMain, bReq, bResult, bWorker, bExecuted>>
link == <<from, acks>>
vars == <<pVars, bVars, link>>

(* Mutant: the data does not survive the trip. *)
AsRequestWithoutData(frame) ==
    [opcode |-> frame.opcode, key |-> frame.key, data |-> NoData, op_n |-> 0]

\* The frame as network_receive unpacks it.  Its op_n, set or not when it was
\* packed, is not looked at.
AsRequest(frame) ==
    [opcode |-> frame.opcode, key |-> frame.key, data |-> frame.data, op_n |-> 0]

P == INSTANCE TreeSkel WITH
        tree <- pTree, queue <- pQueue, last_assigned <- pLast,
        opcode <- pOpcode, main <- pMain, req <- pReq, result <- pResult,
        worker <- pWorker, sockfd <- pSockfd, executed <- pExecuted,
        Requests <- Writes

\* What reaches the backup over the connection: a put, or a message that was
\* turned into the answer to a put or a deletion before it was packed.
ForwardedOpcodes == {OP_PUT, OP_PUT + 1, OP_DEL + 1}

BackupRequests ==
    Reads \cup {AsRequest(frame) :
        frame \in [opcode : ForwardedOpcodes, key : Keys, data : Data]}

\* A backup has no backup: its sockfd is -1 (tree_skel.c:189).
B == INSTANCE TreeSkel WITH
        tree <- bTree, queue <- bQueue, last_assigned <- bLast,
        opcode <- bOpcode, main <- bMain, req <- bReq, result <- bResult,
        worker <- bWorker, sockfd <- "none", out <- <<>>, executed <- bExecuted,
        Requests <- BackupRequests

\* Clients write at the primary, and read and verify at the backup
\* (tree-client.c:58-111).
ASSUME ReplicationAssumption ==
    /\ Writes \cup Reads \subseteq [opcode : Nat, key : Keys, data : Data, op_n : Nat]
    /\ NoRequest \notin [opcode : Nat, key : Keys, data : Data, op_n : Nat]
    /\ \A r \in Reads : r.opcode \notin WriteOps
    /\ \A r \in Writes : r.opcode # OP_VERIFY
    /\ MaxOps \in Nat
    /\ SockBuf \in Nat \ {0}
    /\ AckBuf \in Nat
    /\ LateBackup \in BOOLEAN

\* Both servers are registered; the primary's watcher thread, which sleeps
\* three seconds first (tree_skel.c:65), has not connected yet.
Init ==
    /\ P!Init /\ pSockfd = "down"
    /\ B!Init
    /\ from = "client" /\ acks = 0

-----------------------------------------------------------------------------
(* The primary.                                                            *)

Connect ==
    /\ pSockfd = "down" /\ P!BackupUp
    /\ UNCHANGED <<bVars, link>>

PrimaryReceives(r) ==
    /\ LateBackup \/ pSockfd = "up"
    /\ P!Receive(r)
    /\ UNCHANGED <<bVars, link>>

PrimaryMain == P!Main /\ UNCHANGED <<bVars, link>>

PrimaryWorker == P!WorkerRuns /\ UNCHANGED <<bVars, link>>

-----------------------------------------------------------------------------
(* The backup.  Its poll loop goes over every readable connection in turn. *)

\* A forwarded frame arrives at the backup.
Transfer ==
    /\ P!BackupReads
    /\ B!Receive(AsRequest(Head(out)))
    /\ from' = "primary"
    /\ UNCHANGED acks

BackupReceives(r) ==
    /\ B!Receive(r)
    /\ from' = "client"
    /\ UNCHANGED <<pVars, acks>>

BackupInvokes ==
    /\ B!QueueAddTask \/ B!MarkReply \/ B!Verify \/ B!Read \/ B!Ignore
    /\ UNCHANGED <<pVars, link>>

\* network_send of the answer blocks once the connection to the primary is
\* full of answers.
BackupReplies ==
    /\ B!Reply
    /\ from = "primary" => acks < AckBuf
    /\ acks' = IF from = "primary" THEN acks + 1 ELSE acks
    /\ UNCHANGED <<pVars, from>>

BackupMain == BackupInvokes \/ BackupReplies

BackupWorker == B!WorkerRuns /\ UNCHANGED <<pVars, link>>

Next ==
    \/ Connect
    \/ \E r \in Writes : PrimaryReceives(r)
    \/ PrimaryMain \/ PrimaryWorker
    \/ Transfer
    \/ \E r \in Reads : BackupReceives(r)
    \/ BackupMain \/ BackupWorker

Spec == Init /\ [][Next]_vars

\* All four threads are scheduled, and the backup's poll loop does not pass
\* over a connection for ever (network_server.c:165).
Fairness ==
    /\ WF_vars(PrimaryMain) /\ WF_vars(PrimaryWorker)
    /\ WF_vars(BackupMain) /\ WF_vars(BackupWorker)
    /\ SF_vars(Transfer)

FairSpec == Spec /\ Fairness

-----------------------------------------------------------------------------
\* Both servers keep their types; above all a deletion never crosses as one,
\* and no frame carries an opcode but a put's or an answer's.
TypeOK ==
    /\ P!TypeOK /\ B!TypeOK
    /\ from \in {"client", "primary"}
    /\ acks \in 0..AckBuf
    /\ \A i \in DOMAIN out : out[i].opcode \in ForwardedOpcodes

Content(w) == <<w.key, w.data>>

Contents(s) == [i \in DOMAIN s |-> Content(s[i])]

IsSubsequence(s, t) ==
    \E f \in [DOMAIN s -> DOMAIN t] :
        /\ \A i, j \in DOMAIN s : i < j => f[i] < f[j]
        /\ \A i \in DOMAIN s : s[i] = t[f[i]]

\* The forwarded put in the hands of the backup's invoke.
Arriving ==
    IF from = "primary" /\ bMain = "invoke" /\ bReq.opcode = OP_PUT
    THEN <<Content(bReq)>> ELSE <<>>

\* What is on its way to the backup's tree and what arrived there, oldest
\* first: executed, queued, in invoke's hands, on the connection.
Stream ==
    Contents(bExecuted) \o Contents(B!Pending) \o Arriving \o Contents(out)

\* From the primary's execution to the backup's the writes are never
\* reordered, repeated or invented; at most some are missing.
BackupFollows == IsSubsequence(Stream, Contents(pExecuted))

Quiet ==
    /\ pSockfd = "up" /\ P!Pending = <<>> /\ pWorker = "waiting" /\ pMain = "poll" /\ out = <<>>
    /\ B!Pending = <<>> /\ bWorker = "waiting" /\ bMain = "poll"

NoDeletion == \A i \in DOMAIN pExecuted : pExecuted[i].op = 1

\* If no forwarded write was lost and none was a deletion, the backup ends
\* with the primary's tree, its root included.
NothingLostThenEqual ==
    Quiet /\ NoDeletion /\ Len(bExecuted) = Len(pExecuted) => bTree = pTree

\* While no forwarded write was lost, the number the primary gave a client
\* names the same write at the backup, which the client asks to verify it
\* (tree_skel.c:343, 370): each server counts on its own.
SameNumbers ==
    LET accepted == bExecuted \o B!Pending
    IN  Len(accepted) = Len(pExecuted) =>
            \A i \in DOMAIN accepted :
                /\ accepted[i].op_n = pExecuted[i].op_n
                /\ accepted[i].key = pExecuted[i].key

\* The backup's main thread is in the write of an answer to the primary, and
\* the connection is full of such answers, which nobody reads.
BackupStuck == bMain = "reply" /\ from = "primary" /\ acks = AckBuf

\* The primary gets through every message, though its secondary thread holds
\* queue_lock while it writes to the backup (tree_skel.c:138, 239): only a
\* stuck backup can stop it.
PrimaryServed == pMain = "invoke" ~> pMain = "poll" \/ BackupStuck

\* The backup answers every message it takes, until its answers to the
\* primary have filled the connection (network_server.c:183).
BackupServed == bMain = "invoke" ~> bMain = "poll" \/ BackupStuck

\* client_stub.h:23-24, rtree_put adds the element or replaces its data: a
\* key the primary holds ends with the same data on the backup, where the
\* clients read it.
PutsReachBackup ==
    Quiet => \A k \in Keys : pTree.data[k] # NoData => bTree.data[k] = pTree.data[k]

=============================================================================
