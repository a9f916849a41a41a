------------------------------ MODULE TreeSkel ------------------------------
(***************************************************************************)
(* One tree-server process: the main thread (network_main_loop, invoke,    *)
(* verify, queue_add_task), the secondary thread (process_task) that       *)
(* executes the queued writes and forwards them to the backup, and the     *)
(* ZooKeeper watcher thread as far as it moves rtreeglobal->sockfd.        *)
(*                                                                         *)
(* Threads share the task queue under queue_lock, and without any lock the *)
(* struct message_t of a write: invoke rewrites its opcode after the task  *)
(* was queued, process_task rewrites it before forwarding.  queue_lock is  *)
(* held by the secondary thread exactly while QueueLocked; the main        *)
(* thread's critical sections are single actions that need it free.        *)
(* tree_lock is only ever taken by the secondary thread, so it excludes    *)
(* nobody and has no variable.  op_count is never read, and has none.      *)
(***************************************************************************)
EXTENDS RootedMap, Opcodes, Sequences, Integers

CONSTANTS
    Requests,   \* the messages this server's peers send it
    NoRequest,  \* the main thread is between two messages
    MaxOps,     \* bound on last_assigned
    SockBuf     \* frames the connection to the backup holds unread

ASSUME TreeSkelAssumption ==
    /\ Requests \subseteq [opcode : Nat, key : Keys, data : Data, op_n : Nat]
    /\ NoRequest \notin Requests
    /\ MaxOps \in Nat
    /\ SockBuf \in Nat \ {0}

VARIABLES
    tree,           \* treeglobal
    queue,          \* the tasks from queue_head on
    last_assigned,  \* number of the last write accepted
    opcode,         \* opcode field of the message of each write
    main,           \* where the main thread is
    req,            \* the message it is serving
    result,         \* the result it will send back (verify, get, size)
    worker,         \* where the secondary thread is
    sockfd,         \* rtreeglobal->sockfd: "none" (-1), "down" (not an open
                    \* connection), or "up"
    out,            \* frames written to the backup and not read by it yet
    executed        \* history: the tasks executed on the tree, in order

shared == <<tree, queue, opcode, sockfd, out, executed>>
mainVars == <<main, req, result, last_assigned>>
vars == <<tree, queue, last_assigned, opcode, main, req, result, worker,
          sockfd, out, executed>>

-----------------------------------------------------------------------------
Task == [op_n : 1..MaxOps, op : {0, 1}, key : Keys, data : Data]

Frame == [opcode : Nat, key : Keys, data : Data]

(* Mutant: the thread sleeps in pthread_cond_wait with the lock held. *)
QueueLockedAsleep == worker \in {"waiting", "apply", "mark", "send", "pop"}

QueueLocked == worker \in {"apply", "mark", "send", "pop"}

TypeOK ==
    /\ tree \in Tree
    /\ queue \in Seq(Task)
    /\ last_assigned \in 0..MaxOps
    /\ opcode \in [1..MaxOps -> Nat]
    /\ main \in {"poll", "invoke", "mark", "reply"}
    /\ req \in Requests \cup {NoRequest}
    /\ main # "poll" => req \in Requests
    /\ main = "invoke" /\ req.opcode \in WriteOps => last_assigned < MaxOps
    /\ result \in Nat \cup Data
    /\ worker \in {"acquire", "waiting", "apply", "mark", "send", "pop"}
    /\ sockfd \in {"none", "down", "up"}
    /\ out \in Seq(Frame)
    /\ executed \in Seq(Task)

\* sockfd is -1 on a server that registered as backup; connect_zookeeper's
\* malloc leaves it arbitrary on the primary, where it names no backup yet.
Init ==
    /\ tree = tree_create
    /\ queue = <<>>
    /\ last_assigned = 0
    /\ opcode = [n \in 1..MaxOps |-> OP_BAD]
    /\ main = "poll"
    /\ req = NoRequest
    /\ result = 0
    /\ worker = "acquire"
    /\ sockfd \in {"none", "down"}
    /\ out = <<>>
    /\ executed = <<>>

-----------------------------------------------------------------------------
(* The main thread: poll, network_receive, invoke, network_send.           *)

Receive(r) ==
    /\ main = "poll"
    /\ r.opcode \in WriteOps => last_assigned < MaxOps
    /\ main' = "invoke"
    /\ req' = r
    /\ UNCHANGED <<result, last_assigned, worker, shared>>

NewTask ==
    [op_n |-> last_assigned + 1,
     op |-> IF req.opcode = OP_DEL THEN 0 ELSE 1,
     key |-> req.key,
     data |-> req.data]

(* Mutant: queue_add_task without pthread_cond_signal. *)
AddTaskNoSignal ==
    /\ main = "invoke" /\ req.opcode \in WriteOps
    /\ ~QueueLocked
    /\ last_assigned' = last_assigned + 1
    /\ queue' = Append(queue, NewTask)
    /\ opcode' = [opcode EXCEPT ![last_assigned + 1] = req.opcode]
    /\ main' = "mark"
    /\ UNCHANGED <<tree, req, result, worker, sockfd, out, executed>>

(* Mutant: the new task becomes the head of the queue. *)
AddTaskAtHead ==
    /\ main = "invoke" /\ req.opcode \in WriteOps
    /\ ~QueueLocked
    /\ last_assigned' = last_assigned + 1
    /\ queue' = <<NewTask>> \o queue
    /\ opcode' = [opcode EXCEPT ![last_assigned + 1] = req.opcode]
    /\ worker' = IF worker = "waiting" THEN "acquire" ELSE worker
    /\ main' = "mark"
    /\ UNCHANGED <<tree, req, result, sockfd, out, executed>>

\* OP_PUT and OP_DEL: number the write, queue its task at the tail and
\* signal the secondary thread, all with queue_lock held.
QueueAddTask ==
    /\ main = "invoke" /\ req.opcode \in WriteOps
    /\ ~QueueLocked
    /\ last_assigned' = last_assigned + 1
    /\ queue' = Append(queue, NewTask)
    /\ opcode' = [opcode EXCEPT ![last_assigned + 1] = req.opcode]
    /\ worker' = IF worker = "waiting" THEN "acquire" ELSE worker
    /\ main' = "mark"
    /\ UNCHANGED <<tree, req, result, sockfd, out, executed>>

\* Only now, with the task out of its hands, invoke turns the message into
\* the reply: opcode + 1 and the write's number.
MarkReply ==
    /\ main = "mark"
    /\ opcode' = [opcode EXCEPT ![last_assigned] = req.opcode + 1]
    /\ main' = "reply"
    /\ UNCHANGED <<tree, queue, last_assigned, req, result, worker, sockfd,
                   out, executed>>

At(n) == {i \in DOMAIN queue : queue[i].op_n = n}

(* Mutant: verify walks the queue without taking queue_lock. *)
VerifyUnlocked ==
    /\ main = "invoke" /\ req.opcode = OP_VERIFY
    /\ queue' = <<>> /\ result' = 1
    /\ main' = "reply"
    /\ UNCHANGED <<tree, last_assigned, opcode, req, worker, sockfd, out, executed>>

(* Mutant: "<" for "<=" in the test against last_assigned. *)
VerifyOffByOne ==
    /\ main = "invoke" /\ req.opcode = OP_VERIFY
    /\ ~QueueLocked
    /\ queue = <<>>
    /\ result' = IF req.op_n < last_assigned THEN 1 ELSE 0
    /\ main' = "reply"
    /\ UNCHANGED <<tree, queue, last_assigned, opcode, req, worker, sockfd, out, executed>>

\* verify(op_n) moves queue_head itself: the tasks before the one it looks
\* for are dropped, and all of them when it is not there.  An empty queue
\* answers for every number handed out so far.
Verify ==
    /\ main = "invoke" /\ req.opcode = OP_VERIFY
    /\ ~QueueLocked
    /\ \/ /\ queue = <<>>
          /\ result' = IF req.op_n <= last_assigned THEN 1 ELSE 0
          /\ UNCHANGED queue
       \/ \E i \in At(req.op_n) :
             /\ result' = 0
             /\ queue' = SubSeq(queue, i, Len(queue))
       \/ /\ queue # <<>> /\ At(req.op_n) = {}
          /\ result' = 1
          /\ queue' = <<>>
    /\ main' = "reply"
    /\ UNCHANGED <<tree, last_assigned, opcode, req, worker, sockfd, out, executed>>

\* The reads look at the tree without tree_lock.  Height and keys are not
\* visible in this view of the tree (tree_get_keys always returns an empty
\* list, tree.c:241-256).
Read ==
    /\ main = "invoke" /\ req.opcode \in ReadOps
    /\ result' = CASE req.opcode = OP_GET -> tree_get(tree, req.key)
                   [] req.opcode = OP_SIZE -> tree_size(tree)
                   [] OTHER -> 0
    /\ main' = "reply"
    /\ UNCHANGED <<req, last_assigned, worker, shared>>

\* Any other opcode falls out of invoke's switch and is echoed back.
Ignore ==
    /\ main = "invoke" /\ req.opcode \notin WriteOps \cup ReadOps \cup {OP_VERIFY}
    /\ main' = "reply"
    /\ UNCHANGED <<req, result, last_assigned, worker, shared>>

\* network_send to the requester, and back to poll.
Reply ==
    /\ main = "reply"
    /\ main' = "poll"
    /\ req' = NoRequest
    /\ result' = 0
    /\ UNCHANGED <<last_assigned, worker, shared>>

Main == QueueAddTask \/ MarkReply \/ Verify \/ Read \/ Ignore \/ Reply

-----------------------------------------------------------------------------
(* The secondary thread: process_task.                                     *)

\* pthread_mutex_lock, then either pthread_cond_wait (which releases it) or
\* on to the head of the queue.
Acquire ==
    /\ worker = "acquire"
    /\ worker' = IF queue = <<>> THEN "waiting" ELSE "apply"
    /\ UNCHANGED <<mainVars, shared>>

\* pthread_cond_wait may return unsignalled; the while loop looks again.
SpuriousWakeup ==
    /\ worker = "waiting"
    /\ worker' = "acquire"
    /\ UNCHANGED <<mainVars, shared>>

(* Mutant: op == 0 taken for a put. *)
ExecutionSwapped(t, w) ==
    IF w.op = 1 THEN tree_del(t, w.key) ELSE tree_put(t, w.key, w.data)

Execution(t, w) ==
    IF w.op = 0 THEN tree_del(t, w.key) ELSE tree_put(t, w.key, w.data)

Apply ==
    /\ worker = "apply"
    /\ tree' = Execution(tree, Head(queue))
    /\ executed' = Append(executed, Head(queue))
    /\ worker' = IF sockfd = "none" THEN "pop" ELSE "mark"
    /\ UNCHANGED <<mainVars, queue, opcode, sockfd, out>>

(* Mutant: the message is forwarded with the opcode it has. *)
MarkKeepsOpcode ==
    /\ worker = "mark"
    /\ worker' = "send"
    /\ UNCHANGED <<mainVars, shared>>

\* queue_head->msg becomes an OP_PUT, whatever the write was.
Mark ==
    /\ worker = "mark"
    /\ opcode' = [opcode EXCEPT ![Head(queue).op_n] = OP_PUT]
    /\ worker' = "send"
    /\ UNCHANGED <<mainVars, tree, queue, sockfd, out, executed>>

Forwarded(task) ==
    [opcode |-> opcode[task.op_n], key |-> task.key, data |-> task.data]

\* network_send to the backup packs the message as it is now.  The write
\* blocks, locks held, while the connection is full.
Deliver ==
    /\ worker = "send" /\ sockfd = "up"
    /\ Len(out) < SockBuf
    /\ out' = Append(out, Forwarded(Head(queue)))
    /\ worker' = "pop"
    /\ UNCHANGED <<mainVars, tree, queue, opcode, sockfd, executed>>

\* On a descriptor that is no connection the write fails: no retry.
SendFails ==
    /\ worker = "send" /\ sockfd = "down"
    /\ worker' = "pop"
    /\ UNCHANGED <<mainVars, shared>>

\* The peer is gone: the frame is swallowed by the kernel, or the write
\* fails and network_send closes the descriptor.
SendLost ==
    /\ worker = "send" /\ sockfd = "up"
    /\ \/ UNCHANGED <<sockfd, out>>
       \/ sockfd' = "down" /\ out' = <<>>
    /\ worker' = "pop"
    /\ UNCHANGED <<mainVars, tree, queue, opcode, executed>>

(* Mutant: the head is not taken off the queue. *)
PopWithoutAdvance ==
    /\ worker = "pop"
    /\ worker' = "acquire"
    /\ UNCHANGED <<mainVars, shared>>

(* Mutant: queue_head is cleared instead of advanced. *)
PopAll ==
    /\ worker = "pop"
    /\ queue' = <<>>
    /\ worker' = "acquire"
    /\ UNCHANGED <<mainVars, tree, opcode, sockfd, out, executed>>

Pop ==
    /\ worker = "pop"
    /\ queue' = Tail(queue)
    /\ worker' = "acquire"
    /\ UNCHANGED <<mainVars, tree, opcode, sockfd, out, executed>>

\* What the operating system will schedule: the thread runs while it can.
WorkerRuns == Acquire \/ Apply \/ Mark \/ Deliver \/ SendFails \/ Pop

Worker == WorkerRuns \/ SpuriousWakeup \/ SendLost

-----------------------------------------------------------------------------
(* The watcher thread (child_watcher) and the backup at the other end.     *)

\* Both children exist: rtree_connect to the backup, whatever was there.
BackupUp ==
    /\ sockfd' = "up" /\ out' = <<>>
    /\ UNCHANGED <<mainVars, worker, tree, queue, opcode, executed>>

\* The backup left: network_close, and sockfd keeps the dead descriptor
\* (close(-1) on a server that never had a backup leaves it -1).
BackupDown ==
    /\ sockfd' = IF sockfd = "none" THEN "none" ELSE "down"
    /\ out' = <<>>
    /\ UNCHANGED <<mainVars, worker, tree, queue, opcode, executed>>

\* The backup takes a frame off the connection.
BackupReads ==
    /\ out # <<>>
    /\ out' = Tail(out)
    /\ UNCHANGED <<mainVars, worker, tree, queue, opcode, sockfd, executed>>

Next ==
    \/ \E r \in Requests : Receive(r)
    \/ Main
    \/ Worker
    \/ BackupUp \/ BackupDown \/ BackupReads

Spec == Init /\ [][Next]_vars

\* Both threads are scheduled while they can run.  Nothing makes a client
\* send, ZooKeeper report a change or a connection break.  The last conjunct
\* is about the peer: a backup that is connected keeps reading.
Fairness ==
    /\ WF_vars(Main)
    /\ WF_vars(WorkerRuns)
    /\ WF_vars(BackupReads)

FairSpec == Spec /\ Fairness

-----------------------------------------------------------------------------
\* The secondary thread dereferences queue_head (tree_skel.c:128-141) only
\* while there is a head: verify, which moves queue_head too, never empties
\* the queue under it.
HeadPresent == QueueLocked => queue # <<>>

\* The thread never sleeps in pthread_cond_wait with a task in the queue: no
\* signal of queue_add_task is lost (tree_skel.c:123-125, 250).
NoLostWakeup == worker = "waiting" => queue = <<>>

\* The head was executed already and only waits to be forwarded and popped.
HeadDone == worker \in {"mark", "send", "pop"}

Ascending(s) == \A i, j \in DOMAIN s : i < j => s[i].op_n < s[j].op_n

\* Writes are executed in the order of the numbers their clients were told,
\* none twice: executed and queued numbers ascend, and the only task that is
\* both executed and queued is the head, between its execution and its pop.
ExecutionOrder ==
    /\ Ascending(queue)
    /\ Ascending(executed)
    /\ \A i \in DOMAIN queue : queue[i].op_n <= last_assigned
    /\ \A i \in DOMAIN executed : executed[i].op_n <= last_assigned
    /\ \A i \in DOMAIN executed, j \in DOMAIN queue :
          /\ executed[i].op_n <= queue[j].op_n
          /\ executed[i].op_n = queue[j].op_n =>
                i = Len(executed) /\ j = 1 /\ HeadDone

\* The writes accepted and not executed yet.
Pending == IF HeadDone THEN Tail(queue) ELSE queue

WasExecuted(n) == \E i \in DOMAIN executed : executed[i].op_n = n

Verifying == main = "invoke" /\ req.opcode = OP_VERIFY

\* A server keeps AsyncStore's promise: every write is executed at most once
\* and in order, none is forgotten but by a VERIFY, and while writes wait they
\* go on being executed if the backup keeps reading.
Store == INSTANCE AsyncStore WITH
            pending <- Pending, accepted <- last_assigned, verifying <- Verifying

ImplementsAsyncStore == Store!FairSpec

\* verify answers 0 only for a write that was not executed.
VerifyZeroIsPending ==
    [][Verifying /\ main' = "reply" /\ result' = 0
       => ~WasExecuted(req.op_n)]_vars

\* A write that was accepted leaves the queue unexecuted only when a client
\* asks for a VERIFY (tree_skel.c:226-233).
OnlyVerifyDiscards ==
    [][\A i \in DOMAIN Pending :
          \/ \E j \in DOMAIN Pending' : Pending'[j] = Pending[i]
          \/ \E j \in DOMAIN executed' : executed'[j] = Pending[i]
          \/ Verifying]_vars

\* tree_skel.h:25, "Verifica se a operacao identificada por op_n foi
\* executada": verify answers 1 only for a write that was executed.
VerifyOneIsExecuted ==
    [][Verifying /\ main' = "reply" /\ result' = 1
       => WasExecuted(req.op_n)]_vars

=============================================================================
