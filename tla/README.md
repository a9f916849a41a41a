# Verification of the replicated binary-tree store

The repository (`src/Projeto`) is a key-value store: a binary search tree kept by a
primary `tree-server`, copied to a backup `tree-server`, found through ZooKeeper and used
by `tree-client`. This directory holds TLA+ models of it, the TLC runs that check them on
small instances, and proofs checked by TLAPS.

## 1. The system

| Part | Source | State | Operations | Talks to |
|---|---|---|---|---|
| search tree | `tree.c`, `entry.c`, `data.c` | nodes `raiz, esquerda, direita` | put, get, del, size, height, keys | called by the skeleton |
| skeleton | `tree_skel.c` | `treeglobal`, task queue, `last_assigned`, `queue_lock`, `tree_lock` | `invoke` (main thread), `process_task` (secondary thread), `verify` | both threads share the queue under `queue_lock`, and the message structs under no lock |
| main loop | `network_server.c`, `message.c`, `tree-server.c` | pollfd table | accept, `network_receive`, `invoke`, `network_send` | clients and the other server, one message at a time |
| replication | `tree_skel.c:136-139` | `rtreeglobal->sockfd` | after executing a write, send its message to the backup as a put | the backup's main loop, which answers; the primary never reads the answers |
| membership | `tree_skel.c:54-97, 155-199` | `/kvstore/primary`, `/kvstore/backup` (ephemeral) | register, watch the children, promote, connect to the backup | ZooKeeper's watcher thread |
| client stub | `client_stub.c`, `network-client.c` | two associations and two flags | rtree_* calls, watcher that connects and disconnects | writes go to the primary, reads and verify to the backup |
| command line | `tree-client.c` | none | parse and call | the stub |
| wire format | `sdmessage.proto` and generated code | none | pack, unpack | both ends |

What is hard here: two threads of a server rewrite the same message; `verify` removes
tasks from the queue it inspects; the secondary thread writes to a socket with two locks
held; nobody reads what the backup answers; the tree is read without its lock; and the
roles of the servers change from callbacks that sleep, look and then act. `PROJECT.json`
lists each hazard at its line with the properties that address it.

What makes each part right: the tree is a search tree whose calls never follow NULL and
answer what their header says; the skeleton executes every accepted write once and in the
order of the numbers it gave out, and never loses a wakeup; the backup's writes are those
of the primary, in order; both servers keep serving; at most one server is primary, and a
promoted backup has the primary's tree; the main loop polls every open connection, each
slot means the client it was filled for, and requests are answered; a client's commands
reach the server that has the role, over an association that exists. The code does not keep
all of this: sections 2 and 4 say where, and the properties say what is left of it.

## 2. Modules

| Module | Models | Used by |
|---|---|---|
| `RootedMap` | what can be observed of the tree: the root's key and the stored data | all server modules |
| `TreeStore` | abstract specification: the tree's calls and their results over that view | `BinaryTree` implements it |
| `BinaryTree` | `tree.c` node by node, a dereferenced NULL being the result `Segfault` | `MCBinaryTree`, `BinaryTreeProofs` |
| `BinaryTreeProofs` | theorems about `BinaryTree`: search tree, no NULL, implements `TreeStore` | |
| `AsyncStore` | abstract specification: accept a write, execute the oldest one, throw some away when asked to verify | `TreeSkel` implements it |
| `Opcodes` | the opcodes of `sdmessage.proto` | `TreeSkel`, `Replication` |
| `TreeSkel` | one server: main thread, secondary thread, the watcher's effect on `sockfd` | `MCTreeSkel`, `TreeSkelProofs`, `Replication` |
| `Replication` | two instances of `TreeSkel` and the connection between them | `MCReplication`, `ReplicationProofs` |
| `ReplicationProofs` | theorems about `Replication`: types, order, same numbers, same trees, what a crash leaves | |
| `TreeSkelProofs` | theorems about `TreeSkel` | |
| `Membership` | registration, the child watch, promotion, connection to the backup | `MCMembership`, `MembershipProofs` |
| `MembershipProofs` | theorems about `Membership` | |
| `MainLoop` | a server's table of connections, its descriptors, and the peers at the other end | `MCMainLoop`, `MainLoopProofs` |
| `MainLoopProofs` | theorems about `MainLoop` | |
| `Client` | a client's two threads, the associations and flags they share, and every call | `MCClient`, `ClientProofs` |
| `ClientProofs` | theorems about `Client` | |
| `TreeRace` | the reads of `invoke` inside the stores of `process_task` | `TreeRaceProofs` |
| `TreeRaceProofs` | theorems about `TreeRace`: types, when a read goes wrong | `AnswerProofs` |
| `AnswerProofs` | theorems about `TreeRace`: what a read answers, and that the nodes are a map | |

### The tree
`RootedMap` can stand for the tree because `tree_get` drops its recursive results (only
the root is ever found), `tree_del` refuses a tree of two entries, and `tree_put` changes
what is stored but not where. Run `tree` checks the point and `TreeIsAStore` proves it: the
nodes implement `TreeStore` call by call, arguments and return values included. `TreeStore`
is therefore also the record of what the calls really do, which is not what `tree.h` says
(section 4). In a server, the tree is seen through `RootedMap` and each tree operation is one
step.

`BinaryTree` names a node by the way to it, a sequence of the fields `esquerda` and `direita`,
and a tree is the function from the nodes whose `raiz` is set to their entries. The recursions
of `tree.c` are over the nodes on one way or over all nodes. `tree_put` ends at `Place`, the
node a search for the key comes to (`LeadsTo`: every node before has another key and
`strcmp` sends the search on) and that is empty or has the key (`Stops`); `tree_size` counts the
nodes and `tree_height` is the longest way. The branches of `tree_del` for a root with children
(`RemoveRoot`) are there, though the test of line 144 keeps every call out of them; that they
are never reached is part of what is proved.

### The tree and two threads (`TreeRace`)
`invoke` reads the tree without `tree_lock`. `TreeRace` takes the tree operations apart. A
step of the writer is one store or free: `LinkEntry`, `LinkLeft`, `LinkRight` of `tree_put`;
in `entry_replace` `FreeBytes`, `ClearData`, `FreeData` (`data_destroy`), `FreeKey`,
`StoreKey`, `StoreValue`; and `Delete`, the one store of `tree_del` that can happen. A step of
the reader is one load, with the C stack of the recursive calls in `frames`: it loads the
pointer to a key or to a `data_t` (`LoadField`) and follows it in a later step (`CompareKey`,
`ChooseSide`, `Dup`, `CopyValue`), so that `entry_replace` may run, and return, in between.
`held` is what such a pointer leads to once the entry has another: memory that was freed, or an
entry that was unlinked. `data_dup` tests `data->data` and loads it again to copy; between
`data.c:57` and 59 it finds NULL there, and `tree_get` answers that the key is not there
(`DupNothing`).

Stores are seen in program order; what a compiler or a weakly ordered processor may do
besides is not modelled, nor is what `malloc` makes of freed memory: reading it ends the read
(`ReadsFreed`). `possible` collects what would have been a right answer at each moment of the
read, `torn` the nodes where `entry_replace` was at work since it began. `tree_get_keys` reads
no more than `tree_size`.

`View` is the map of `RootedMap` that the nodes stand for; an entry that `entry_replace` has
begun to take apart counts as the new one. `StoresAreAtomic` says why the other modules may take
a call of `tree_put` or `tree_del` as one step over that map: it changes the map by one store, as
`RootedMap` says. `AnswersWereRight` and `FaultsInWindow` say how far that goes for reads.
`tree_size` answers what the map answered at some moment while it ran. `tree_get` does so unless
it overlaps a deletion or a put that replaces the root: then it may answer wrongly, or read
freed memory. `TreeSkel` leaves those out, and takes every read for one step of the map.

### One server (`TreeSkel`)
Main thread: `Receive` (poll and `network_receive`), then one of `QueueAddTask`,
`Verify`, `Read`, `Ignore` (`invoke`), for writes `MarkReply` (the message becomes the
reply, after the task left its hands), then `Reply`. Secondary thread: `Acquire`
(lock, or wait), `Apply` (the tree operation and the test of `sockfd`), `Mark` (opcode
:= OP_PUT), `Deliver` / `SendFails` / `SendLost` (`network_send`), `Pop` (next head and
both unlocks), `SpuriousWakeup`. Watcher and peer: `BackupUp`, `BackupDown`,
`BackupReads`.

`queue_lock` has no variable: the secondary thread holds it exactly while `QueueLocked`,
and what the main thread does under it is a single action guarded by `~QueueLocked`.
`tree_lock` excludes nobody (one thread takes it) and `op_count` is never read; neither
is modelled. `opcode` is a variable of its own, indexed by write, because the messages of
queued writes are shared. `executed` is a history variable. An action of the main thread
that only reads a message it still owns is not split.

`Verify` is `AsyncStore`'s `Discard`, which throws away any number of the oldest pending writes,
but only while a VERIFY is served (`Verifying`).

`sockfd` is "none" (-1), "down" (a descriptor that is no connection: the uninitialised
field of a new primary, or the closed one of a backup that left) or "up".

### Two servers (`Replication`)
`Transfer` is the primary's connection losing a frame and the backup's main thread
receiving it in one step. `BackupReplies` adds one to `acks` when the request came from
the primary; nothing ever takes one off, and the reply waits while `AckBuf` are there: then the
backup has stopped for good (`BackupStuck`), and the primary behind it when the connection and
its secondary thread have filled up.
`LateBackup` says whether clients write before the primary connected; clients only write
while both servers are registered, but the watcher that connects sleeps for three seconds.

### Who is primary (`Membership`)
Main thread: one action per ZooKeeper call of `tree_skel_init` (`ExistsKvstore`,
`CreateKvstore`, `ExistsPrimary`, `ExistsBackup`, `RecheckPrimary`, `CreatePrimary`,
`CreateBackup`, `Watch`), `pc` being the next one. Watcher thread: `Called`, then
`List` / `ListAndClose` (`zoo_wget_children` and the branch it leads to), `PromoteCreate`
and `PromoteDelete`, or `GetBackup` / `GetNothing` and `Connect`. Environment: `Start`,
`StartUnconnected`, `Kill`, `SessionEnds` (ephemeral nodes go later than their server, when
its session times out) and `ExecuteWrite`, which is the read of `rtreeglobal->sockfd` after a
write. A server that is started again is another element of `Servers`. ZooKeeper's part is
the usual one: each call is atomic and a watch fires once. What an unchecked call leaves
behind is a choice: after a failed `zoo_get`, the address is whatever malloc returned, so
`rtree_connect` either crashes for want of a port or is refused.

`orderly`, fixed at the start, restricts the environment, not the code: servers are started
and killed only when the others have nothing left to do. `EveryServerHasRole`, `PrimaryLinked`
and `BackupTakesOver` are stated for it: they are about what a sequence of deaths, promotions and
newcomers leaves behind when each is dealt with before the next. Where they overlap the code is
not right, and section 4 says what it does. Two properties hold without `orderly`.
`WatchNeverLost` holds for every order of starts, kills and callbacks. `StartsAreSafe` holds for
starts alone: servers that start together do pass each other between two calls to ZooKeeper, and
one may be left without a role, but until somebody is killed none crashes, none is linked to
itself, and no primary is missing. The list that comes with the first watch is freed unread
(`tree_skel.c:194`, 210), so `Watch` only sets the watch.

### The main loop (`MainLoop`)
One action per step of `network_main_loop`: `Poll`, `Accept` / `AcceptFails` / `NoAccept`,
`Scan` (the for loop moves to the next slot that poll reported), the read (`ReadRequest`,
`ReadTorn`, `ReadAnswer`, `ReadEnd`, `ReadError`) and the answer with the test for OP_BAD
(`Reply`, `ReplyUnnoticed`, `SendFails`). `ReadTorn` is a frame that does not unpack: alone of
the errors of `network_receive` it leaves the connection open, and the loop frees its slot
(`FreesSlot`; `network_server.c:82-86`, 171-174); `dropped` are the clients this happened to.
`invoke` is TreeSkel's; here it always leaves an answer, which is what it does. The other
threads take part through the descriptors of the process: `LinkUp` and `LinkDown`
(`child_watcher`), `Forward` (`process_task`). `peer` says who is at the other end of each
descriptor, and a closed number is given out again, the lowest first.

What nobody initialised is arbitrary in every world: `size_client` (accept may fail for all),
the `revents` of a slot just filled (`FirstPass`), `tamanho` after a failed read, and
`rtreeglobal->sockfd` of a primary, which is what `malloc` found there until a backup connects
(`tree_skel.c:103`) and may be a client's number.

`world` says what the peers do. "polite": clients leave by quit only. "closes": they also just
close. "any": besides, connections break, frames come torn, the backup goes, and SIGINT
arrives. `stale` records that the table or `sockfd` kept a number that was closed: from then on
a slot may name somebody else, which is why three properties are about the time before.
Descriptor 0 and -1 are the same value, as neither is a connection.

### The client (`Client`)
`watch_children` and `child_watcher` run the same code, the first in the main thread: each
of its steps is an action with the thread as a parameter (`List`, `Get`, `Connect` /
`ConnectFails` / `AlreadyConnected`, `Flag`, `Drop` / `KeepAssociation`, `Unflag`). A
command is the list of exchanges its call of the stub makes (`Commands`); an exchange is
`Evaluate` (the argument is read), `UseAssociation` (`rtree->sockfd` is read, once),
`Write`, `Answered` or a failure, which closes the descriptor. Associations are blocks of
memory that `free` gives back to `malloc`, and descriptors numbers that `close` gives back
to `socket`. `connection_watcher_client` only sets a variable nothing reads and has no
action.

`world` again says how far the environment lets the client finish. In "any" it does not at all,
and what holds there is that the variables keep their types and that the watch is not lost: both
threads may connect the same role at once, and an association is forgotten with its descriptor
(`client_stub.c:192`). In "settled" nothing changes before the first prompt; from then on
servers die, go and come whenever they like, in the middle of a call, of the watcher's steps and
of a quit. Most of what is claimed is claimed for this world: whose every open descriptor is
(`SocketsOwned`), what the flags say of memory and of the servers when the watcher is at rest, on
what a command may start (`GateMeansMemory`), of what alone the client can die
(`DiesOfNullOrQuit`), and when a call returns (`CallsReturn`). The watcher may free what a call
has begun to use (`client_stub.c:91`): the call then reads freed memory, which may still hold
the number or not (`UseAssociation`), and may end up at another server. That requests reach the
role they are for, `CallReachesRole`, is therefore about "orderly" only, where besides a change
waits for the watcher to deal with the one before and does not hit a call on its way into its
association.

## 3. Runs

| Run | Instance | Shows |
|---|---|---|
| `tree` | keys 1..4, two values | `SearchOrder`, `HeightFitsSize`, `ImplementsStore` (which also keeps `Segfault` from being an answer). Four keys reach every branch: a chain, children on both sides, a grandchild |
| `tree_race` | keys 1..3, two values, 4 writes | `AnswersWereRight`, `FaultsInWindow`, `StoresAreAtomic` |
| `server` | 2 keys, 3 writes, every opcode, verify 1..4, connection of one frame | `HeadPresent`, `NoLostWakeup`, `ExecutionOrder`, `VerifyZeroIsPending`, `OnlyVerifyDiscards`, `ImplementsAsyncStore` (safety and liveness) |
| `replication` | 2 keys (symmetric), 3 writes, late backup | `TypeOK` (of both servers and what is between them), `BackupFollows`, `NothingLostThenEqual`, `SameNumbers` |
| `replication_live` | 1 key, 6 writes, reads at the backup, room for 2 answers | `PrimaryServed`, `BackupServed` |
| `membership` | 3 servers at any moment, 4 if orderly | `TypeOK`, `WatchNeverLost`, `StartsAreSafe`, `EveryServerHasRole`, `PrimaryLinked`, `BackupTakesOver` |
| `main_loop` | 2 clients, any; 3 clients, polite; 2 slots | `TypeOK`, `NoClientForgotten`, `SlotsKeepTheirClient`, `PollWasRight`, `StrayByBadNumber`, `PoliteAreAnswered` |
| `client` | 3 servers, 3 descriptors, 2 / 3 / 4 changes | `WatchNeverLost`, `GateMeansBothRegistered`, `FlagsMatchMemory`, `SocketsOwned`, `GateMeansMemory`, `DiesOfNullOrQuit`, `CallReachesRole`, `CallsReturn` |
| `verify_one_is_executed` | puts and verifications | violated: `tree_skel.h:25` |
| `puts_reach_backup` | 1 key, 2 puts | violated: `client_stub.h:23` |
| `get_finds_key` | as `tree` | violated: `tree.h:27` |
| `closing_is_survived` | 2 clients, 2 slots | violated: `network_server.h:18` |

Bounds. `MaxOps` bounds the writes a server accepts (`last_assigned` is an int that
counts up; its overflow is not modelled). Three writes are enough for one being executed,
one waiting and one arriving, and with `SockBuf = 1` for a frame at the backup, one on
the connection and one blocked with the lock held. A larger `SockBuf` only delays blocking.
The real bound on answers nobody reads (`AckBuf`) is the socket buffers, some ten thousand short
ones. `replication_live` has room for two and six writes, so that within it the backup gets
stuck in the third answer, the connection fills behind it, the primary's secondary thread
blocks with the lock, and its main thread with it; `PrimaryServed` and `BackupServed` say that
each serves every message until the first of these has happened. In `replication` there is room
for all, as a stuck backup only ends what is under way. Reads do not change state at the
backup except for when frames are taken, so the safety run leaves them out and
`replication_live` has them.

Three servers are enough in `membership` for one to be starting while a second dies and a
third promotes itself; four, if orderly, for two promotions in a row and a newcomer that finds
both roles taken. In `main_loop` two clients are enough for one to get the number of the other's
closed descriptor, and three polite ones fill the table of two slots (`NFDESC` is 500 in the
code) and leave one waiting; one connection to the backup is enough to be closed twice and
for its number to pass to a client. In `client`, four changes are the death of the primary, the
two of the promotion and a new backup; in "settled", three let a role be lost, taken by
another server and lost again while a call is under way; in "any", two are enough for both threads
to connect one role, or for a node to go and come back before the watcher looks; three
descriptors are the two associations' and one
more that a new connection takes before an old one is closed. In `tree_race`, four
writes build a root with a child and a grandchild and still replace or delete inside the
read; the reader takes the puts of three keys to either side.

`CHECK_DEADLOCK FALSE` appears where the system may stop: in `membership` every server may have
been started and killed, in `replication_live` the backup stops when its connection is full, in
`main_loop` the loop may have ended or every client may have
left, in `client` the client may have quit, and in `tree_race` the writes are used up.

Fairness. Each thread is scheduled (`WF` of the main thread's and of the secondary
thread's steps). No fairness makes a client send, a thread wake up spuriously, a
connection break, or ZooKeeper report anything. `TreeSkel` assumes a connected backup
keeps reading (`WF(BackupReads)`), `Replication` has the backup itself and assumes that
its poll loop, which visits every readable descriptor in each round
(`network_server.c:165`), does not pass over the primary's for ever (`SF(Transfer)`).
`Membership` assumes that both threads of a server run and that ZooKeeper notices the dead.
`MainLoop` assumes only that the main thread runs. `Client` assumes that both its threads
run and that ZooKeeper ends the sessions of dead servers; not that a server that is up answers,
for a promoted one does not (finding 3).
`queue_lock` is not assumed fair: the main thread gets it because only the main thread
adds tasks, so the secondary thread runs out of them and sleeps.

## 4. Findings

Shown by runs that expect a violation:

1. `verify` throws away the tasks it walks over and then answers 1 for them
   (`tree_skel.c:226-235`).
2. `invoke` turns a queued message into the reply while the secondary thread forwards it:
   the frame carries OP_PUT + 1 or OP_DEL + 1 and the backup ignores it
   (`tree_skel.c:137-138` against `296`, `341`).
3. A peer that closes its connection without OP_BAD leaves the server's main thread inside
   `read_all` for good (`message.c:37`), because `read` answers 0 there and the loop only leaves on
   errors. README.txt:6 reports the symptom. It is also what happens after a promotion: the
   clients drop their association with the former backup, now primary, whose loop then
   reads the end of that connection.

4. `tree_get` finds the root only (`tree.c:123-129`, against `tree.h:27`): the results of the
   recursive calls are dropped. In the same way `tree_put` answers -1 for what it stored below
   the root (`tree.c:98`, against `tree.h:23`), and `tree_del` refuses every tree of two entries
   (`tree.c:144`, against `tree.h:40`; README.txt:1 owns up to this one). `TreeStore` records
   what the calls do, and `ImplementsStore` shows that it is this and no more.

Seen in the models, without a run of their own:

- a deletion is forwarded as a put without data, which `data_create2` refuses: the backup keeps
  the key (`tree_skel.c:137`, `data.c:37`); `NothingLostThenEqual` therefore excludes deletions;
- the primary never reads the backup's answers: when they fill the connection the backup's only
  thread blocks (`network_server.c:183`), then the primary's secondary thread with `queue_lock`
  held, then the primary's main thread. Run `replication_live` goes there, and its properties
  except it by name (`BackupStuck`);
- without `orderly` the properties of `membership` stated for it are all violated: two
  servers that start together leave one unregistered; a server that starts while the backup sleeps
  before its promotion becomes primary with an empty tree, and the backup then connects to
  itself (`tree_skel.c:84-88`); a backup killed within seconds of its start leaves the primary a
  NULL `rtreeglobal`, which lines 92 and 136 dereference; a backup whose primary dies before its
  watch is set never takes over; a backup that registers before the primary has set its watch is
  never connected to (`tree_skel.c:194`);
- a primary without a backup writes to whatever descriptor its uninitialised `sockfd` names
  (`tree_skel.c:103`, 136-138), a client's among others, which `StrayByBadNumber` allows for;
- a frame that does not unpack leaves its client connected and never polled again
  (`network_server.c:84`), the exception in `NoClientForgotten`;
- `tree_get` may return the value of another key if the root is deleted and put again between
  its test of the key and its copy of the value (`tree.c:119-120`), may answer that a key is not
  there while a put replaces its data (`data.c:57`, 69), may read memory `entry_replace` has freed,
  and follows NULL between `tree.c:79` and 81, as does `tree_height`: the exceptions in
  `AnswersWereRight`, and what `FaultsInWindow` is about;
- `rtree_connect`'s result is not looked at: an association that could not be made counts as
  connected (`client_stub.c:82`) and the next command follows NULL; and a quit frees again what
  the watcher has just freed (`tree-client.c:126`): the exceptions in `DiesOfNullOrQuit`;
- two threads that connect the same role at once leave a descriptor nobody closes
  (`client_stub.c:192`): Client's world "any", which `SocketsOwned` leaves out.

## 5. Proofs

`BinaryTreeProofs` proves, for every set of keys and values and any sequence of calls,

- `TreeStaysOrdered` (`SearchOrder`) and `HeightAndSizeFit` (`HeightFitsSize`);
- `NoNullFollowed`: no call follows NULL;
- `TreeIsAStore` (`ImplementsStore`): the nodes implement `TreeStore`, and with it `RootedMap`.

The inductive invariant `TreeOK` says that the tree is finite and that every entry is where a
search for its key comes to (`Ordered`). That is more than `SearchOrder`, which would allow an
entry below an empty node, and it is what the other facts come from: a search ends at one node
only (`OnePlace`, as two ways that differ part at a node where the key sends both the same
way), so no key is stored twice (`NoKeyTwice`), a put finds the node that has its key
(`FindsKey`) and keeps the invariant (`StoreKeeps`), and the size is the number of stored keys
(`SizeIsKeys`). That a search ends at all follows from finiteness: a way longer than all others
cannot be gone on (`GoesOn`). A tree of at most one entry has it at the root (`LoneRoot`), so
deletion is only ever that of the root. For `HeightFitsSize`, each node is given the set of the
steps at which its way turns right, with its depth, a non-empty subset of 1..height, no set
twice (`CodeTells`), so there are fewer than 2 ^ height. Assumptions: keys are numbers, standing for
strcmp's order, and `NoKey`, `NoData` and `Segfault` are none of the values they stand beside.

`TreeSkelProofs` proves, for every set of keys, values and requests and every bound,

- `TypeCorrect`, `HeadAlwaysPresent`, `WakeupNeverLost`, `ExecutedInOrder`: the four
  invariants of `TreeSkel`;
- `VerifyZero`: an answer 0 of `verify` is never about an executed write;
- `OnlyVerifyLoses` (`OnlyVerifyDiscards`): in every step each pending write stays pending,
  is executed, or a VERIFY is being served;
- `RefinesAsyncStore`: `TreeSkel` implements `AsyncStore` (safety part), whatever it is asked:
  `QueueAddTask` is Accept, `Apply` is Execute, `Verify` is Discard or nothing
  (`VerifyIsDiscard`), every other step is invisible. The write being forwarded is executed
  already, so `Pending` is the queue without its head from `Apply` to `Pop`.

The inductive invariant is the conjunction `IInv` of the four. They need one another:
types hold through `Apply` and `Pop` only because the queue has a head; the head is there
because the only other thread that shortens the queue (`Verify`) needs the lock; and
`ExecutionOrder` carries the relation between what was executed and what is queued (the
numbers of the first are below those of the second, except for the head between its
execution and its pop), without which neither list stays sorted when a task moves from
one to the other. Assumptions: the key set is finite (so that `tree_size` is a number)
and requests have the types of the message's fields.

`ReplicationProofs` proves, for every set of writes and reads and every size of the queues and
the connection,

- `ReplicationTypeCorrect`: types of both servers, and no frame but a put or an answer;
- `BackupNeverOvertakes` (`BackupFollows`): what the backup has executed, queued or not
  read yet is a subsequence of what the primary executed.

What holds of each server alone is not proved again: `PP` and `BP` are instances of
`TreeSkelProofs`, whose `IInv` and `Inductive` are lifted to each server (`PrimaryStep`,
`BackupStep`), and a step of the two is a step, or none, of each (`StepOfEach`). The
invariant adds `PrimaryFacts` (from `Mark` on the head's message is a put or an answer, and
the head is the last executed write) and `LinkRight` (a write in the hands of the backup's
main thread came over the connection). `BackupFollows` alone is not inductive: when a write
is put on the connection it must not have been there already. `Follows` says so, by
comparing with `Sent`, which leaves out the last executed write until its forwarding is
over. Each step then does one of three things to the two sequences: what is on its way loses
a stretch (`StreamShrinks`), what was sent grows (`SentGrows`), or both grow by the same
write (`BothGrow`); `SubDrop`, `SubGrows`, `SubAppend` and `SubTransitive` are the facts
about subsequences behind them. Assumptions: `ReplicationAssumption` (requests have the
types of the message's fields; clients write at the primary, and read and verify at the
backup, as `tree-client.c:58-111` does) and `RootedMapAssumption`.

and, going on from there,

- `NumbersAgree` (`SameNumbers`): each server counts on its own, and VERIFY drops writes at
  the backup, yet while no forwarded write was lost both have the same number for it;
- `QuietTreesEqual` (`NothingLostThenEqual`): the trees are equal in the end;
- `CrashLeavesPartOfTheWrites`: at every moment, so whenever the primary dies, the backup's tree
  is what a subsequence of the primary's writes makes of an empty one (`BackupIsPart`, which
  TLC cannot evaluate: it quantifies over all sequences of writes).

The hypotheses of the first two count what arrived, so the first invariant is about numbers.
`Numbered`: what the primary executed and what it has pending is numbered 1, 2, ... without a
gap. `Counted`: the numbers the backup gave, and the writes still on their way to it, are
together no more than the primary executed. If the backup accepted as many as the primary
executed, then `Counted` leaves nothing to drop or to be under way, `ExecutionOrder` (of the
backup's instance of `TreeSkelProofs`) and `AcceptedClimbs` number them 1, 2, ..., and
`SubAsLong`, by which a subsequence no shorter than the sequence is the sequence, makes them the
same writes. For the trees, `Replays` says of each server that its tree is what the executed
writes, one after the other, make of an empty one; it is stated with the list of the trees in
between (`History`), because a recursive function of the writes could not be reasoned about.
Equal writes then have equal histories, and a subsequence of the writes explains the backup's
tree. The assumption that clients do not verify at the primary is used: a primary that drops
pending writes leaves gaps.

`MembershipProofs` proves, for any number of servers, first of those started and killed at
any moment,

- `MembershipTypeCorrect`: types, live sessions behind the nodes, watches and callbacks only
  for serving servers;
- `NeverDeaf` (`WatchNeverLost`): the one-shot watch is never lost;
- `StartsDoNoHarm` (`StartsAreSafe`): until one is killed, starts do no harm;

and then, for servers started and killed when the others are at rest (`orderly`; without it
each is false, section 4),

- `OneRoleEach` (`EveryServerHasRole`) and `CalmPrimaryLinked` (`PrimaryLinked`).

The first two are inductive together. `StartsDoNoHarm` has an invariant of its own, `NodesSafe`,
which lasts while nobody was killed: nodes only come, the primary's first (`NodesStay`); so no
callback ever promotes, a callback that reads the backup's address finds it, and the backup,
whose own node was the last change, is never called back (`CallbackSafe`); and what a starting
server has found out about the primary cannot become false (`StartSafe`). The last two are about
moments of calm, and what leads there is `OrderlyInv`, in an orderly world `RolesRight`:
`OneAtATime` (while a server is starting, or is dead but not yet to ZooKeeper, no other is and all
who serve are at rest), `MembersHaveNodes` (who watches or serves owns a node), `StartRight`
(what a starting server has found out is still so), `Promoting` (who holds both nodes is
about to delete one), `PrimaryRight` (with a backup there, the primary is linked to it or on its
way to connect), `BackupRight` (without a primary, the backup has been told) and `NoneCrashed`.
Assumptions: `NoServer` is no server and no server is one of the link states.

`MainLoopProofs` proves, for any number of clients, slots and connections to the backup, in
every world,

- `MainLoopTypeCorrect`, `EveryClientPolled` (`NoClientForgotten`);
- `SlotsAreFaithful` (`SlotsKeepTheirClient`), `ReadsWhatWasPolled` (`PollWasRight`) and, in
  every step, `ForwardedToBackupOnly` (`StrayByBadNumber`).

Its inductive invariant adds to `TypeOK`: `Pass` (what is left of a pass names used slots),
`OnePlace` (a client is at one descriptor at most, and the backlog's client at none),
`Serving` (the client being answered has no other request on the way, or its type would break),
`Sound` (before `stale`, used slots lead to their clients, to each by one slot, and `link`, once
it was set, to the backup) and `Announced` (what poll reported stays readable, until a slot
filled since is reached). `OnePlace` is what lets `Announced` survive the read of another slot, and `Sound`'s
injectivity what lets a slot survive the closing of another. That a new descriptor is a free
one comes from the least element of a set of numbers (`LowestIn`, by the library's
well-foundedness of <). Assumption: clients, `NoClient` and `Backup` are different.

`TreeRaceProofs` proves, for every set of keys and values and any number of writes,

- `RaceTypeCorrect`: types, and that two nodes for each put are enough;
- `SizeNeverFaults`: `tree_size`, and `tree_get_keys` with it, always gets through;
- `FaultsOnlyInWindow` (`FaultsInWindow`): the other reads go wrong only by what they overlapped.

The inductive invariant has two halves. Of the tree: `Room` (nodes still to be created are
counted with the used ones), `EntriesOpen` (a node with an entry has both children, but for
the one the writer is at) and `FreedOnlyHere` (an entry refers to freed memory only at the
node where `entry_replace` is at work). Of the reader: `Stack` (each call on the C stack is past
a node that was not empty and waits in its second recursive call, but for the last),
`LostByDeletion`, `TornHere` (where `entry_replace` is at work, the reader has it in `torn`) and
`HeldOK` (a pointer that was overwritten after the reader loaded it leads to a key or value, or
its node is in `torn`). The first half does not mention the reader, so a step of the reader
leaves it alone; a step of the writer keeps the second because children, once linked, stay.
Assumptions: keys are numbers, and the markers (`NULL`, `NoData`, `FREED`, `DANGLING`, `EMPTY`,
`LINKED`) are different from each other and from what they stand beside.

`AnswerProofs` proves, under the same assumptions,

- `AnswersRight` (`AnswersWereRight`): a read that gets through answers what was right at some
  moment while it ran; `tree_get` unless a deletion overlapped it, or a put replaced the root
  under it and it answers that the key is not there;
- `PutsAreAtomic` (`StoresAreAtomic`): each put and each deletion changes the map in one store.

`Shape` is what the stores keep true of the tree: children one level down (`Levels`), no node
the child of two (`OneParent`), the entries hang together from the root (`Grown`), and the
children `tree_put` is about to replace were never filled (`BareChildren`). `CountInv` is about
`tree_size` and `tree_height`. It says that there are a set V of nodes counted and a set S of
entries stored when the reader began, both bound by quantifiers, so that the model carries no
history for them. `Tour(V)`: no entry is counted twice, because the next node called for was
not counted, though its parent was (`Fresh`), and the calls waiting on the stack are for
other nodes (`Pending`); so the result never exceeds the entries there are. `Lower(V, S)`:
an entry of S whose parent was counted was counted too, or a call leads to it (`Reached`); when no
call is left, an entry of S that was missed and has least depth would have a counted parent, so
all of S was counted. A writer's step changes the right answer by one at most, so the answers
that were right have no gap (`NoGaps`), and a result between two of them was one of
them (`Between`). A deletion is the exception to S: it only happens in a tree of one
entry, and makes 0 a right answer. For `tree_get`, `GetInv` needs the root only: below it
nothing is returned (`FoundNothing`), and the entry whose key was compared can only have been
replaced by one with that key when its value is copied (`StillTheEntry`); a pointer that was
overwritten under the reader pointed to freed memory, so nothing is answered from it (`HeldFreed`).

For the other theorem each node in the tree has an area, the keys whose search comes to it;
`MapInv` says that there are such areas, again bound by a quantifier. The root's is all keys, an
entry's children have the smaller and the larger keys of its area (`Split`), and an entry's key
is in its area. Any two areas are `Apart`: disjoint, or one is inside the other and without the
key of the other's entry. So no key is stored twice (`OneNodeEach`), and if the key of a put is
stored anywhere, it is where the put's search is (`SearchedHere`). When `tree_put` has linked an
entry and not yet its children, the areas of the children are still to be given, and must not
meet an area that is in use: `NothingBelow` says that nothing hangs below such an entry but the
child just created.

`ClientProofs` proves, for any number of servers, blocks, descriptors and changes,

- `ClientTypeCorrect` and `ClientNeverDeaf` (`WatchNeverLost`), in every world;
- `FlagsRightAtRest` (`FlagsMatchMemory`), `GateRightAtRest` (`GateMeansBothRegistered`),
  `DescriptorsOwned` (`SocketsOwned`) and, in every step, `GateRightOfMemory`
  (`GateMeansMemory`) and `WatcherFreesOnce` (`DiesOfNullOrQuit`), for a client that started
  before anything changed;
- in every step that sends a request, `RequestsReachRole` (`CallReachesRole`), in an orderly
  world (section 2; in the others it is false).

The first two of the second kind are about a watcher at rest, and what it leaves behind is
built up over the steps of `child_watcher`. The invariant `Settled` therefore says of each
step what was done so far: `Step` is what the one thread that looks at the children does
next (`Alone`), `Held` the roles that have an association at that point (one that is
connected or about to be flagged, unless it has just been dropped), `MemoryRight` that these
are the blocks in memory, each role's its own, and `FlagsRight` what the flags say of the
roles already passed and what the thread has listed. `Base`, the part for every world, adds
`CallRight` (the exit is the last exchange of a command) and `OpenIsHeld` (every open descriptor
is that of a block in memory). Since in `Settled` every block in memory is one that
`rtree_primary` or `rtree_backup` leads to, so is every open descriptor; since a command starts
with both flags set, the roles in `Held` are all, or the watcher is between a free and its flag.

For `WatcherFreesOnce`, `Survival` says where NULL can be: the watcher never takes it for
something it freed, and while a call is made an association is NULL only if its role is flagged,
or about to be (`NullRight`). A step that crashes then follows such a NULL, has no address, or
is a `rtree_disconnect`; the watcher disconnects only roles in `Held`, whose blocks are in memory.

The last kind needs to know who waits for whom, and `Patient` says so. `WorldWaits`: while a
call is on its way into its association (`InCall`), both roles are registered, and connected,
and the watcher is idle; while the watcher or the start is at work and both roles are
registered, both servers are up. `HostportRight`: an address read is still the node's.
`Linked`: each role in `Held` has an association in memory and a connection of its own,
which leads to the role's server or was closed because that died. `CallShape`: between two
exchanges of one command `rtree` is the association its next exchange is for. Assumption:
`ClientAssumption`.

Model-checked only: everything about liveness, which needs fairness and ENABLED. Every other
property of a run is also a theorem, `ImplementsAsyncStore` in its safety part.

## 6. Not modelled, and the plan

Not modelled: allocation failures, the leaks README.txt mentions, the bytes of messages
(lengths, the buffer of `network_send`), reads of a message the stub has just freed
(`client_stub.c:257`), splitting a command line into words, the generated protobuf code, and
the functions nothing calls (`queue_get_task`, `entry_compare`, `entry_dup`, `data_replace`,
`destroyMin`, `tree_get_keys_aux`). In `Membership`, a session that expires while its server
lives, and a server started again at an address that is still registered. A whole system
(clients, two servers and ZooKeeper in one state space) is out of TLC's reach: the modules
meet at what one assumes of the other (an answer for every request, a node for every role).

Done: `RootedMap`, `BinaryTree`, `TreeStore`, `TreeRace`; `TreeSkel`, `AsyncStore`;
`Replication`; `Membership`; `MainLoop`; `Client`; and the proofs of section 5.

Left, most important first:

1. `Replication` with `Membership`'s crashes: what of the primary's writes a promoted backup has
   once its own queue is done (`CrashLeavesPartOfTheWrites` says it for the tree it is left with);
2. sessions that expire early, in `Membership`.
