----------------------------- MODULE Membership -----------------------------
(***************************************************************************)
(* Which tree-server is primary and which is backup: the ephemeral nodes   *)
(* /kvstore/primary and /kvstore/backup in ZooKeeper, their creation by    *)
(* tree_skel_init, and child_watcher, which promotes the backup and        *)
(* connects the primary to it.                                             *)
(*                                                                         *)
(* Every call to ZooKeeper is one step: it is atomic there, and anything   *)
(* may happen between two of them.  A server is one run of the program at  *)
(* one address; a server started again is another element of Servers.      *)
(* sleep(3) has no model but the step that ends it.                        *)
(***************************************************************************)
CONSTANTS
    Servers,    \* the tree-server processes that may ever be started
    NoServer,   \* no node
    Startable   \* those that are, if orderly, and if not

\* What rtreeglobal->sockfd is when it is no connection: never assigned, -1,
\* closed by network_close, or rtreeglobal itself is NULL.
NoLink == {"unset", "none", "closed", "null"}

ASSUME MembershipAssumption ==
    /\ NoServer \notin Servers
    /\ Servers \cap NoLink = {}
    /\ Startable \in [BOOLEAN -> SUBSET Servers]

VARIABLES
    orderly,    \* servers are started and killed only when the others have
                \* nothing left to do (Calm), and find ZooKeeper
    kvstore,    \* /kvstore exists
    pnode,      \* the server that created /kvstore/primary
    bnode,      \* the server that created /kvstore/backup
    session,    \* servers whose ZooKeeper session is alive
    watching,   \* servers whose child watch on /kvstore is set
    notified,   \* servers whose watch fired, child_watcher not called yet
    pc,         \* the call tree_skel_init is about to make
    wpc,        \* the call child_watcher is about to make
    address,    \* the address child_watcher read from /kvstore/backup
    rtree       \* rtreeglobal: the server it is connected to, or a NoLink

nodes == <<kvstore, pnode, bnode>>
sessions == <<session, orderly>>
watches == <<watching, notified>>
locals == <<pc, wpc, address, rtree>>
vars == <<nodes, sessions, watches, locals>>

-----------------------------------------------------------------------------
Starting == {"exists_kvstore", "create_kvstore", "exists_primary", "exists_backup",
             "recheck_primary", "create_primary", "create_backup", "watch"}

Stopped == {"off", "exited", "killed", "segfault"}

Working == {"create", "delete", "get", "connect"}

Owner == Servers \cup {NoServer}

Running(s) == pc[s] \notin Stopped

\* A server with a watcher that can hear of changes has a live session, and
\* so have the owners of the nodes, which are ephemeral.
TypeOK ==
    /\ orderly \in BOOLEAN
    /\ kvstore \in BOOLEAN
    /\ pnode \in session \cup {NoServer}
    /\ bnode \in session \cup {NoServer}
    /\ session \subseteq Servers
    /\ watching \subseteq session
    /\ notified \subseteq session
    /\ pc \in [Servers -> Starting \cup Stopped \cup {"serving"}]
    /\ wpc \in [Servers -> Working \cup {"idle", "sleep"}]
    /\ address \in [Servers -> Owner]
    /\ rtree \in [Servers -> Servers \cup NoLink]
    /\ \A s \in Servers :
          /\ wpc[s] = "connect" => address[s] \in Servers
          /\ wpc[s] # "idle" => pc[s] = "serving" /\ s \in session
          /\ pc[s] = "off" => s \notin session
          /\ pc[s] \in Starting => s \in session
          /\ s \in watching \cup notified => pc[s] = "serving"

Init ==
    /\ orderly \in BOOLEAN
    /\ kvstore = FALSE /\ pnode = NoServer /\ bnode = NoServer
    /\ session = {} /\ watching = {} /\ notified = {}
    /\ pc = [s \in Servers |-> "off"]
    /\ wpc = [s \in Servers |-> "idle"]
    /\ address = [s \in Servers |-> NoServer]
    /\ rtree = [s \in Servers |-> "unset"]

\* Nobody is starting, promoting or connecting, and ZooKeeper has noticed
\* every server that died.
Calm ==
    /\ \A s \in Servers : Running(s) => pc[s] = "serving" /\ wpc[s] = "idle"
    /\ \A s \in session : Running(s)
    /\ notified = {}

-----------------------------------------------------------------------------
(* ZooKeeper.  A watch fires once, at the first change of the children.    *)

ChildrenChange ==
    /\ notified' = notified \cup watching
    /\ watching' = {}

(* Mutant: the backup's node is created without ZOO_EPHEMERAL. *)
SessionEndsBackupStays(s) ==
    /\ s \in session /\ ~Running(s)
    /\ session' = session \ {s}
    /\ pnode' = IF pnode = s THEN NoServer ELSE pnode
    /\ IF pnode = s THEN ChildrenChange ELSE UNCHANGED watches
    /\ UNCHANGED <<orderly, kvstore, bnode, locals>>

\* The session of a dead server expires and its ephemeral nodes go with it.
SessionEnds(s) ==
    /\ s \in session /\ ~Running(s)
    /\ session' = session \ {s}
    /\ pnode' = IF pnode = s THEN NoServer ELSE pnode
    /\ bnode' = IF bnode = s THEN NoServer ELSE bnode
    /\ IF s \in {pnode, bnode} THEN ChildrenChange ELSE UNCHANGED watches
    /\ UNCHANGED <<orderly, kvstore, locals>>

\* zoo_create of a child fails if it exists; the code goes on either way.
CreatesPrimary(s) ==
    /\ IF pnode = NoServer
       THEN pnode' = s /\ ChildrenChange
       ELSE UNCHANGED <<pnode, watches>>
    /\ UNCHANGED <<kvstore, bnode, sessions>>

-----------------------------------------------------------------------------
(* The main thread: connect_zookeeper and tree_skel_init.                  *)

Goto(s, label) == pc' = [pc EXCEPT ![s] = label]

Start(s) ==
    /\ pc[s] = "off" /\ s \in Startable[orderly] /\ (orderly => Calm)
    /\ session' = session \cup {s}
    /\ Goto(s, "exists_kvstore")
    /\ UNCHANGED <<orderly, nodes, watches, wpc, address, rtree>>

\* No connection to ZooKeeper after three seconds: it serves all the same.
StartUnconnected(s) ==
    /\ pc[s] = "off" /\ s \in Startable[orderly] /\ ~orderly
    /\ Goto(s, "serving")
    /\ UNCHANGED <<nodes, sessions, watches, wpc, address, rtree>>

ExistsKvstore(s) ==
    /\ pc[s] = "exists_kvstore"
    /\ Goto(s, IF kvstore THEN "exists_primary" ELSE "create_kvstore")
    /\ UNCHANGED <<nodes, sessions, watches, wpc, address, rtree>>

CreateKvstore(s) ==
    /\ pc[s] = "create_kvstore"
    /\ kvstore' = TRUE
    /\ Goto(s, "create_primary")
    /\ UNCHANGED <<pnode, bnode, sessions, watches, wpc, address, rtree>>

ExistsPrimary(s) ==
    /\ pc[s] = "exists_primary"
    /\ Goto(s, IF pnode = NoServer THEN "recheck_primary" ELSE "exists_backup")
    /\ UNCHANGED <<nodes, sessions, watches, wpc, address, rtree>>

\* Both roles are taken: tree_skel_init returns -1 and the server exits.
ExistsBackup(s) ==
    /\ pc[s] = "exists_backup"
    /\ Goto(s, IF bnode = NoServer THEN "recheck_primary" ELSE "exited")
    /\ UNCHANGED <<nodes, sessions, watches, wpc, address, rtree>>

(* Mutant: the test for the primary is dropped from the last branch. *)
AlwaysBackup(s) ==
    /\ pc[s] = "recheck_primary"
    /\ Goto(s, "create_backup")
    /\ UNCHANGED <<nodes, sessions, watches, wpc, address, rtree>>

RecheckPrimary(s) ==
    /\ pc[s] = "recheck_primary"
    /\ Goto(s, IF pnode = NoServer THEN "create_primary" ELSE "create_backup")
    /\ UNCHANGED <<nodes, sessions, watches, wpc, address, rtree>>

CreatePrimary(s) ==
    /\ pc[s] = "create_primary"
    /\ CreatesPrimary(s)
    /\ Goto(s, "watch")
    /\ UNCHANGED <<wpc, address, rtree>>

CreateBackup(s) ==
    /\ pc[s] = "create_backup"
    /\ IF bnode = NoServer
       THEN bnode' = s /\ ChildrenChange
       ELSE UNCHANGED <<bnode, watches>>
    /\ rtree' = [rtree EXCEPT ![s] = "none"]
    /\ Goto(s, "watch")
    /\ UNCHANGED <<kvstore, pnode, sessions, wpc, address>>

(* Mutant: only the primary asks to be told of changes. *)
WatchPrimaryOnly(s) ==
    /\ pc[s] = "watch"
    /\ watching' = IF pnode = s THEN watching \cup {s} ELSE watching
    /\ Goto(s, "serving")
    /\ UNCHANGED <<nodes, sessions, notified, wpc, address, rtree>>

\* zoo_wget_children sets the watch; the list it returns is not looked at.
Watch(s) ==
    /\ pc[s] = "watch"
    /\ watching' = watching \cup {s}
    /\ Goto(s, "serving")
    /\ UNCHANGED <<nodes, sessions, notified, wpc, address, rtree>>

Main(s) ==
    \/ ExistsKvstore(s) \/ CreateKvstore(s)
    \/ ExistsPrimary(s) \/ ExistsBackup(s) \/ RecheckPrimary(s)
    \/ CreatePrimary(s) \/ CreateBackup(s) \/ Watch(s)

-----------------------------------------------------------------------------
(* A server stops.  Its watch and what it was to be told go with it.       *)

Dies(s, how) ==
    /\ Goto(s, how)
    /\ wpc' = [wpc EXCEPT ![s] = "idle"]
    /\ watching' = watching \ {s}
    /\ notified' = notified \ {s}
    /\ UNCHANGED <<nodes, sessions, address, rtree>>

Kill(s) ==
    /\ Running(s) /\ (orderly => Calm)
    /\ Dies(s, "killed")

\* process_task reads rtreeglobal->sockfd after every write (line 136).
ExecuteWrite(s) ==
    /\ pc[s] = "serving" /\ rtree[s] = "null"
    /\ Dies(s, "segfault")

-----------------------------------------------------------------------------
(* The watcher thread: child_watcher.                                      *)

\* Called, and asleep for three seconds.
Called(s) ==
    /\ s \in notified /\ pc[s] = "serving" /\ wpc[s] = "idle"
    /\ notified' = notified \ {s}
    /\ wpc' = [wpc EXCEPT ![s] = "sleep"]
    /\ UNCHANGED <<nodes, sessions, watching, pc, address, rtree>>

\* What it will do about the children it listed.
Decision ==
    IF bnode = NoServer THEN "close"
    ELSE IF pnode = NoServer THEN "create" ELSE "get"

(* Mutant: zoo_get_children, which sets no watch, for zoo_wget_children. *)
ListUnwatched(s) ==
    /\ wpc[s] = "sleep" /\ Decision # "close"
    /\ wpc' = [wpc EXCEPT ![s] = Decision]
    /\ UNCHANGED <<nodes, sessions, watches, pc, address, rtree>>

\* zoo_wget_children: the list and the next watch are set in one call.
List(s) ==
    /\ wpc[s] = "sleep" /\ Decision # "close"
    /\ watching' = watching \cup {s}
    /\ wpc' = [wpc EXCEPT ![s] = Decision]
    /\ UNCHANGED <<nodes, sessions, notified, pc, address, rtree>>

\* No backup: close the connection to it.  close(-1) and the close of a
\* descriptor never assigned leave sockfd what it was.
ListAndClose(s) ==
    /\ wpc[s] = "sleep" /\ Decision = "close" /\ rtree[s] # "null"
    /\ watching' = watching \cup {s}
    /\ wpc' = [wpc EXCEPT ![s] = "idle"]
    /\ rtree' = [rtree EXCEPT ![s] = IF @ \in Servers THEN "closed" ELSE @]
    /\ UNCHANGED <<nodes, sessions, notified, pc, address>>

\* network_close(NULL).
ListAndCloseNull(s) ==
    /\ wpc[s] = "sleep" /\ Decision = "close" /\ rtree[s] = "null"
    /\ Dies(s, "segfault")

\* A backup and no primary: register as primary, whoever the backup is, ...
PromoteCreate(s) ==
    /\ wpc[s] = "create"
    /\ CreatesPrimary(s)
    /\ wpc' = [wpc EXCEPT ![s] = "delete"]
    /\ UNCHANGED <<pc, address, rtree>>

\* ... and remove the backup's node, whosever it is by now.
PromoteDelete(s) ==
    /\ wpc[s] = "delete"
    /\ IF bnode = NoServer THEN UNCHANGED <<bnode, watches>>
       ELSE bnode' = NoServer /\ ChildrenChange
    /\ wpc' = [wpc EXCEPT ![s] = "idle"]
    /\ UNCHANGED <<kvstore, pnode, sessions, pc, address, rtree>>

(* Mutant: the wrong node is read. *)
GetPrimary(s) ==
    /\ wpc[s] = "get" /\ pnode # NoServer
    /\ address' = [address EXCEPT ![s] = pnode]
    /\ wpc' = [wpc EXCEPT ![s] = "connect"]
    /\ UNCHANGED <<nodes, sessions, watches, pc, rtree>>

\* Both nodes were there: zoo_get the backup's address.
GetBackup(s) ==
    /\ wpc[s] = "get" /\ bnode # NoServer
    /\ address' = [address EXCEPT ![s] = bnode]
    /\ wpc' = [wpc EXCEPT ![s] = "connect"]
    /\ UNCHANGED <<nodes, sessions, watches, pc, rtree>>

\* The node left since: zoo_get fails, unchecked, and rtree_connect parses
\* what malloc left in the buffer.  It finds no port (atoi(NULL)), or an
\* address nobody answers at.
GetNothing(s) ==
    /\ wpc[s] = "get" /\ bnode = NoServer
    /\ \/ Dies(s, "segfault")
       \/ /\ wpc' = [wpc EXCEPT ![s] = "idle"]
          /\ rtree' = [rtree EXCEPT ![s] = "null"]
          /\ UNCHANGED <<nodes, sessions, watches, pc, address>>

\* rtree_connect replaces rtreeglobal, by NULL when it is refused.
Connect(s) ==
    /\ wpc[s] = "connect"
    /\ rtree' = [rtree EXCEPT ![s] = IF Running(address[s]) THEN address[s] ELSE "null"]
    /\ wpc' = [wpc EXCEPT ![s] = "idle"]
    /\ UNCHANGED <<nodes, sessions, watches, pc, address>>

Watcher(s) ==
    \/ Called(s) \/ List(s) \/ ListAndClose(s) \/ ListAndCloseNull(s)
    \/ PromoteCreate(s) \/ PromoteDelete(s)
    \/ GetBackup(s) \/ GetNothing(s) \/ Connect(s)

Next ==
    \E s \in Servers :
        \/ Start(s) \/ StartUnconnected(s) \/ Kill(s) \/ SessionEnds(s)
        \/ Main(s) \/ ExecuteWrite(s) \/ Watcher(s)

Spec == Init /\ [][Next]_vars

\* Both threads of every server run, and ZooKeeper notices the dead.  Nobody
\* has to start or kill a server, or send it a write.
Fairness ==
    \A s \in Servers : WF_vars(Main(s)) /\ WF_vars(Watcher(s)) /\ WF_vars(SessionEnds(s))

FairSpec == Spec /\ Fairness

-----------------------------------------------------------------------------
\* No server goes deaf: once it serves, its one-shot watch is set, or fired
\* and not answered yet, or the callback that sets it again (tree_skel.c:67)
\* is on its way to do so.
WatchNeverLost ==
    \A s \in session : pc[s] = "serving" =>
        s \in watching \cup notified \/ wpc[s] = "sleep"

\* Starts alone do no harm, with any number of servers starting at once, in
\* every order of their calls and whoever wins the nodes: until one is killed,
\* none dereferences a NULL rtreeglobal or reads a node that is gone, none is
\* linked to itself, and none that registered serves without a primary
\* (tree_skel.c:78-92, 136, 170-194).
StartsAreSafe ==
    (\A s \in Servers : pc[s] # "killed") => \A s \in Servers :
        /\ pc[s] # "segfault"
        /\ rtree[s] # s
        /\ pc[s] = "serving" /\ s \in session => pnode # NoServer

\* Every running server has exactly one of the roles, and there is a primary.
EveryServerHasRole ==
    orderly /\ Calm => \A s \in Servers : Running(s) =>
        /\ pnode # NoServer
        /\ (s = pnode) # (s = bnode)

\* The primary forwards its writes to the backup, and the backup to nobody,
\* itself included (tree_skel.c:84-88).
PrimaryLinked ==
    orderly /\ Calm /\ bnode # NoServer => rtree[pnode] = bnode /\ rtree[bnode] = "none"

\* A backup left alone becomes the primary.
BackupTakesOver ==
    \A s \in Servers :
        orderly /\ bnode = s /\ pnode = NoServer /\ Running(s) ~> pnode = s /\ bnode # s

=============================================================================
