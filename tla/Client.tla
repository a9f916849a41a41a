------------------------------- MODULE Client -------------------------------
(***************************************************************************)
(* One tree-client process: the main thread, which runs watch_children and *)
(* then serves the command line, and the ZooKeeper thread, which runs      *)
(* child_watcher.  Without any lock they share the two associations        *)
(* (rtree_primary, rtree_backup), their flags and pExists, bExists.        *)
(*                                                                         *)
(* The two functions run the same code, so that each of its steps is an    *)
(* action of a thread t.  An association is a block of memory that holds a *)
(* descriptor; blocks and descriptors are used again once free.  Servers,  *)
(* their nodes and their answers are the environment.  A request or answer *)
(* crosses in one step, and command lines are the calls they lead to.      *)
(***************************************************************************)
EXTENDS Naturals, Sequences, FiniteSets, SequencesExt

CONSTANTS
    Servers,    \* addresses of tree-servers
    NoServer,   \* no node, no connection
    Worlds,     \* the kinds of environment, see MayChange and MayType
    MaxChanges, \* for each world, a bound on what happens to servers and nodes
    MaxOpen     \* bound on open descriptors and on associations in memory

ASSUME ClientAssumption ==
    /\ NoServer \notin Servers
    /\ Worlds \subseteq {"any", "settled", "orderly"}
    /\ MaxChanges \in [Worlds -> Nat]
    /\ MaxOpen \in Nat

VARIABLES
    world,      \* which kind of environment this is; never changes
    node,       \* the server registered under each role
    up,         \* servers that run
    changes,    \* how often node or up changed
    watching,   \* the child watch on /kvstore is set
    notified,   \* it fired, child_watcher not called yet
    at,         \* what each thread does next
    exists,     \* roles r with pExists, bExists
    hostport,   \* what zoo_get left in primary_hostport, backup_hostport
    connected,  \* roles r with primary_connected, backup_connected
    assoc,      \* rtree_primary, rtree_backup
    live,       \* blocks of memory allocated
    sockfd,     \* the descriptor field of each block
    socket,     \* what each descriptor is connected to
    asked,      \* descriptors with a request not answered yet
    calls,      \* exchanges the command still has to make
    rtree,      \* the association of the one it is making
    fd          \* its descriptor, as network_send_receive read it

environment == <<world, node, up, changes>>
watch == <<watching, notified>>
refreshed == <<exists, hostport, connected>>
memory == <<assoc, live, sockfd>>
sockets == <<socket, asked>>
call == <<calls, rtree, fd>>
vars == <<environment, watch, at, refreshed, memory, sockets, call>>

-----------------------------------------------------------------------------
Roles == {"primary", "backup"}
Threads == {"main", "watcher"}
NULL == 0
Blocks == 1..MaxOpen
FDs == 1..MaxOpen       \* 0 is a number that is no open descriptor

RefreshSteps ==
    {<<"list">>} \cup ({"get", "connect", "flag", "drop", "unflag"} \X Roles)

CallSteps ==
    {<<"prompt">>, <<"next">>, <<"use">>, <<"write">>, <<"await">>}
    \cup ({"exit"} \X Roles)

Ended == {<<"ended">>, <<"crashed">>}

EnvironmentTypeOK ==
    /\ world \in Worlds
    /\ node \in [Roles -> Servers \cup {NoServer}]
    /\ up \subseteq Servers
    /\ changes \in 0..MaxChanges[world]

WatchTypeOK == watching \in BOOLEAN /\ notified \in BOOLEAN

StepsTypeOK ==
    /\ at \in [Threads -> RefreshSteps \cup CallSteps \cup {<<"idle">>} \cup Ended]
    /\ at["main"] # <<"idle">>
    /\ at["watcher"] \notin CallSteps

MemoryTypeOK ==
    /\ exists \subseteq Roles /\ connected \subseteq Roles
    /\ hostport \in [Roles -> Servers \cup {NoServer}]
    /\ assoc \in [Roles -> Blocks \cup {NULL}]
    /\ live \subseteq Blocks
    /\ sockfd \in [Blocks -> FDs \cup {0}]
    /\ socket \in [FDs -> Servers \cup {NoServer}]
    /\ asked \subseteq {f \in FDs : socket[f] # NoServer}

CallTypeOK ==
    /\ calls \in Seq(Roles \cup {"same", "exit"})
    /\ at["main"] \in {<<"next">>, <<"use">>, <<"write">>, <<"await">>} => calls # <<>>
    /\ rtree \in Blocks \cup {NULL}
    /\ fd \in FDs \cup {0}

TypeOK == EnvironmentTypeOK /\ WatchTypeOK /\ StepsTypeOK /\ MemoryTypeOK /\ CallTypeOK

\* Some servers are registered; main is about to call watch_children.
Init ==
    /\ world \in Worlds
    /\ node \in [Roles -> Servers \cup {NoServer}]
    /\ node["primary"] = NoServer => node["backup"] = NoServer
    /\ node["primary"] # NoServer => node["primary"] # node["backup"]
    /\ up = Servers /\ changes = 0
    /\ watching = FALSE /\ notified = FALSE
    /\ at = [t \in Threads |-> IF t = "main" THEN <<"list">> ELSE <<"idle">>]
    /\ exists = {} /\ connected = {}
    /\ hostport = [r \in Roles |-> NoServer]
    /\ assoc = [r \in Roles |-> NULL]
    /\ live = {} /\ sockfd = [b \in Blocks |-> 0]
    /\ socket = [f \in FDs |-> NoServer] /\ asked = {}
    /\ calls = <<>> /\ rtree = NULL /\ fd = 0

-----------------------------------------------------------------------------
Goto(t, step) == at' = [at EXCEPT ![t] = step]

\* The process is gone, both threads with it.
End(how) == at' = [t \in Threads |-> <<how>>]
Crash == End("crashed")

Starting == at["main"] \in RefreshSteps

WatcherIdle == at["watcher"] = <<"idle">> /\ ~notified

OwnersUp == \A r \in Roles : node[r] \in up \cup {NoServer}

\* The command is quit.
Leaving == calls # <<>> /\ Last(calls) = "exit"

AtPrompt == at["main"] = <<"prompt">>

\* How far the servers let the client finish.  "any": not at all.  "settled":
\* nothing happens while it starts.  "orderly": besides, a change waits until
\* the watcher has dealt with the one before; a node goes only while no call
\* is on its way into the association, and comes only between commands and
\* when the dead servers' nodes are gone.
MayChange == at["main"] \notin Ended /\ (world # "any" => ~Starting)

MayDie == MayChange /\ (world = "orderly" => WatcherIdle /\ ~Leaving)

\* The call makes no further exchange.
LastExchange == at["main"] = <<"await">> /\ (Len(calls) = 1 \/ socket[fd] \notin up)

MayGo ==
    /\ MayChange
    /\ world = "orderly" => WatcherIdle /\ (AtPrompt \/ LastExchange)

MayCome == MayChange /\ (world = "orderly" => WatcherIdle /\ AtPrompt /\ OwnersUp)

Count == changes < MaxChanges[world] /\ changes' = changes + 1

ChildrenChange == watching' = FALSE /\ notified' = (notified \/ watching)

ServerDies(s) ==
    /\ s \in up /\ MayDie /\ Count
    /\ up' = up \ {s}
    /\ UNCHANGED <<world, node, watch, at, refreshed, memory, sockets, call>>

\* A server registers, or a backup is promoted.
NodeComes(r, s) ==
    /\ node[r] = NoServer /\ s \in up /\ MayCome /\ Count
    /\ node' = [node EXCEPT ![r] = s]
    /\ ChildrenChange
    /\ UNCHANGED <<world, up, at, refreshed, memory, sockets, call>>

\* A session ends, or a promotion.
NodeGoes(r) ==
    /\ node[r] # NoServer /\ MayGo
    /\ IF node[r] \in up THEN Count ELSE UNCHANGED changes
    /\ node' = [node EXCEPT ![r] = NoServer]
    /\ ChildrenChange
    /\ UNCHANGED <<world, up, at, refreshed, memory, sockets, call>>

-----------------------------------------------------------------------------
(* watch_children (t = "main") and child_watcher (t = "watcher").          *)

Finish(t) == Goto(t, IF t = "main" THEN <<"prompt">> ELSE <<"idle">>)

\* The watch fires: pExists and bExists are reset, in watch_children too.
Called ==
    /\ notified /\ at["watcher"] = <<"idle">>
    /\ notified' = FALSE
    /\ exists' = {}
    /\ Goto("watcher", <<"list">>)
    /\ UNCHANGED <<environment, watching, hostport, connected, memory, sockets, call>>

\* The session changes state: the reset is all the watcher does.
SessionEvent ==
    /\ world = "any" /\ watching /\ at["watcher"] = <<"idle">>
    /\ exists' = {}
    /\ UNCHANGED <<environment, watch, at, hostport, connected, memory, sockets, call>>

Registered == {r \in Roles : node[r] # NoServer}

(* Mutant: zoo_get_children, which sets no watch, for zoo_wget_children. *)
SetsWatchOnce(t) == t = "main"

SetsWatch(t) == TRUE

\* zoo_wget_children: the list, and the watch set again.
List(t) ==
    /\ at[t] = <<"list">>
    /\ watching' = (watching \/ SetsWatch(t))
    /\ exists' = exists \cup Registered
    /\ Goto(t, IF exists' = Roles THEN <<"get", "primary">> ELSE <<"drop", "backup">>)
    /\ UNCHANGED <<environment, notified, hostport, connected, memory, sockets, call>>

(* Mutant: the two nodes are taken for each other. *)
AddressSwapped(r) == LET other == CHOOSE q \in Roles : q # r IN node[other]

Address(r) == node[r]

\* zoo_get.  If the node is gone, the buffer keeps what malloc left in it.
Get(t, r) ==
    /\ at[t] = <<"get", r>>
    /\ hostport' = [hostport EXCEPT ![r] = Address(r)]
    /\ Goto(t, IF r = "primary" THEN <<"get", "backup">> ELSE <<"connect", "primary">>)
    /\ UNCHANGED <<environment, watch, exists, connected, memory, sockets, call>>

AfterConnect(r) ==
    IF r = "primary" THEN <<"connect", "backup">> ELSE <<"drop", "backup">>

(* Mutant: the flag is not looked at before connecting. *)
AnyRole == Roles

NotConnected == Roles \ connected

AlreadyConnected(t, r) ==
    /\ at[t] = <<"connect", r>> /\ r \notin NotConnected
    /\ Goto(t, AfterConnect(r))
    /\ UNCHANGED <<environment, watch, refreshed, memory, sockets, call>>

FreeFDs == {f \in FDs : socket[f] = NoServer}

\* The lowest descriptor that is free, as socket() returns it.
NextFD == CHOOSE f \in FreeFDs : \A g \in FreeFDs : f <= g

\* What malloc may return: blocks freed, or the next of those never used.
Unallocated == {b \in Blocks \ live : sockfd[b] # 0 \/ \A c \in 1..b - 1 : sockfd[c] # 0}

\* rtree_connect: malloc, socket and network_connect.
Connect(t, r) ==
    /\ at[t] = <<"connect", r>> /\ r \in NotConnected
    /\ hostport[r] \in up
    /\ FreeFDs # {}
    /\ \E b \in Unallocated :
          /\ live' = live \cup {b}
          /\ sockfd' = [sockfd EXCEPT ![b] = NextFD]
          /\ assoc' = [assoc EXCEPT ![r] = b]
    /\ socket' = [socket EXCEPT ![NextFD] = hostport[r]]
    /\ Goto(t, <<"flag", r>>)
    /\ UNCHANGED <<environment, watch, refreshed, asked, call>>

\* connect fails: network_connect disconnects, frees and closes, and NULL is
\* returned.  An address that is junk may have no port at all: atoi(NULL).
ConnectFails(t, r) ==
    /\ at[t] = <<"connect", r>> /\ r \in NotConnected
    /\ hostport[r] \notin up
    /\ \/ /\ assoc' = [assoc EXCEPT ![r] = NULL]
          /\ Goto(t, <<"flag", r>>)
       \/ hostport[r] = NoServer /\ Crash /\ UNCHANGED assoc
    /\ UNCHANGED <<environment, watch, refreshed, live, sockfd, sockets, call>>

\* primary_connected = 1, whatever rtree_connect returned.
Flag(t, r) ==
    /\ at[t] = <<"flag", r>>
    /\ connected' = connected \cup {r}
    /\ Goto(t, AfterConnect(r))
    /\ UNCHANGED <<environment, watch, exists, hostport, memory, sockets, call>>

AfterDrop(t, r) == IF r = "backup" THEN Goto(t, <<"drop", "primary">>) ELSE Finish(t)

Lost == connected \ exists

KeepAssociation(t, r) ==
    /\ at[t] = <<"drop", r>> /\ r \notin Lost
    /\ AfterDrop(t, r)
    /\ UNCHANGED <<environment, watch, refreshed, memory, sockets, call>>

Close(f) ==
    /\ socket' = [g \in FDs |-> IF g = f THEN NoServer ELSE socket[g]]
    /\ asked' = asked \ {f}

(* Mutant: the memory is freed, the descriptor stays open. *)
DisconnectOnlyFrees(b, goOn) ==
    IF b \in live
    THEN live' = live \ {b} /\ goOn /\ UNCHANGED sockets
    ELSE Crash /\ UNCHANGED <<live, sockets>>

\* rtree_disconnect: close the descriptor, free the block.  NULL is followed,
\* and a block that is free already is freed again: neither is survived.
Disconnect(b, goOn) ==
    IF b \in live
    THEN /\ Close(sockfd[b])
         /\ live' = live \ {b}
         /\ goOn
    ELSE Crash /\ UNCHANGED <<live, sockets>>

Drop(t, r) ==
    /\ at[t] = <<"drop", r>> /\ r \in Lost
    /\ Disconnect(assoc[r], Goto(t, <<"unflag", r>>))
    /\ UNCHANGED <<environment, watch, refreshed, assoc, sockfd, call>>

(* Mutant: primary_connected = 0 is forgotten. *)
StillFlagged(r) == connected

Unflagged(r) == connected \ {r}

Unflag(t, r) ==
    /\ at[t] = <<"unflag", r>>
    /\ connected' = Unflagged(r)
    /\ AfterDrop(t, r)
    /\ UNCHANGED <<environment, watch, exists, hostport, memory, sockets, call>>

Refresh(t) ==
    \/ List(t)
    \/ \E r \in Roles :
          \/ Get(t, r)
          \/ AlreadyConnected(t, r) \/ Connect(t, r) \/ ConnectFails(t, r) \/ Flag(t, r)
          \/ KeepAssociation(t, r) \/ Drop(t, r) \/ Unflag(t, r)

Watcher == Called \/ Refresh("watcher")

-----------------------------------------------------------------------------
(* The command line: which exchanges each call of the stub makes, each with *)
(* the association it is passed ("same": the one passed to the call).      *)

rtree_put(r) == <<r>>
rtree_del(r) == <<r>>
rtree_get(r) == <<r>>
rtree_size(r) == <<r>>
rtree_height(r) == <<r>>
rtree_get_keys(r) == <<r>> \o rtree_size("same")
rtree_verify(r) == <<r>>
rtree_quit(r) == <<r>>

\* What main does with each line it understands.
Commands ==
    {rtree_put("primary"), rtree_del("primary"), rtree_get("backup"),
     rtree_size("backup"), rtree_height("backup"), rtree_get_keys("backup"),
     rtree_verify("backup"),
     rtree_quit("primary") \o rtree_quit("backup") \o <<"exit">>}

(* Mutant: "||" for "&&". *)
EitherConnected == connected # {}

podesEscrever == connected = Roles

\* In the orderly world the user waits for the watcher too, and quits only
\* while the servers are there.
MayType(c) ==
    world = "orderly" => WatcherIdle /\ (Last(c) = "exit" => OwnersUp)

Command ==
    /\ AtPrompt /\ podesEscrever
    /\ \E c \in Commands : MayType(c) /\ calls' = c
    /\ Goto("main", <<"next">>)
    /\ UNCHANGED <<environment, watch, refreshed, memory, sockets, rtree, fd>>

\* "put k" with no data, and "verify" with no number: the NULL that entry or
\* number is then is followed (client_stub.c:246, atoi).
Mistyped ==
    /\ AtPrompt /\ podesEscrever /\ world = "any"
    /\ Crash
    /\ UNCHANGED <<environment, watch, refreshed, memory, sockets, call>>

\* The argument of the next exchange is evaluated.
Evaluate ==
    /\ at["main"] = <<"next">> /\ Head(calls) # "exit"
    /\ rtree' = IF Head(calls) = "same" THEN rtree ELSE assoc[Head(calls)]
    /\ Goto("main", <<"use">>)
    /\ UNCHANGED <<environment, watch, refreshed, memory, sockets, calls, fd>>

\* network_send_receive reads rtree->sockfd, once: NULL is followed; a block
\* that was freed has kept it, or not.
UseAssociation ==
    /\ at["main"] = <<"use">>
    /\ IF rtree = NULL THEN Crash /\ UNCHANGED fd
       ELSE /\ fd' = sockfd[rtree] \/ (rtree \notin live /\ fd' = 0)
            /\ Goto("main", <<"write">>)
    /\ UNCHANGED <<environment, watch, refreshed, memory, sockets, calls, rtree>>

IsOpen(f) == f # 0 /\ socket[f] # NoServer

\* write_all: a peer that is gone may let the request through all the same.
Write ==
    /\ at["main"] = <<"write">> /\ IsOpen(fd)
    /\ asked' = asked \cup {fd}
    /\ Goto("main", <<"await">>)
    /\ UNCHANGED <<environment, watch, refreshed, memory, socket, call>>

\* The exchange is over: the next one, or the prompt.
Return(rest) ==
    /\ calls' = rest
    /\ fd' = 0
    /\ IF rest = <<>>
       THEN rtree' = NULL /\ Goto("main", <<"prompt">>)
       ELSE rtree' = rtree /\ Goto("main", <<"next">>)

Answered ==
    /\ at["main"] = <<"await">> /\ fd \in asked /\ socket[fd] \in up
    /\ asked' = asked \ {fd}
    /\ Return(Tail(calls))
    /\ UNCHANGED <<environment, watch, refreshed, memory, socket>>

\* An error of write_all or read_all: close(sockfd), and the association
\* keeps the number.  Of all calls only rtree_quit is followed by another.
Fail ==
    /\ Close(fd)
    /\ Return(IF Leaving THEN Tail(calls) ELSE <<>>)
    /\ UNCHANGED <<environment, watch, refreshed, memory>>

\* A read that spins on the closed connection meets the closed number; one
\* that waits in the kernel does once the peer has answered or died.
FailClosed == at["main"] \in {<<"write">>, <<"await">>} /\ ~IsOpen(fd) /\ Fail

\* The peer reset the connection.  If it closed it, read_all never ends.
FailReset ==
    /\ at["main"] \in {<<"write">>, <<"await">>}
    /\ IsOpen(fd) /\ socket[fd] \notin up
    /\ Fail

BeginExit ==
    /\ at["main"] = <<"next">> /\ Head(calls) = "exit"
    /\ Goto("main", <<"exit", "primary">>)
    /\ UNCHANGED <<environment, watch, refreshed, memory, sockets, call>>

Exit(r) ==
    /\ at["main"] = <<"exit", r>>
    /\ Disconnect(assoc[r],
            IF r = "primary" THEN Goto("main", <<"exit", "backup">>) ELSE End("ended"))
    /\ UNCHANGED <<environment, watch, refreshed, assoc, sockfd, call>>

Exchange ==
    \/ Evaluate \/ UseAssociation \/ Write \/ FailClosed
    \/ BeginExit \/ \E r \in Roles : Exit(r)

Next ==
    \/ \E s \in Servers : ServerDies(s) \/ \E r \in Roles : NodeComes(r, s)
    \/ \E r \in Roles : NodeGoes(r)
    \/ Watcher \/ SessionEvent
    \/ Refresh("main") \/ Command \/ Mistyped \/ Exchange \/ Answered \/ FailReset

Spec == Init /\ [][Next]_vars

\* Both threads run, and ZooKeeper ends the sessions of the dead.  No server
\* has to answer: its main thread may be in read_all for ever (message.c:37).
\* Nobody types, resets or changes anything else.
Fairness ==
    /\ WF_vars(Watcher)
    /\ WF_vars(Refresh("main"))
    /\ WF_vars(Exchange)
    /\ \A r \in Roles : WF_vars(node[r] \notin up /\ NodeGoes(r))

FairSpec == Spec /\ Fairness

-----------------------------------------------------------------------------
\* The client never stops hearing of changes: once watch_children has listed
\* the children its one-shot watch is set, or fired and not answered yet, or
\* the callback that sets it again (client_stub.c:64) is about to.
WatchNeverLost ==
    at["main"] # <<"list">> => watching \/ notified \/ at["watcher"] \in {<<"list">>} \cup Ended

WatcherAtRest == ~Starting /\ WatcherIdle

\* When the watcher has nothing to do, commands are let through exactly while
\* both servers are registered (client_stub.c:75-100, tree-client.c:42).
GateMeansBothRegistered ==
    world # "any" /\ WatcherAtRest => (podesEscrever <=> Registered = Roles)

\* A flag that is set goes with an association in memory or one that could
\* not be made, one that is not set with none: nothing is freed twice, used
\* after it was freed or lost, until the command line ends.
FlagsMatchMemory ==
    world # "any" /\ WatcherAtRest /\ ~Leaving =>
        live = {assoc[r] : r \in connected} \ {NULL}

\* Every open descriptor is that of an association rtree_primary or
\* rtree_backup leads to: none is left that nobody will close, however the
\* watcher, the calls and the quit meet (client_stub.c:80-99, 164).
SocketsOwned ==
    world # "any" =>
        \A f \in FDs : socket[f] # NoServer =>
            \E r \in Roles : assoc[r] \in live /\ sockfd[assoc[r]] = f

\* A command is let through only with associations that are in memory or could
\* not be made, unless the watcher is between freeing one and clearing its flag
\* (tree-client.c:40-42, client_stub.c:91-93, 97-99).
GateMeansMemory ==
    [][world # "any" /\ AtPrompt /\ at'["main"] = <<"next">>
       => \A r \in Roles :
             assoc[r] \in live \cup {NULL} \/ at["watcher"] = <<"unflag", r>>]_vars

\* The client dies of an association that could not be made, of an address
\* that was gone, or while it quits: in nothing else do the watcher's frees and
\* the calls meet fatally (client_stub.c:82, 91, 142, network-client.c:47).
DiesOfNullOrQuit ==
    [][world # "any" /\ at["main"] \notin Ended /\ at'["main"] = <<"crashed">>
       => \/ Leaving
          \/ \E r \in connected : assoc[r] = NULL
          \/ \E r \in Roles : at["watcher"] = <<"flag", r>> /\ assoc[r] = NULL
          \/ \E t \in Threads, r \in Roles :
                at[t] = <<"connect", r>> /\ hostport[r] = NoServer]_vars

Orderly == world = "orderly"

\* The role of the server the exchange is made with.
Target == IF Head(calls) = "same" THEN "backup" ELSE Head(calls)

\* A request goes to the server that has the role.
CallReachesRole ==
    [][Orderly /\ at["main"] = <<"write">> /\ at'["main"] = <<"await">>
       => socket[fd] = node[Target]]_vars

\* A call to a server that died returns, by the watcher closing the connection
\* under read_all, unless another server has got the role before the watcher
\* looked (message.c:37, client_stub.c:91, 97).
CallsReturn ==
    world # "any" /\ at["main"] = <<"await">> /\ socket[fd] \in Servers \ up
        ~> at["main"] # <<"await">> \/ node[Target] \in up

=============================================================================
