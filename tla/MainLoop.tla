------------------------------ MODULE MainLoop ------------------------------
(***************************************************************************)
(* network_main_loop: poll, accept, network_receive, invoke and            *)
(* network_send of a server's main thread, over its table of connections   *)
(* and the process's descriptors, which the connection to the backup       *)
(* shares (rtreeglobal->sockfd, moved by child_watcher, written to by      *)
(* process_task).  A number that was closed is given out again.            *)
(*                                                                         *)
(* A frame crosses in one step.  What invoke does is TreeSkel's; it always *)
(* leaves a reply.  A client connects once and has one request at a time.  *)
(***************************************************************************)
EXTENDS Naturals, FiniteSets

CONSTANTS
    Clients,
    NoClient, Backup,   \* at the other end: nobody, the backup
    NFDESC,             \* size of connections
    MaxLinks,           \* bound on the connections made to the backup
    Worlds,             \* what the peers and the user do
    MaxClients          \* for each world, a bound on the clients that connect

ASSUME MainLoopAssumption ==
    /\ NoClient \notin Clients /\ Backup \notin Clients \cup {NoClient}
    /\ NFDESC \in Nat \ {0} /\ MaxLinks \in Nat
    /\ Worlds \subseteq {"any", "closes", "polite"}
    /\ MaxClients \in [Worlds -> Nat]

VARIABLES
    world,      \* "polite": clients leave by quit; "closes": or just close;
                \* "any": besides, connections break, frames come torn (a
                \* server's: network_server.c:101, 121), and SIGINT comes
    size_client,\* whether accept can use what this local, never set, holds
    client,     \* how far each client is
    request,    \* what it sent and the server has not read
    backlog,    \* the client the listening socket holds
    peer,       \* who is at the other end of each descriptor
    link,       \* rtreeglobal->sockfd; 0 is none of these descriptors
    links,      \* how often it was set
    connections,\* the fd of each slot; 0 stands for -1
    nfds,
    revents,    \* slots poll reported, not looked at yet
    pc,         \* where the main thread is
    slot,       \* the i it is serving, or 0
    msg,        \* the message it is serving
    owner,      \* history: whom each slot was filled for
    dropped,    \* history: clients whose slot a torn frame freed
    stale,      \* history: a slot or sockfd kept a number that was closed
    stray       \* history: some client was sent a forwarded write

peers == <<client, request, backlog>>
table == <<connections, nfds, owner>>
thread == <<revents, pc, slot, msg>>
history == <<stale, dropped>>
forwarding == <<link, links, stray>>
fixed == <<world, size_client>>
vars == <<fixed, peers, peer, history, forwarding, table, thread>>

-----------------------------------------------------------------------------
Slots == 1..NFDESC - 1          \* slot 0 is the listening socket
FDs == 1..NFDESC + MaxLinks
Closed == {"closed", "reset"}
Messages == {"call", "quit", "torn"}

TypeOK ==
    /\ world \in Worlds
    /\ size_client \in BOOLEAN
    /\ client \in [Clients -> {"out", "idle", "waiting", "answered", "done"} \cup Closed]
    /\ request \in [Clients -> {"none"} \cup Messages]
    /\ \A c \in Clients : request[c] # "none" => client[c] \in {"waiting", "closed"}
    /\ backlog \in Clients \cup {NoClient}
    /\ peer \in [FDs -> Clients \cup {NoClient, Backup}]
    /\ link \in FDs \cup {0} /\ links \in 0..MaxLinks
    /\ connections \in [Slots -> FDs \cup {0}]
    /\ nfds \in 1..NFDESC
    /\ \A s \in Slots : s >= nfds => connections[s] = 0
    /\ revents \subseteq 0..nfds - 1
    /\ pc \in {"poll", "accept", "scan", "receive", "send", "stuck", "crashed", "ended"}
    /\ slot \in 0..nfds - 1
    /\ pc \in {"receive", "send"} <=> slot > 0
    /\ msg \in {"none", "call", "quit"}
    /\ dropped \subseteq Clients
    /\ owner \in [Slots -> Clients \cup {NoClient}]
    /\ stale \in BOOLEAN /\ stray \in BOOLEAN

\* connect_zookeeper leaves sockfd what malloc found there (tree_skel.c:103).
Init ==
    /\ world \in Worlds
    /\ size_client \in BOOLEAN
    /\ client = [c \in Clients |-> "out"]
    /\ request = [c \in Clients |-> "none"] /\ backlog = NoClient
    /\ peer = [f \in FDs |-> NoClient]
    /\ link \in FDs \cup {0} /\ links = 0
    /\ connections = [s \in Slots |-> 0] /\ nfds = 1 /\ revents = {}
    /\ pc = "poll" /\ slot = 0 /\ msg = "none"
    /\ owner = [s \in Slots |-> NoClient]
    /\ stale = FALSE /\ stray = FALSE /\ dropped = {}

-----------------------------------------------------------------------------
(* The clients.                                                            *)

Becomes(c, state) == client' = [client EXCEPT ![c] = state]

\* listen(sockfd, 0) lets one connection wait.
Connect(c) ==
    /\ client[c] = "out" /\ backlog = NoClient
    /\ Cardinality({d \in Clients : client[d] # "out"}) < MaxClients[world]
    /\ Becomes(c, "idle") /\ backlog' = c
    /\ UNCHANGED <<fixed, request, peer, history, forwarding, table, thread>>

Ask(c) ==
    /\ client[c] = "idle"
    /\ Becomes(c, "waiting")
    /\ \E m \in Messages :
          /\ m = "torn" => world = "any"
          /\ request' = [request EXCEPT ![c] = m]
    /\ UNCHANGED <<fixed, backlog, peer, history, forwarding, table, thread>>

Takes(c) ==
    /\ client[c] = "answered"
    /\ Becomes(c, "idle")
    /\ UNCHANGED <<fixed, request, backlog, peer, history, forwarding, table, thread>>

\* Its watcher's network_close, or its death.  With an answer unread the
\* connection is reset.
Leaves(c) ==
    /\ world # "polite"
    /\ \/ client[c] \in {"idle", "waiting"} /\ Becomes(c, "closed")
       \/ client[c] = "answered" /\ world = "any" /\ Becomes(c, "reset")
    /\ UNCHANGED <<fixed, request, backlog, peer, history, forwarding, table, thread>>

-----------------------------------------------------------------------------
(* The other threads.                                                      *)

Lowest(S) == CHOOSE n \in S : \A m \in S : n <= m

FreeFDs == {f \in FDs : peer[f] = NoClient}

NextFD == Lowest(FreeFDs)

Close(f) == peer' = [g \in FDs |-> IF g = f THEN NoClient ELSE peer[g]]

(* Mutant: the old connection is closed after the new one is stored. *)
LinkUpThenClose ==
    /\ links < MaxLinks /\ links' = links + 1 /\ FreeFDs # {}
    /\ link' = NextFD
    /\ UNCHANGED <<fixed, peers, peer, history, stray, table, thread>>

\* rtreeglobal = rtree_connect(buffer).
LinkUp ==
    /\ links < MaxLinks /\ links' = links + 1 /\ FreeFDs # {}
    /\ link' = NextFD
    /\ peer' = [peer EXCEPT ![NextFD] = Backup]
    /\ UNCHANGED <<fixed, peers, history, stray, table, thread>>

\* Closes whatever the number names, if anything; who has it keeps it.
CloseLink ==
    /\ world = "any" /\ peer[link] # NoClient
    /\ Close(link) /\ stale' = TRUE
    /\ UNCHANGED stray

\* network_close(rtreeglobal): the number is kept, and closed again at the
\* next change of the children without a backup.
LinkDown ==
    /\ link # 0
    /\ CloseLink
    /\ UNCHANGED <<fixed, peers, dropped, link, links, table, thread>>

\* process_task's network_send to whoever has the number by now; if it
\* fails, that connection is closed.
Forward ==
    /\ link # 0
    /\ \/ /\ peer[link] \in Clients /\ client[peer[link]] \notin Closed
          /\ stray' = TRUE /\ UNCHANGED <<peer, stale>>
       \/ /\ ~(peer[link] \in Clients /\ client[peer[link]] \notin Closed)
          /\ CloseLink
    /\ UNCHANGED <<fixed, peers, dropped, link, links, table, thread>>

\* SIGINT fails poll, and tree-server closes.  Anywhere else it restarts the
\* call, and not_closed is only read after poll has failed.
Interrupt ==
    /\ world = "any" /\ pc = "poll"
    /\ pc' = "ended"
    /\ UNCHANGED <<fixed, peers, peer, history, forwarding, table, revents, slot, msg>>

-----------------------------------------------------------------------------
(* poll and accept.                                                        *)

Goto(label) == pc' = label

\* Something to read, or the end of the stream, or an error.
Readable(f) ==
    /\ peer[f] \in Clients
    /\ request[peer[f]] # "none" \/ client[peer[f]] \in Closed

Used == {s \in 1..nfds - 1 : connections[s] # 0}

(* Mutant: events, set once for all, for revents. *)
PolledByEvents == Used

Polled == {s \in Used : Readable(connections[s])}

\* The backup's answers come at any time.
OnLink == {s \in Used : peer[connections[s]] = Backup}

Listening == IF backlog = NoClient THEN {} ELSE {0}

\* A closed number among the slots makes poll return at once (POLLNVAL).
Poll ==
    /\ pc = "poll"
    /\ \E answers \in SUBSET OnLink : revents' = Listening \cup Polled \cup answers
    /\ revents' # {}
    /\ Goto("accept")
    /\ UNCHANGED <<fixed, peers, peer, history, forwarding, table, slot, msg>>

(* Mutant: nfds is not compared with NFDESC. *)
AcceptsAlways == pc = "accept" /\ 0 \in revents

Accepts == pc = "accept" /\ 0 \in revents /\ nfds < NFDESC

\* The new slot is looked at in this pass already, by what its revents,
\* which poll has not set yet, happens to be.
FirstPass == {revents \ {0}, (revents \ {0}) \cup {nfds}}

Accept ==
    /\ Accepts /\ size_client /\ FreeFDs # {}
    /\ connections' = [connections EXCEPT ![nfds] = NextFD]
    /\ owner' = [owner EXCEPT ![nfds] = backlog]
    /\ peer' = [peer EXCEPT ![NextFD] = backlog]
    /\ backlog' = NoClient
    /\ nfds' = nfds + 1
    /\ revents' \in FirstPass
    /\ Goto("scan")
    /\ UNCHANGED <<fixed, client, request, history, forwarding, slot, msg>>

\* A negative size_client: EINVAL, the connection is dropped and the size
\* stays what it is.
AcceptFails ==
    /\ Accepts /\ ~size_client
    /\ Becomes(backlog, "done")
    /\ request' = [request EXCEPT ![backlog] = "none"]
    /\ backlog' = NoClient
    /\ revents' = revents \ {0}
    /\ Goto("scan")
    /\ UNCHANGED <<fixed, peer, history, forwarding, table, slot, msg>>

NoAccept ==
    /\ pc = "accept" /\ ~Accepts
    /\ revents' = revents \ {0}
    /\ Goto("scan")
    /\ UNCHANGED <<fixed, peers, peer, history, forwarding, table, slot, msg>>

\* The for loop: the next slot reported readable.
Scan ==
    /\ pc = "scan"
    /\ IF revents = {} THEN slot' = 0 /\ Goto("poll")
       ELSE slot' = Lowest(revents) /\ Goto("receive")
    /\ revents' = revents \ {slot'}
    /\ UNCHANGED <<fixed, peers, peer, history, forwarding, table, msg>>

-----------------------------------------------------------------------------
(* network_receive.  It waits while there is nothing to read.              *)

Current == connections[slot]

Receives(m) ==
    /\ msg' = m
    /\ Goto("send")
    /\ UNCHANGED <<revents, slot, table>>

ReadRequest ==
    /\ pc = "receive" /\ peer[Current] \in Clients
    /\ request[peer[Current]] \in {"call", "quit"}
    /\ Receives(request[peer[Current]])
    /\ request' = [request EXCEPT ![peer[Current]] = "none"]
    /\ UNCHANGED <<fixed, client, backlog, peer, history, forwarding>>

\* NULL: the slot is freed and the pass ends.
FreesSlot ==
    /\ connections' = [connections EXCEPT ![slot] = 0]
    /\ revents' = {} /\ Goto("poll") /\ slot' = 0
    /\ UNCHANGED <<nfds, owner, msg>>

\* A frame that does not unpack: alone of the errors it leaves the connection
\* open.
ReadTorn ==
    /\ pc = "receive" /\ peer[Current] \in Clients
    /\ request[peer[Current]] = "torn"
    /\ request' = [request EXCEPT ![peer[Current]] = "none"]
    /\ dropped' = dropped \cup {peer[Current]}
    /\ FreesSlot
    /\ UNCHANGED <<fixed, client, backlog, peer, stale, forwarding>>

\* An answer of the backup is taken for a request.
ReadAnswer ==
    /\ pc = "receive" /\ peer[Current] = Backup
    /\ Receives("call")
    /\ UNCHANGED <<fixed, peers, peer, history, forwarding>>

Drained == peer[Current] \in Clients /\ request[peer[Current]] = "none"

Stops(how) ==
    /\ Goto(how) /\ slot' = 0 /\ revents' = {}
    /\ UNCHANGED <<fixed, peers, peer, history, forwarding, table, msg>>

\* read returns 0 for ever: read_all's loop never ends.
ReadEnd ==
    /\ pc = "receive" /\ Drained /\ client[peer[Current]] = "closed"
    /\ Stops("stuck")

\* read fails, but -1 < sizeof(int) is false in C: the length is whatever
\* tamanho held.  Positive, the next read fails too (the number is closed:
\* NULL) or finds the end of the stream;
\* zero, it is an empty message, an OP_BAD; negative, it is no length.
ReadError ==
    /\ pc = "receive"
    /\ peer[Current] = NoClient \/ (Drained /\ client[peer[Current]] = "reset")
    /\ \/ peer[Current] = NoClient /\ FreesSlot
          /\ UNCHANGED <<fixed, peers, peer, history, forwarding>>
       \/ peer[Current] # NoClient /\ Stops("stuck")
       \/ Receives("quit") /\ UNCHANGED <<fixed, peers, peer, history, forwarding>>
       \/ Stops("crashed")

-----------------------------------------------------------------------------
(* network_send, and the test for OP_BAD.                                  *)

Alive == peer[Current] = Backup \/ (peer[Current] \in Clients /\ client[peer[Current]] \notin Closed)

Gone == peer[Current] \in Clients /\ client[peer[Current]] = "closed"

(* Mutant: the connection of an OP_BAD is closed, its slot kept. *)
AfterReplyKeepsSlot ==
    /\ IF msg = "quit" THEN Close(Current) ELSE UNCHANGED peer
    /\ UNCHANGED connections

(* Mutant: the slot of an OP_BAD is freed, its connection left open. *)
AfterReplyKeepsOpen ==
    /\ connections' = IF msg = "quit" THEN [connections EXCEPT ![slot] = 0] ELSE connections
    /\ UNCHANGED peer

\* OP_BAD: close the connection and free its slot.
AfterReply ==
    IF msg = "quit"
    THEN /\ Close(Current)
         /\ connections' = [connections EXCEPT ![slot] = 0]
    ELSE UNCHANGED <<peer, connections>>

BackToScan ==
    /\ Goto("scan") /\ msg' = "none" /\ slot' = 0
    /\ UNCHANGED <<fixed, request, backlog, forwarding, nfds, owner, revents>>

(* Mutant: an OP_BAD is not answered. *)
ReplyNotToQuit ==
    /\ pc = "send" /\ Alive
    /\ IF peer[Current] \in Clients /\ msg # "quit"
       THEN Becomes(peer[Current], "answered")
       ELSE UNCHANGED client
    /\ AfterReply
    /\ BackToScan
    /\ UNCHANGED history

Reply ==
    /\ pc = "send" /\ Alive
    /\ IF peer[Current] \in Clients
       THEN Becomes(peer[Current], IF msg = "quit" THEN "done" ELSE "answered")
       ELSE UNCHANGED client
    /\ AfterReply
    /\ BackToScan
    /\ UNCHANGED history

\* The first write to a peer that closed may pass unnoticed.
ReplyUnnoticed ==
    /\ pc = "send" /\ Gone
    /\ AfterReply
    /\ BackToScan
    /\ UNCHANGED <<history, client>>

\* network_send closes the descriptor; "continue" leaves it in the table.
SendFails ==
    /\ pc = "send" /\ ~Alive
    /\ Close(Current)
    /\ stale' = TRUE
    /\ BackToScan
    /\ UNCHANGED <<client, connections, dropped>>

Serve ==
    \/ Poll \/ Accept \/ AcceptFails \/ NoAccept \/ Scan
    \/ ReadRequest \/ ReadTorn \/ ReadAnswer \/ ReadEnd \/ ReadError
    \/ Reply \/ ReplyUnnoticed \/ SendFails

Running == pc \notin {"crashed", "ended"}

Next ==
    /\ Running
    /\ \/ \E c \in Clients : Connect(c) \/ Ask(c) \/ Takes(c) \/ Leaves(c)
       \/ LinkUp \/ LinkDown \/ Forward \/ Interrupt
       \/ Serve

Spec == Init /\ [][Next]_vars

\* The main thread runs.  Nobody has to connect, ask, or interrupt.
FairSpec == Spec /\ WF_vars(Serve)

-----------------------------------------------------------------------------
\* No connection is open that the loop does not poll (network_server.c:161,
\* 191), but where a frame did not unpack (network_server.c:82-86, 172).
NoClientForgotten ==
    \A f \in FDs : peer[f] \in Clients \ dropped => \E s \in Used : connections[s] = f

\* A slot polls the client it was filled for, until a number that was closed
\* is kept somewhere (tree_skel.c:92, network_server.c:184).
SlotsKeepTheirClient == ~stale => \A s \in Used : peer[connections[s]] = owner[s]

\* The loop does not wait in read for a client that poll said nothing about,
\* but for the newest, whose revents may never have been set.
PollWasRight == pc = "receive" /\ ~stale /\ slot < nfds - 1 => Readable(Current)

\* A client is sent a forwarded write only while sockfd was never set, or
\* when a number that was closed is kept (tree_skel.c:92, 103, 138).
StrayByBadNumber == [][stray' # stray => stale \/ links = 0]_vars

HasSlot(c) == \E s \in Used : peer[connections[s]] = c

\* The loop reads from a client that has sent nothing and holds its end.
AwaitsSilent == pc = "receive" /\ peer[Current] \in Clients /\ client[peer[Current]] = "idle"

Answered(w) ==
    \A c \in Clients :
        world = w /\ client[c] = "waiting" /\ HasSlot(c)
            ~> client[c] # "waiting" \/ AwaitsSilent

\* Among clients that leave by quit every accepted client is answered, unless
\* the loop reads from a new one that stays silent (network_server.c:165).
PoliteAreAnswered == Answered("polite")

\* network_server.h:18, "Enviar a resposta ao cliente usando a função
\* network_send": every request is answered, whoever else closes.
ClosingIsSurvived == Answered("closes")

=============================================================================
