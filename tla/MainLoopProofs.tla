--------------------------- MODULE MainLoopProofs ----------------------------
(***************************************************************************)
(* MainLoop proved for any set of clients, table size and bounds: its      *)
(* types, the three invariants that relate the table of connections to     *)
(* what is really open, and when a client is sent a forwarded write.       *)
(***************************************************************************)
EXTENDS MainLoop, TLAPS, WellFoundedInduction

LEMMA LowestIn ==
  ASSUME NEW S \in SUBSET Nat, S # {}
  PROVE  Lowest(S) \in S
<1> DEFINE Less == {p \in Nat \X Nat : p[1] < p[2]}
<1>1. IsWellFoundedOn(Less, Nat)
  BY NatLessThanWellFounded, Zenon DEF OpToRel
<1>2. PICK n \in S : \A m \in S : ~(<<m, n>> \in Less)
  BY <1>1, WFMin
<1>3. ASSUME NEW m \in S PROVE n <= m
  <2>1. m \in Nat /\ n \in Nat
    OBVIOUS
  <2>2. ~(<<m, n>> \in Less)
    BY <1>2
  <2>3. ~(m < n)
    BY <2>1, <2>2
  <2> QED
    BY <2>1, <2>3
<1> QED
  BY <1>3 DEF Lowest

LEMMA NextFDFree == FreeFDs # {} => NextFD \in FDs /\ peer[NextFD] = NoClient
<1>1. FreeFDs \in SUBSET Nat
  BY MainLoopAssumption DEF FreeFDs, FDs
<1> QED
  BY <1>1, LowestIn DEF NextFD, FreeFDs

-----------------------------------------------------------------------------
(* The inductive invariant.                                                *)

\* What is left of a pass over the table names used slots only.
Pass ==
    /\ pc = "poll" => revents = {}
    /\ 0 \in revents => pc = "accept" /\ backlog \in Clients
    /\ \A s \in revents \ {0} : connections[s] # 0
    /\ slot > 0 => connections[slot] # 0 /\ slot \notin revents

\* The client being answered has nothing else on the way.
Serving ==
    pc = "send" /\ peer[Current] \in Clients =>
        /\ request[peer[Current]] = "none"
        /\ client[peer[Current]] \in {"waiting"} \cup Closed

\* A client is at one place at most.
OnePlace ==
    /\ \A f, g \in FDs : peer[f] \in Clients /\ peer[f] = peer[g] => f = g
    /\ \A f \in FDs : peer[f] \in Clients => peer[f] # backlog /\ client[peer[f]] # "out"
    /\ backlog \in Clients => client[backlog] # "out"

\* While no closed number was kept, slots and link name what they were made for.
Sound ==
    ~stale =>
        /\ \A s \in Used : peer[connections[s]] = owner[s] /\ owner[s] \in Clients
        /\ \A s, t \in Used : connections[s] = connections[t] => s = t
        /\ links > 0 /\ link # 0 => peer[link] = Backup

\* What poll reported stays true until it is looked at.
Announced ==
    ~stale =>
        /\ \A s \in revents \ {0} :
              Readable(connections[s]) \/ (s = nfds - 1 /\ pc # "accept")
        /\ pc = "receive" => Readable(Current) \/ slot = nfds - 1

IInv ==
    /\ TypeOK /\ Pass /\ Serving /\ OnePlace /\ NoClientForgotten
    /\ Sound /\ Announced

USE DEF peers, table, thread, forwarding, fixed, history, Goto, Becomes

LEMMA CurrentOpen ==
  ASSUME TypeOK, Pass, slot > 0
  PROVE  /\ slot \in Slots /\ slot \in Used
         /\ Current \in FDs
         /\ peer[Current] \in Clients \cup {NoClient, Backup}
  BY MainLoopAssumption DEF TypeOK, Pass, Current, Used, Slots, FDs

-----------------------------------------------------------------------------
(* Every step keeps it, one lemma per action.                              *)

LEMMA InitIInv == Init => IInv
<1> USE MainLoopAssumption
<1>1. ASSUME Init PROVE TypeOK
  <2>1. client \in [Clients -> {"out", "idle", "waiting", "answered", "done"} \cup Closed]
    BY <1>1 DEF Init
  <2>2. /\ request \in [Clients -> {"none"} \cup Messages]
        /\ \A c \in Clients : request[c] = "none"
    BY <1>1 DEF Init
  <2>3. /\ peer \in [FDs -> Clients \cup {NoClient, Backup}]
        /\ connections \in [Slots -> FDs \cup {0}] /\ \A s \in Slots : connections[s] = 0
        /\ owner \in [Slots -> Clients \cup {NoClient}]
    BY <1>1 DEF Init
  <2>4. nfds \in 1..NFDESC /\ links \in 0..MaxLinks
    BY <1>1 DEF Init
  <2>5. /\ revents \subseteq 0..nfds - 1 /\ slot \in 0..nfds - 1
        /\ pc \in {"receive", "send"} <=> slot > 0
        /\ pc \in {"poll", "accept", "scan", "receive", "send", "stuck", "crashed", "ended"}
        /\ msg \in {"none", "call", "quit"}
    BY <1>1 DEF Init
  <2>6. /\ world \in Worlds /\ size_client \in BOOLEAN
        /\ stale \in BOOLEAN /\ stray \in BOOLEAN /\ dropped \subseteq Clients
        /\ backlog \in Clients \cup {NoClient} /\ link \in FDs \cup {0}
    BY <1>1, Zenon DEF Init
  <2> QED
    BY <2>1, <2>2, <2>3, <2>4, <2>5, <2>6, Zenon DEF TypeOK
<1>2. Init => Pass /\ Serving /\ OnePlace
  BY DEF Init, Pass, Serving, OnePlace
<1>3. Init => NoClientForgotten /\ Sound /\ Announced
  BY DEF Init, NoClientForgotten, Sound, Used, Announced
<1> QED
  BY <1>1, <1>2, <1>3 DEF IInv

LEMMA ConnectKeeps ==
  ASSUME IInv, NEW c \in Clients, Connect(c)
  PROVE  IInv'
<1> USE MainLoopAssumption DEF IInv, Connect
<1>1. TypeOK'
  BY SMTT(20) DEF TypeOK, Slots, FDs, Closed
<1>2. Pass' /\ Serving' /\ OnePlace'
  BY SMTT(20) DEF Pass, TypeOK, Slots, FDs, Serving, Current, Closed, OnePlace
<1>3. NoClientForgotten' /\ Sound'
  BY SMTT(20) DEF NoClientForgotten, TypeOK, Used, Slots, FDs, Sound
<1>4. Announced'
  BY SMTT(20) DEF Announced, Readable, Current, TypeOK, Pass, Slots, FDs, Closed
<1> QED
  BY <1>1, <1>2, <1>3, <1>4

LEMMA AskKeeps ==
  ASSUME IInv, NEW c \in Clients, Ask(c)
  PROVE  IInv'
<1> USE MainLoopAssumption DEF IInv, Ask
<1>1. TypeOK'
  BY SMTT(20) DEF TypeOK, Slots, FDs, Closed
<1>2. Pass' /\ Serving' /\ OnePlace'
  BY SMTT(20) DEF Pass, TypeOK, Slots, FDs, Serving, Current, Closed, OnePlace
<1>3. NoClientForgotten' /\ Sound'
  BY SMTT(20) DEF NoClientForgotten, TypeOK, Used, Slots, FDs, Sound
<1>4. Announced'
  BY SMTT(20) DEF Announced, Readable, Current, TypeOK, Pass, Slots, FDs, Closed
<1> QED
  BY <1>1, <1>2, <1>3, <1>4

LEMMA TakesKeeps ==
  ASSUME IInv, NEW c \in Clients, Takes(c)
  PROVE  IInv'
<1> USE MainLoopAssumption DEF IInv, Takes
<1>1. TypeOK'
  BY SMTT(20) DEF TypeOK, Slots, FDs, Closed
<1>2. Pass' /\ Serving' /\ OnePlace'
  BY SMTT(20) DEF Pass, TypeOK, Slots, FDs, Serving, Current, Closed, OnePlace
<1>3. NoClientForgotten' /\ Sound'
  BY SMTT(20) DEF NoClientForgotten, TypeOK, Used, Slots, FDs, Sound
<1>4. Announced'
  BY SMTT(20) DEF Announced, Readable, Current, TypeOK, Pass, Slots, FDs, Closed
<1> QED
  BY <1>1, <1>2, <1>3, <1>4

LEMMA LeavesKeeps ==
  ASSUME IInv, NEW c \in Clients, Leaves(c)
  PROVE  IInv'
<1> USE MainLoopAssumption DEF IInv, Leaves
<1>1. TypeOK'
  BY SMTT(20) DEF TypeOK, Slots, FDs, Closed
<1>2. Pass' /\ Serving' /\ OnePlace'
  BY SMTT(20) DEF Pass, TypeOK, Slots, FDs, Serving, Current, Closed, OnePlace
<1>3. NoClientForgotten' /\ Sound'
  BY SMTT(20) DEF NoClientForgotten, TypeOK, Used, Slots, FDs, Sound
<1>4. Announced'
  <2>1. \A f \in FDs : Readable(f) => Readable(f)'
    BY SMTT(20) DEF Readable, TypeOK, Closed
  <2>2. \A s \in revents \ {0} : connections[s] \in FDs
    BY SMTT(20) DEF Pass, TypeOK, Slots
  <2>3. pc = "receive" => Current \in FDs
    BY CurrentOpen, SMTT(20) DEF TypeOK
  <2>4. UNCHANGED <<stale, revents, connections, nfds, pc, slot>>
    OBVIOUS
  <2> HIDE DEF Leaves
  <2> QED
    BY <2>1, <2>2, <2>3, <2>4 DEF Announced, Current
<1> QED
  BY <1>1, <1>2, <1>3, <1>4

LEMMA LinkUpKeeps ==
  ASSUME IInv, LinkUp
  PROVE  IInv'
<1> USE MainLoopAssumption, NextFDFree DEF IInv, LinkUp
<1>1. TypeOK'
  BY SMTT(20) DEF TypeOK, Slots, FDs, Closed
<1>2. Pass' /\ Serving' /\ OnePlace'
  BY SMTT(20) DEF Pass, TypeOK, Slots, FDs, Serving, Current, Closed, OnePlace
<1>3. NoClientForgotten' /\ Sound'
  BY SMTT(20) DEF NoClientForgotten, TypeOK, Used, Slots, FDs, Sound
<1>4. Announced'
  BY SMTT(20) DEF Announced, Readable, Current, TypeOK, Pass, Slots, FDs, Closed
<1> QED
  BY <1>1, <1>2, <1>3, <1>4

LEMMA LinkDownKeeps ==
  ASSUME IInv, LinkDown
  PROVE  IInv'
<1> USE MainLoopAssumption DEF IInv, LinkDown, CloseLink, Close
<1>1. TypeOK'
  BY SMTT(20) DEF TypeOK, Slots, FDs, Closed
<1>2. Pass' /\ Serving' /\ OnePlace'
  BY SMTT(20) DEF Pass, TypeOK, Slots, FDs, Serving, Current, Closed, OnePlace
<1>3. NoClientForgotten' /\ Sound'
  BY SMTT(20) DEF NoClientForgotten, TypeOK, Used, Slots, FDs, Sound
<1>4. Announced'
  BY SMTT(20) DEF Announced, Readable, Current, TypeOK, Pass, Slots, FDs, Closed
<1> QED
  BY <1>1, <1>2, <1>3, <1>4

LEMMA ForwardKeeps ==
  ASSUME IInv, Forward
  PROVE  IInv'
<1> USE MainLoopAssumption DEF IInv, Forward, CloseLink, Close
<1>1. TypeOK'
  <2>1. CASE stray' = TRUE /\ UNCHANGED <<peer, stale>>
    BY <2>1 DEF TypeOK
  <2>2. CASE CloseLink
    BY <2>2, SMTT(20) DEF TypeOK, FDs
  <2> QED
    BY <2>1, <2>2
<1>2. Pass'
  BY SMTT(20) DEF Pass, TypeOK, Slots, FDs
<1>3. Serving'
  BY SMTT(20) DEF Serving, TypeOK, Pass, Current, Closed, Slots, FDs
<1>4. OnePlace'
  BY SMTT(20) DEF OnePlace, TypeOK, FDs
<1>5. NoClientForgotten'
  BY SMTT(20) DEF NoClientForgotten, TypeOK, Used, Slots, FDs
<1>6. Sound'
  BY SMTT(20) DEF Sound, TypeOK, Used, Slots, FDs
<1>7. Announced'
  BY SMTT(20) DEF Announced, Readable, Current, TypeOK, Pass, Slots, FDs, Closed
<1> QED
  BY <1>1, <1>2, <1>3, <1>4, <1>5, <1>6, <1>7

LEMMA InterruptKeeps ==
  ASSUME IInv, Interrupt
  PROVE  IInv'
<1> USE MainLoopAssumption DEF IInv, Interrupt
<1>1. TypeOK'
  BY SMTT(20) DEF TypeOK, Slots, FDs, Closed
<1>2. Pass' /\ Serving' /\ OnePlace'
  BY SMTT(20) DEF Pass, TypeOK, Slots, FDs, Serving, Current, Closed, OnePlace
<1>3. NoClientForgotten' /\ Sound'
  BY SMTT(20) DEF NoClientForgotten, TypeOK, Used, Slots, FDs, Sound
<1>4. Announced'
  BY SMTT(20) DEF Announced, Readable, Current, TypeOK, Pass, Slots, FDs, Closed
<1> QED
  BY <1>1, <1>2, <1>3, <1>4

LEMMA PollKeeps ==
  ASSUME IInv, Poll
  PROVE  IInv'
<1> USE MainLoopAssumption DEF IInv, Poll
<1>a. /\ revents' \subseteq Used \cup {0}
      /\ 0 \in revents' => backlog \in Clients
      /\ \A s \in revents' \ {0} : Readable(connections[s]) \/ peer[connections[s]] = Backup
  <2>1. PICK answers \in SUBSET OnLink : revents' = Listening \cup Polled \cup answers
    OBVIOUS
  <2>2. 0 \notin Used /\ Polled \subseteq Used /\ OnLink \subseteq Used
    BY DEF Used, Polled, OnLink, TypeOK
  <2>3. Listening \subseteq {0} /\ (0 \in Listening => backlog \in Clients)
    BY DEF Listening, TypeOK
  <2> QED
    BY <2>1, <2>2, <2>3 DEF Polled, OnLink
<1>b. revents' \subseteq 0..nfds - 1 /\ \A s \in revents' \ {0} : connections[s] # 0
  BY <1>a DEF Used, TypeOK
<1>c. slot = 0
  BY DEF TypeOK
<1>1. TypeOK'
  BY <1>b, SMTT(20) DEF TypeOK
<1>2. Pass'
  BY <1>a, <1>b, <1>c DEF Pass
<1>3. Serving'
  BY SMTT(20) DEF Serving, TypeOK, Pass, Current, Closed, Slots, FDs
<1>4. OnePlace'
  BY SMTT(20) DEF OnePlace, TypeOK, FDs
<1>5. NoClientForgotten'
  BY SMTT(20) DEF NoClientForgotten, TypeOK, Used, Slots, FDs
<1>6. Sound'
  BY SMTT(20) DEF Sound, TypeOK, Used, Slots, FDs
<1>7. Announced'
  <2>1. ~stale => \A s \in Used : peer[connections[s]] \in Clients
    BY DEF Sound
  <2>2. ~stale => \A s \in revents' \ {0} : Readable(connections[s])
    BY <1>a, <2>1
  <2> QED
    BY <2>2 DEF Announced, Readable
<1> QED
  BY <1>1, <1>2, <1>3, <1>4, <1>5, <1>6, <1>7

LEMMA AcceptKeeps ==
  ASSUME IInv, Accept
  PROVE  IInv'
<1> USE MainLoopAssumption, NextFDFree DEF IInv, Accept, Accepts, FirstPass
<1>a. backlog \in Clients /\ slot = 0
  BY DEF Pass, TypeOK
<1>b. Used' = Used \cup {nfds} /\ nfds \in Slots /\ nfds \notin Used
  BY SMTT(20) DEF Used, TypeOK, Slots, FDs
<1>c. ~stale => \A s \in Used : connections[s] # NextFD
  BY <1>a DEF Sound
<1>1. TypeOK'
  BY SMTT(20) DEF TypeOK, Slots, FDs, Closed
<1>2. Pass'
  BY SMTT(20) DEF Pass, TypeOK, Slots, FDs
<1>3. Serving'
  BY SMTT(20) DEF Serving, TypeOK, Pass, Current, Closed, Slots, FDs
<1>4. OnePlace'
  BY SMTT(20) DEF OnePlace, TypeOK, FDs
<1>5. NoClientForgotten'
  BY SMTT(20) DEF NoClientForgotten, TypeOK, Used, Slots, FDs
<1>6. Sound'
  <2> SUFFICES ASSUME ~stale PROVE Sound'
    BY DEF Sound
  <2>1. \A s \in Used : connections'[s] = connections[s] /\ owner'[s] = owner[s]
    BY <1>b DEF TypeOK, Used, Slots
  <2>2. connections'[nfds] = NextFD /\ owner'[nfds] = backlog
    BY <1>b DEF TypeOK
  <2>3. peer'[NextFD] = backlog /\ \A f \in FDs \ {NextFD} : peer'[f] = peer[f]
    BY DEF TypeOK
  <2>4. \A s \in Used : connections[s] \in FDs \ {NextFD}
    BY <1>c DEF TypeOK, Used, Slots
  <2>5. \A s \in Used' : peer'[connections'[s]] = owner'[s] /\ owner'[s] \in Clients
    BY <1>a, <1>b, <2>1, <2>2, <2>3, <2>4 DEF Sound
  <2>6. \A s, t \in Used' : connections'[s] = connections'[t] => s = t
    BY <1>b, <2>1, <2>2, <2>4 DEF Sound
  <2>7. links > 0 /\ link # 0 => peer'[link] = Backup
    BY <2>3 DEF Sound, TypeOK
  <2> QED
    BY <2>5, <2>6, <2>7 DEF Sound
<1>7. Announced'
  BY SMTT(20) DEF Announced, Readable, Current, TypeOK, Pass, Slots, FDs, Closed
<1> QED
  BY <1>1, <1>2, <1>3, <1>4, <1>5, <1>6, <1>7

LEMMA AcceptFailsKeeps ==
  ASSUME IInv, AcceptFails
  PROVE  IInv'
<1> USE MainLoopAssumption DEF IInv, AcceptFails, Accepts
<1>a. backlog \in Clients /\ slot = 0
  BY DEF Pass, TypeOK
<1>1. TypeOK'
  BY <1>a, SMTT(30) DEF TypeOK, Closed
<1>2. Pass'
  BY SMTT(20) DEF Pass, TypeOK, Slots, FDs
<1>3. Serving'
  BY SMTT(20) DEF Serving, TypeOK, Pass, Current, Closed, Slots, FDs
<1>4. OnePlace'
  BY SMTT(20) DEF OnePlace, TypeOK, FDs
<1>5. NoClientForgotten'
  BY SMTT(20) DEF NoClientForgotten, TypeOK, Used, Slots, FDs
<1>6. Sound'
  BY SMTT(20) DEF Sound, TypeOK, Used, Slots, FDs
<1>7. Announced'
  <2>1. \A f \in FDs : Readable(f) => Readable(f)'
    BY <1>a DEF Readable, OnePlace, TypeOK
  <2>2. \A s \in revents \ {0} : connections[s] \in FDs
    BY DEF Pass, TypeOK, Slots
  <2> QED
    BY <2>1, <2>2 DEF Announced, Readable
<1> QED
  BY <1>1, <1>2, <1>3, <1>4, <1>5, <1>6, <1>7

LEMMA NoAcceptKeeps ==
  ASSUME IInv, NoAccept
  PROVE  IInv'
<1> USE MainLoopAssumption DEF IInv, NoAccept
<1>1. TypeOK'
  BY SMTT(20) DEF TypeOK, Slots, FDs, Closed
<1>2. Pass' /\ Serving' /\ OnePlace'
  BY SMTT(20) DEF Pass, TypeOK, Slots, FDs, Serving, Current, Closed, OnePlace
<1>3. NoClientForgotten' /\ Sound'
  BY SMTT(20) DEF NoClientForgotten, TypeOK, Used, Slots, FDs, Sound
<1>4. Announced'
  BY SMTT(20) DEF Announced, Readable, Current, TypeOK, Pass, Slots, FDs, Closed
<1> QED
  BY <1>1, <1>2, <1>3, <1>4

LEMMA ScanKeeps ==
  ASSUME IInv, Scan
  PROVE  IInv'
<1> USE MainLoopAssumption DEF IInv, Scan
<1>a. revents \in SUBSET Nat /\ 0 \notin revents /\ revents \subseteq 0..nfds - 1
  BY DEF TypeOK, Pass
<1>b. revents # {} => slot' = Lowest(revents) /\ slot' \in revents /\ slot' > 0
  <2>1. revents # {} => slot' = Lowest(revents)
    OBVIOUS
  <2>2. revents # {} => Lowest(revents) \in revents
    BY <1>a, LowestIn
  <2>3. \A n \in revents : n > 0
    BY <1>a
  <2> QED
    BY <2>1, <2>2, <2>3
<1>1. TypeOK'
  <2>1. CASE revents = {}
    BY <1>a, <2>1, SMTT(20) DEF TypeOK
  <2>2. CASE revents # {}
    <3>1. slot' \in 0..nfds - 1 /\ slot' > 0 /\ revents' \subseteq 0..nfds - 1 /\ pc' = "receive"
      BY <1>a, <1>b, <2>2
    <3> QED
      BY <3>1 DEF TypeOK
  <2> QED
    BY <2>1, <2>2
<1>2. Pass'
  <2>1. CASE revents = {}
    BY <2>1 DEF Pass
  <2>2. CASE revents # {}
    BY <1>a, <1>b, <2>2 DEF Pass
  <2> QED
    BY <2>1, <2>2
<1>3. Serving'
  BY SMTT(20) DEF Serving, TypeOK, Pass, Current, Closed, Slots, FDs
<1>4. OnePlace'
  BY SMTT(20) DEF OnePlace, TypeOK, FDs
<1>5. NoClientForgotten'
  BY SMTT(20) DEF NoClientForgotten, TypeOK, Used, Slots, FDs
<1>6. Sound'
  BY SMTT(20) DEF Sound, TypeOK, Used, Slots, FDs
<1>7. Announced'
  <2>1. CASE revents = {}
    BY <2>1 DEF Announced, Current, Readable
  <2>2. CASE revents # {}
    BY <1>a, <1>b, <2>2 DEF Announced, Current, Readable
  <2> QED
    BY <2>1, <2>2
<1> QED
  BY <1>1, <1>2, <1>3, <1>4, <1>5, <1>6, <1>7

LEMMA ReadRequestKeeps ==
  ASSUME IInv, ReadRequest
  PROVE  IInv'
<1> USE MainLoopAssumption DEF IInv, ReadRequest, Receives
<1>a. slot > 0
  BY DEF TypeOK
<1>1. TypeOK'
  BY SMTT(20) DEF TypeOK, Slots, FDs, Closed, Current
<1>2. Pass'
  BY SMTT(20) DEF Pass, TypeOK, Slots, FDs, Current
<1>3. Serving'
  BY SMTT(20) DEF Serving, TypeOK, Pass, Current, Closed, Slots, FDs
<1>4. OnePlace'
  BY SMTT(20) DEF OnePlace, TypeOK, FDs, Current
<1>5. NoClientForgotten'
  BY SMTT(20) DEF NoClientForgotten, TypeOK, Used, Slots, FDs
<1>6. Sound'
  BY SMTT(20) DEF Sound, TypeOK, Used, Slots, FDs
<1>7. Announced'
  <2> SUFFICES ASSUME ~stale, NEW s \in revents \ {0}
               PROVE  Readable(connections[s]) => Readable(connections[s])'
    BY DEF Announced, Readable
  <2>1. s \in Used /\ s # slot
    BY DEF Pass, Used, TypeOK
  <2>2. connections[s] # Current
    BY <1>a, <2>1, CurrentOpen DEF Sound, Current
  <2>3. connections[s] \in FDs
    BY <2>1 DEF Used, TypeOK, Slots
  <2>4. peer[connections[s]] \in Clients => peer[connections[s]] # peer[Current]
    BY <1>a, <2>2, <2>3, CurrentOpen DEF OnePlace
  <2> QED
    BY <2>3, <2>4 DEF Readable, TypeOK
<1> QED
  BY <1>1, <1>2, <1>3, <1>4, <1>5, <1>6, <1>7

LEMMA ReadAnswerKeeps ==
  ASSUME IInv, ReadAnswer
  PROVE  IInv'
<1> USE MainLoopAssumption DEF IInv, ReadAnswer, Receives, Current
<1>1. TypeOK'
  BY SMTT(20) DEF TypeOK, Slots, FDs, Closed
<1>2. Pass' /\ Serving' /\ OnePlace'
  BY SMTT(20) DEF Pass, TypeOK, Slots, FDs, Serving, Closed, OnePlace
<1>3. NoClientForgotten' /\ Sound'
  BY SMTT(20) DEF NoClientForgotten, TypeOK, Used, Slots, FDs, Sound
<1>4. Announced'
  BY SMTT(20) DEF Announced, Readable, TypeOK, Pass, Slots, FDs, Closed
<1> QED
  BY <1>1, <1>2, <1>3, <1>4

LEMMA StopsKeeps ==
  ASSUME IInv, NEW how \in {"stuck", "crashed"}, Stops(how)
  PROVE  IInv'
<1> USE DEF IInv, Stops
<1>1. TypeOK'
  BY SMTT(20) DEF TypeOK
<1>2. Pass' /\ Serving' /\ OnePlace'
  BY DEF Pass, Serving, OnePlace
<1>3. NoClientForgotten' /\ Sound' /\ Announced'
  BY DEF NoClientForgotten, Used, Sound, Announced
<1> QED
  BY <1>1, <1>2, <1>3

LEMMA ReadEndKeeps ==
  ASSUME IInv, ReadEnd
  PROVE  IInv'
  BY StopsKeeps DEF ReadEnd

LEMMA FreesSlotKeeps ==
  ASSUME IInv, pc = "receive", FreesSlot,
         peer[Current] \in Clients => peer[Current] \in dropped',
         dropped \subseteq dropped', dropped' \subseteq Clients,
         UNCHANGED <<fixed, client, backlog, peer, stale, forwarding>>,
         request' \in [Clients -> {"none"} \cup Messages],
         \A c \in Clients : request'[c] \in {request[c], "none"}
  PROVE  IInv'
<1> USE DEF IInv, FreesSlot
<1>a. slot > 0
  BY DEF TypeOK
<1>1. \A s \in Used' : s \in Used /\ connections'[s] = connections[s]
  BY <1>a, CurrentOpen DEF Used, TypeOK, Slots
<1>2. TypeOK'
  BY <1>a, CurrentOpen, SMTT(20) DEF TypeOK, Slots
<1>3. \A s \in Used \ {slot} : s \in Used' /\ connections'[s] = connections[s]
  BY <1>a, CurrentOpen DEF Used, TypeOK, Slots
<1>4. NoClientForgotten'
  <2> SUFFICES ASSUME NEW f \in FDs, peer[f] \in Clients \ dropped'
               PROVE  \E s \in Used' : connections'[s] = f
    BY DEF NoClientForgotten
  <2>1. f # Current
    OBVIOUS
  <2>2. PICK s \in Used : connections[s] = f
    BY DEF NoClientForgotten
  <2>3. s # slot
    BY <2>1, <2>2 DEF Current
  <2> QED
    BY <1>3, <2>2, <2>3
<1>5. Pass' /\ Serving' /\ OnePlace'
  BY DEF Pass, Serving, OnePlace
<1>6. Sound' /\ Announced'
  BY <1>1 DEF Sound, Announced
<1> QED
  BY <1>2, <1>4, <1>5, <1>6

LEMMA ReadTornKeeps ==
  ASSUME IInv, ReadTorn
  PROVE  IInv'
<1> USE DEF ReadTorn
<1>1. request' \in [Clients -> {"none"} \cup Messages] /\ dropped' \subseteq Clients
  BY DEF IInv, TypeOK
<1>2. \A c \in Clients : request'[c] \in {request[c], "none"}
  BY DEF IInv, TypeOK
<1> QED
  BY <1>1, <1>2, FreesSlotKeeps

LEMMA ReadErrorKeeps ==
  ASSUME IInv, ReadError
  PROVE  IInv'
<1> USE DEF IInv
<1>a. slot > 0
  BY DEF ReadError, TypeOK
<1>1. CASE peer[Current] = NoClient /\ FreesSlot /\ UNCHANGED <<fixed, peers, peer, history, forwarding>>
  <2>1. request' \in [Clients -> {"none"} \cup Messages] /\ dropped' \subseteq Clients
    BY <1>1 DEF TypeOK
  <2>2. peer[Current] \notin Clients
    BY <1>1, MainLoopAssumption
  <2>3. pc = "receive"
    BY DEF ReadError
  <2> QED
    BY <1>1, <2>1, <2>2, <2>3, FreesSlotKeeps
<1>2. CASE Stops("stuck") \/ Stops("crashed")
  BY <1>2, StopsKeeps
<1>3. CASE Receives("quit") /\ UNCHANGED <<fixed, peers, peer, history, forwarding>>
  <2>1. Serving'
    BY <1>3, <1>a, CurrentOpen, MainLoopAssumption DEF ReadError, Receives, Serving, Drained, Current, Closed, TypeOK
  <2>2. TypeOK'
    BY <1>3, SMTT(20) DEF ReadError, Receives, TypeOK
  <2>3. Pass' /\ OnePlace' /\ NoClientForgotten' /\ Sound'
    BY <1>3 DEF ReadError, Receives, Pass, OnePlace, NoClientForgotten, Used, Sound
  <2>4. Announced'
    BY <1>3 DEF ReadError, Receives, Announced, Readable
  <2> QED
    BY <2>1, <2>2, <2>3, <2>4
<1> QED
  BY <1>1, <1>2, <1>3 DEF ReadError

LEMMA AnsweredKeeps ==
  ASSUME IInv, pc = "send", AfterReply, BackToScan, UNCHANGED history,
         \/ UNCHANGED client
         \/ /\ peer[Current] \in Clients
            /\ \E state \in {"done", "answered"} : Becomes(peer[Current], state)
  PROVE  IInv'
<1> USE MainLoopAssumption DEF IInv, BackToScan
<1>a. /\ slot > 0 /\ slot \in Slots /\ slot \in Used /\ Current \in FDs
      /\ peer[Current] \in Clients \cup {NoClient, Backup}
      /\ slot \notin revents /\ 0 \notin revents
  BY CurrentOpen DEF TypeOK, Pass
<1>b. /\ \A f \in FDs \ {Current} : peer'[f] = peer[f]
      /\ peer'[Current] \in {peer[Current], NoClient}
      /\ \A s \in Slots \ {slot} : connections'[s] = connections[s]
      /\ \/ connections'[slot] = 0 /\ peer'[Current] = NoClient
         \/ connections'[slot] = connections[slot] /\ peer'[Current] = peer[Current]
  BY <1>a, SMTT(20) DEF AfterReply, Close, TypeOK
<1>c. /\ peer' \in [FDs -> Clients \cup {NoClient, Backup}]
      /\ connections' \in [Slots -> FDs \cup {0}]
  BY <1>a, SMTT(20) DEF AfterReply, Close, TypeOK
<1>d. /\ client' \in [Clients -> {"out", "idle", "waiting", "answered", "done"} \cup Closed]
      /\ \A c \in Clients : peer[Current] # c => client'[c] = client[c]
      /\ peer[Current] \in Clients => client'[peer[Current]] # "out"
  BY <1>a, SMTT(20) DEF TypeOK, Serving, Closed
<1>e. \A c \in Clients : request[c] # "none" => client'[c] \in {"waiting", "closed"}
  BY <1>d DEF TypeOK, Serving
<1>1. TypeOK'
  BY <1>a, <1>b, <1>c, <1>d, <1>e, SMTT(30) DEF TypeOK, Slots
<1>2. Pass' /\ Serving'
  BY <1>a, <1>b DEF Pass, Serving, TypeOK, Slots
<1>3. OnePlace'
  BY <1>a, <1>b, <1>d DEF OnePlace, TypeOK
<1>4. NoClientForgotten'
  <2> SUFFICES ASSUME NEW f \in FDs, peer'[f] \in Clients \ dropped
               PROVE  \E s \in Used' : connections'[s] = f
    BY DEF NoClientForgotten
  <2>1. peer[f] \in Clients \ dropped
    BY <1>a, <1>b
  <2>2. PICK s \in Used : connections[s] = f
    BY <2>1 DEF NoClientForgotten
  <2>3. s \in Slots /\ connections'[s] = f
    BY <1>a, <1>b, <2>2 DEF Used, TypeOK, Slots, Current
  <2> QED
    BY <2>2, <2>3 DEF Used, FDs
<1>5. Sound'
  <2> SUFFICES ASSUME ~stale PROVE Sound'
    BY DEF Sound
  <2>1. \A s \in Used' : s \in Used /\ connections'[s] = connections[s]
    BY <1>a, <1>b DEF Used, TypeOK, Slots
  <2>2. \A s \in Used' : peer'[connections'[s]] = peer[connections[s]]
    BY <1>a, <1>b, <2>1 DEF Sound, Used, TypeOK, Slots, Current
  <2>3. links > 0 /\ link # 0 => peer'[link] = Backup
    BY <1>a, <1>b DEF Sound, TypeOK, Current
  <2> QED
    BY <2>1, <2>2, <2>3 DEF Sound
<1>6. Announced'
  <2> SUFFICES ASSUME ~stale, NEW s \in revents, Readable(connections[s])
               PROVE  Readable(connections[s])'
    BY <1>a DEF Announced, Pass, TypeOK, Readable
  <2>1. s \in Used /\ s \in Slots /\ s # slot
    BY <1>a DEF Pass, Used, TypeOK, Slots
  <2>2. connections[s] \in FDs /\ connections[s] # Current
    BY <1>a, <2>1 DEF Sound, Current, TypeOK, Used
  <2>3. connections'[s] = connections[s] /\ peer'[connections[s]] = peer[connections[s]]
    BY <1>b, <2>1, <2>2
  <2>4. peer[connections[s]] \in Clients /\ peer[connections[s]] # peer[Current]
    BY <1>a, <2>2 DEF OnePlace, Readable
  <2> QED
    BY <1>d, <2>3, <2>4 DEF Readable
<1> QED
  BY <1>1, <1>2, <1>3, <1>4, <1>5, <1>6

LEMMA ReplyKeeps ==
  ASSUME IInv, Reply \/ ReplyUnnoticed
  PROVE  IInv'
  BY AnsweredKeeps DEF Reply, ReplyUnnoticed

LEMMA SendFailsKeeps ==
  ASSUME IInv, SendFails
  PROVE  IInv'
<1> USE MainLoopAssumption DEF IInv, SendFails, BackToScan, Close, Current
<1>1. TypeOK'
  BY SMTT(20) DEF TypeOK, Slots, FDs, Closed
<1>2. Pass' /\ Serving' /\ OnePlace'
  BY SMTT(20) DEF Pass, TypeOK, Slots, FDs, Serving, Closed, OnePlace
<1>3. NoClientForgotten' /\ Sound'
  BY SMTT(20) DEF NoClientForgotten, TypeOK, Used, Slots, FDs, Sound
<1>4. Announced'
  BY SMTT(20) DEF Announced, Readable, TypeOK, Pass, Slots, FDs, Closed
<1> QED
  BY <1>1, <1>2, <1>3, <1>4

LEMMA NextIInv == IInv /\ [Next]_vars => IInv'
<1> SUFFICES ASSUME IInv, [Next]_vars PROVE IInv'
  OBVIOUS
<1>1. ASSUME NEW c \in Clients, Connect(c) \/ Ask(c) \/ Takes(c) \/ Leaves(c)
      PROVE  IInv'
  BY <1>1, ConnectKeeps, AskKeeps, TakesKeeps, LeavesKeeps
<1>2. CASE LinkUp \/ LinkDown \/ Forward \/ Interrupt
  BY <1>2, LinkUpKeeps, LinkDownKeeps, ForwardKeeps, InterruptKeeps
<1>3. CASE Serve
  BY <1>3, PollKeeps, AcceptKeeps, AcceptFailsKeeps, NoAcceptKeeps, ScanKeeps,
     ReadRequestKeeps, ReadTornKeeps, ReadAnswerKeeps, ReadEndKeeps, ReadErrorKeeps, ReplyKeeps,
     SendFailsKeeps DEF Serve
<1>4. CASE UNCHANGED vars
  BY <1>4 DEF vars, IInv, TypeOK, Pass, Serving, OnePlace, NoClientForgotten, Sound,
     Announced, Used, Current, Readable
<1> QED
  BY <1>1, <1>2, <1>3, <1>4 DEF Next

LEMMA Inductive == Spec => []IInv
  BY InitIInv, NextIInv, PTL DEF Spec

-----------------------------------------------------------------------------
\* Every variable keeps its type (network_server.c:140-204).
THEOREM MainLoopTypeCorrect == Spec => []TypeOK
<1>1. IInv => TypeOK
  BY DEF IInv
<1> QED
  BY <1>1, Inductive, PTL

\* No client's connection is open without a slot that polls it, but where a
\* frame did not unpack (network_server.c:82-86, 161, 191).
THEOREM EveryClientPolled == Spec => []NoClientForgotten
<1>1. IInv => NoClientForgotten
  BY DEF IInv
<1> QED
  BY <1>1, Inductive, PTL

\* Until a closed number is kept, a slot means the client it was filled for
\* (tree_skel.c:92, network_server.c:184).
THEOREM SlotsAreFaithful == Spec => []SlotsKeepTheirClient
<1>1. IInv => SlotsKeepTheirClient
  BY DEF IInv, Sound, SlotsKeepTheirClient
<1> QED
  BY <1>1, Inductive, PTL

\* Until then the loop reads only where poll promised something, but for the
\* newest slot (network_server.c:157-169).
THEOREM ReadsWhatWasPolled == Spec => []PollWasRight
<1>1. IInv => PollWasRight
  <2> SUFFICES ASSUME IInv, pc = "receive", ~stale, slot < nfds - 1
               PROVE  Readable(Current)
    BY DEF PollWasRight
  <2>1. slot \in Nat /\ nfds \in Nat
    BY MainLoopAssumption DEF IInv, TypeOK
  <2> QED
    BY <2>1 DEF IInv, Announced
<1> QED
  BY <1>1, Inductive, PTL

\* Only Forward sends a client anything that is not its answer.
LEMMA OnlyForwardStrays ==
  ASSUME [Next]_vars, stray' # stray
  PROVE  Forward
<1>1. ASSUME NEW c \in Clients, Connect(c) \/ Ask(c) \/ Takes(c) \/ Leaves(c)
      PROVE  FALSE
  BY <1>1 DEF Connect, Ask, Takes, Leaves
<1>2. CASE LinkUp \/ LinkDown \/ Interrupt
  BY <1>2 DEF LinkUp, LinkDown, CloseLink, Interrupt
<1>3. CASE Poll \/ Accept \/ AcceptFails \/ NoAccept \/ Scan
  BY <1>3 DEF Poll, Accept, AcceptFails, NoAccept, Scan
<1>4. CASE ReadRequest \/ ReadTorn \/ ReadAnswer \/ ReadEnd \/ ReadError
  BY <1>4 DEF ReadRequest, ReadTorn, ReadAnswer, ReadEnd, ReadError, Stops
<1>5. CASE Reply \/ ReplyUnnoticed \/ SendFails
  BY <1>5 DEF Reply, ReplyUnnoticed, SendFails, BackToScan
<1> QED
  BY <1>1, <1>2, <1>3, <1>4, <1>5, Zenon DEF Next, Serve, vars

\* Until then, and once sockfd was set, no client is sent a forwarded write:
\* the number process_task writes to is the backup's (tree_skel.c:92, 103,
\* 138, 189).
THEOREM ForwardedToBackupOnly == Spec => StrayByBadNumber
<1>1. ASSUME IInv, [Next]_vars PROVE [stray' # stray => stale \/ links = 0]_vars
  <2> SUFFICES ASSUME stray' # stray, ~stale PROVE links = 0
    OBVIOUS
  <2>1. Forward
    BY <1>1, OnlyForwardStrays
  <2>2. link # 0 /\ peer[link] \in Clients
    BY <2>1 DEF Forward, CloseLink
  <2>3. links \in Nat
    BY <1>1, MainLoopAssumption DEF IInv, TypeOK
  <2> QED
    BY <1>1, <2>2, <2>3, MainLoopAssumption DEF IInv, Sound
<1> QED
  BY <1>1, Inductive, PTL DEF Spec, StrayByBadNumber

=============================================================================
