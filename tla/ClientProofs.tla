---------------------------- MODULE ClientProofs -----------------------------
(***************************************************************************)
(* Client proved for any set of servers and any bounds: its types, the     *)
(* watch, who owns which descriptor and, once the client has started in    *)
(* peace, what the flags say of memory and of the registered servers, what *)
(* a command may count on and what the client can die of.  And with        *)
(* servers that let it finish: every request reaches the one it is for.    *)
(***************************************************************************)
EXTENDS Client, TLAPS, SequenceTheorems, WellFoundedInduction

LEMMA LeastExists ==
  ASSUME NEW S \in SUBSET Nat, S # {}
  PROVE  \E n \in S : \A m \in S : n <= m
<1> DEFINE Less == {p \in Nat \X Nat : p[1] < p[2]}
<1>1. IsWellFoundedOn(Less, Nat)
  BY NatLessThanWellFounded, Zenon DEF OpToRel
<1>2. PICK n \in S : \A m \in S : ~(<<m, n>> \in Less)
  BY <1>1, WFMin
<1>3. ASSUME NEW m \in S PROVE n <= m
  <2>1. m \in Nat /\ n \in Nat /\ ~(<<m, n>> \in Less)
    BY <1>2
  <2> QED
    BY <2>1
<1> QED
  BY <1>3

LEMMA NextFDFree == FreeFDs # {} => NextFD \in FDs /\ socket[NextFD] = NoServer
<1>1. FreeFDs \in SUBSET Nat
  BY ClientAssumption DEF FreeFDs, FDs
<1> QED
  BY <1>1, LeastExists DEF NextFD, FreeFDs

-----------------------------------------------------------------------------
(* What is left of a command.                                              *)

Exchanges == Roles \cup {"same", "exit"}

\* Nothing follows the exit.
ExitIsLast(s) == \A i \in 1..Len(s) : s[i] = "exit" => i = Len(s)

LEMMA CommandsTyped ==
  \A c \in Commands : c \in Seq(Exchanges) /\ c # <<>> /\ ExitIsLast(c)
<1> USE DEF Exchanges, Roles
<1>1. ASSUME NEW r \in Roles
      PROVE  <<r>> \in Seq(Exchanges) /\ <<r>> # <<>> /\ ExitIsLast(<<r>>)
  BY DEF ExitIsLast
<1>2. ASSUME NEW s \in Seq(Exchanges), s # <<>>, \A i \in 1..Len(s) : s[i] # "exit",
             NEW e \in Exchanges
      PROVE  LET c == s \o <<e>>
             IN  /\ c \in Seq(Exchanges) /\ c # <<>> /\ ExitIsLast(c)
                 /\ e # "exit" => \A i \in 1..Len(c) : c[i] # "exit"
  <2> DEFINE u == <<e>>
             c == s \o u
  <2>1. u \in Seq(Exchanges) /\ Len(u) = 1 /\ u[1] = e
    OBVIOUS
  <2> HIDE DEF u
  <2>2. c \in Seq(Exchanges) /\ Len(c) = Len(s) + Len(u) /\ Len(s) \in Nat \ {0}
        /\ \A i \in 1..Len(s) + Len(u) :
              c[i] = IF i <= Len(s) THEN s[i] ELSE u[i - Len(s)]
    BY <1>2, <2>1, ConcatProperties, EmptySeq
  <2> HIDE DEF c
  <2>3. c # <<>>
    BY <2>1, <2>2, EmptySeq
  <2>4. \A i \in 1..Len(c) : c[i] = "exit" => i = Len(c) /\ e = "exit"
    BY <1>2, <2>1, <2>2
  <2> QED
    BY <2>2, <2>3, <2>4 DEF ExitIsLast, c, u
<1>3. ASSUME NEW r \in Roles PROVE \A i \in 1..Len(<<r>>) : <<r>>[i] # "exit"
  OBVIOUS
<1>4. <<"backup">> \o <<"same">> \in {c \in Seq(Exchanges) : c # <<>> /\ ExitIsLast(c)}
  BY <1>1, <1>2, <1>3
<1>5. (<<"primary">> \o <<"backup">>) \o <<"exit">>
         \in {c \in Seq(Exchanges) : c # <<>> /\ ExitIsLast(c)}
  <2> DEFINE s == <<"primary">> \o <<"backup">>
  <2>1. s \in Seq(Exchanges) /\ s # <<>> /\ \A i \in 1..Len(s) : s[i] # "exit"
    BY <1>1, <1>2, <1>3
  <2> HIDE DEF s
  <2>2. s \o <<"exit">> \in {c \in Seq(Exchanges) : c # <<>> /\ ExitIsLast(c)}
    BY <1>2, <2>1
  <2> QED
    BY <2>2 DEF s
<1> QED
  BY <1>1, <1>2, <1>3, <1>4, <1>5 DEF Commands, rtree_put, rtree_del, rtree_get,
     rtree_size, rtree_height, rtree_get_keys, rtree_verify, rtree_quit

LEMMA RestTyped ==
  ASSUME NEW s \in Seq(Exchanges), s # <<>>, ExitIsLast(s)
  PROVE  /\ Tail(s) \in Seq(Exchanges) /\ ExitIsLast(Tail(s))
         /\ s[1] \in Exchanges
         /\ s[1] = "exit" => Last(s) = "exit"
<1>1. /\ Len(s) \in Nat \ {0} /\ Tail(s) \in Seq(Exchanges) /\ Len(Tail(s)) = Len(s) - 1
      /\ \A i \in 1..Len(Tail(s)) : Tail(s)[i] = s[i + 1]
  BY EmptySeq, HeadTailProperties
<1>2. ExitIsLast(Tail(s))
  <2>1. ASSUME NEW i \in 1..Len(Tail(s)), Tail(s)[i] = "exit" PROVE i = Len(Tail(s))
    <3>1. i + 1 \in 1..Len(s) /\ s[i + 1] = "exit"
      BY <1>1, <2>1
    <3>2. i + 1 = Len(s)
      BY <3>1 DEF ExitIsLast
    <3>3. Len(s) \in Int /\ Len(Tail(s)) = Len(s) - 1
      BY <1>1
    <3>4. i \in Int
      BY <3>3
    <3> QED
      BY <3>2, <3>3, <3>4
  <2> QED
    BY <2>1 DEF ExitIsLast
<1>3. s[1] \in Exchanges
  BY <1>1, ElementOfSeq
<1>4. s[1] = "exit" => Last(s) = "exit"
  <2>1. 1 \in 1..Len(s)
    BY <1>1
  <2> QED
    BY <2>1 DEF ExitIsLast, Last
<1> QED
  BY <1>1, <1>2, <1>3, <1>4

-----------------------------------------------------------------------------
(* The inductive invariant, first part: what holds in every world.         *)

ExitSteps == {<<"exit", "primary">>, <<"exit", "backup">>}

CallRight ==
    /\ ExitIsLast(calls)
    /\ at["main"] \in ExitSteps => Leaving

\* Every open descriptor is that of a block in memory.
OpenIsHeld ==
    \A f \in FDs : socket[f] # NoServer => \E b \in live : sockfd[b] = f

Base == TypeOK /\ CallRight /\ WatchNeverLost /\ OpenIsHeld

LEMMA ServerDiesKeepsBase ==
  ASSUME Base, NEW s \in Servers, ServerDies(s)
  PROVE  Base'
<1> USE ClientAssumption DEF Base, TypeOK, ServerDies, Count,
        environment, watch, refreshed, memory, sockets, call
<1>1. EnvironmentTypeOK'
  BY SMTT(20) DEF EnvironmentTypeOK
<1>2. WatchTypeOK'
  BY Zenon DEF WatchTypeOK
<1>3. StepsTypeOK'
  BY SMTT(20) DEF StepsTypeOK, Roles, Threads, RefreshSteps, CallSteps, Ended
<1>4. MemoryTypeOK'
  BY SMTT(20) DEF EnvironmentTypeOK, StepsTypeOK, MemoryTypeOK, CallTypeOK
<1>5. CallTypeOK' /\ CallRight'
  BY SMTT(20) DEF StepsTypeOK, MemoryTypeOK, CallTypeOK, CallRight, Exchanges,
     ExitSteps, Leaving, Roles, Threads
<1>6. WatchNeverLost'
  BY SMTT(20) DEF StepsTypeOK, WatchTypeOK, WatchNeverLost, Threads, Ended
<1>7. OpenIsHeld'
  BY SMTT(20) DEF StepsTypeOK, MemoryTypeOK, OpenIsHeld
<1> QED
  BY <1>1, <1>2, <1>3, <1>4, <1>5, <1>6, <1>7, Zenon DEF TypeOK

LEMMA NodeComesKeepsBase ==
  ASSUME Base, NEW r \in Roles, NEW s \in Servers, NodeComes(r, s)
  PROVE  Base'
<1> USE ClientAssumption DEF Base, TypeOK, NodeComes, Count, ChildrenChange,
        environment, watch, refreshed, memory, sockets, call
<1>1. EnvironmentTypeOK'
  BY SMTT(20) DEF EnvironmentTypeOK
<1>2. WatchTypeOK'
  BY Zenon DEF WatchTypeOK
<1>3. StepsTypeOK'
  BY SMTT(20) DEF StepsTypeOK, Roles, Threads, RefreshSteps, CallSteps, Ended
<1>4. MemoryTypeOK'
  BY SMTT(20) DEF EnvironmentTypeOK, StepsTypeOK, MemoryTypeOK, CallTypeOK
<1>5. CallTypeOK' /\ CallRight'
  BY SMTT(20) DEF StepsTypeOK, MemoryTypeOK, CallTypeOK, CallRight, Exchanges,
     ExitSteps, Leaving, Roles, Threads
<1>6. WatchNeverLost'
  BY SMTT(20) DEF StepsTypeOK, WatchTypeOK, WatchNeverLost, Threads, Ended
<1>7. OpenIsHeld'
  BY SMTT(20) DEF StepsTypeOK, MemoryTypeOK, OpenIsHeld
<1> QED
  BY <1>1, <1>2, <1>3, <1>4, <1>5, <1>6, <1>7, Zenon DEF TypeOK

LEMMA NodeGoesKeepsBase ==
  ASSUME Base, NEW r \in Roles, NodeGoes(r)
  PROVE  Base'
<1> USE ClientAssumption DEF Base, TypeOK, NodeGoes, Count, ChildrenChange,
        environment, watch, refreshed, memory, sockets, call
<1>1. EnvironmentTypeOK'
  BY SMTT(20) DEF EnvironmentTypeOK
<1>2. WatchTypeOK'
  BY Zenon DEF WatchTypeOK
<1>3. StepsTypeOK'
  BY SMTT(20) DEF StepsTypeOK, Roles, Threads, RefreshSteps, CallSteps, Ended
<1>4. MemoryTypeOK'
  BY SMTT(20) DEF EnvironmentTypeOK, StepsTypeOK, MemoryTypeOK, CallTypeOK
<1>5. CallTypeOK' /\ CallRight'
  BY SMTT(20) DEF StepsTypeOK, MemoryTypeOK, CallTypeOK, CallRight, Exchanges,
     ExitSteps, Leaving, Roles, Threads
<1>6. WatchNeverLost'
  BY SMTT(20) DEF StepsTypeOK, WatchTypeOK, WatchNeverLost, Threads, Ended
<1>7. OpenIsHeld'
  BY SMTT(20) DEF StepsTypeOK, MemoryTypeOK, OpenIsHeld
<1> QED
  BY <1>1, <1>2, <1>3, <1>4, <1>5, <1>6, <1>7, Zenon DEF TypeOK

LEMMA CalledKeepsBase ==
  ASSUME Base, Called
  PROVE  Base'
<1> USE ClientAssumption DEF Base, TypeOK, Called, Goto,
        environment, watch, refreshed, memory, sockets, call
<1>1. EnvironmentTypeOK'
  BY SMTT(20) DEF EnvironmentTypeOK
<1>2. WatchTypeOK'
  BY Zenon DEF WatchTypeOK
<1>3. StepsTypeOK'
  BY SMTT(20) DEF StepsTypeOK, Roles, Threads, RefreshSteps, CallSteps, Ended
<1>4. MemoryTypeOK'
  BY SMTT(20) DEF EnvironmentTypeOK, StepsTypeOK, MemoryTypeOK, CallTypeOK
<1>5. CallTypeOK' /\ CallRight'
  BY SMTT(20) DEF StepsTypeOK, MemoryTypeOK, CallTypeOK, CallRight, Exchanges,
     ExitSteps, Leaving, Roles, Threads
<1>6. WatchNeverLost'
  BY SMTT(20) DEF StepsTypeOK, WatchTypeOK, WatchNeverLost, Threads, Ended
<1>7. OpenIsHeld'
  BY SMTT(20) DEF StepsTypeOK, MemoryTypeOK, OpenIsHeld
<1> QED
  BY <1>1, <1>2, <1>3, <1>4, <1>5, <1>6, <1>7, Zenon DEF TypeOK

LEMMA SessionEventKeepsBase ==
  ASSUME Base, SessionEvent
  PROVE  Base'
<1> USE ClientAssumption DEF Base, TypeOK, SessionEvent,
        environment, watch, refreshed, memory, sockets, call
<1>1. EnvironmentTypeOK'
  BY SMTT(20) DEF EnvironmentTypeOK
<1>2. WatchTypeOK'
  BY Zenon DEF WatchTypeOK
<1>3. StepsTypeOK'
  BY SMTT(20) DEF StepsTypeOK, Roles, Threads, RefreshSteps, CallSteps, Ended
<1>4. MemoryTypeOK'
  BY SMTT(20) DEF EnvironmentTypeOK, StepsTypeOK, MemoryTypeOK, CallTypeOK
<1>5. CallTypeOK' /\ CallRight'
  BY SMTT(20) DEF StepsTypeOK, MemoryTypeOK, CallTypeOK, CallRight, Exchanges,
     ExitSteps, Leaving, Roles, Threads
<1>6. WatchNeverLost'
  BY SMTT(20) DEF StepsTypeOK, WatchTypeOK, WatchNeverLost, Threads, Ended
<1>7. OpenIsHeld'
  BY SMTT(20) DEF StepsTypeOK, MemoryTypeOK, OpenIsHeld
<1> QED
  BY <1>1, <1>2, <1>3, <1>4, <1>5, <1>6, <1>7, Zenon DEF TypeOK

LEMMA ListKeepsBase ==
  ASSUME Base, NEW t \in Threads, List(t)
  PROVE  Base'
<1> USE ClientAssumption DEF Base, TypeOK, List, Goto, SetsWatch, Registered,
        environment, watch, refreshed, memory, sockets, call
<1>1. EnvironmentTypeOK'
  BY SMTT(20) DEF EnvironmentTypeOK
<1>2. WatchTypeOK'
  BY Zenon DEF WatchTypeOK
<1>3. StepsTypeOK'
  BY SMTT(20) DEF StepsTypeOK, Roles, Threads, RefreshSteps, CallSteps, Ended
<1>4. MemoryTypeOK'
  BY SMTT(20) DEF EnvironmentTypeOK, StepsTypeOK, MemoryTypeOK, CallTypeOK
<1>5. CallTypeOK' /\ CallRight'
  BY SMTT(20) DEF StepsTypeOK, MemoryTypeOK, CallTypeOK, CallRight, Exchanges,
     ExitSteps, Leaving, Roles, Threads
<1>6. WatchNeverLost'
  BY Zenon DEF StepsTypeOK, WatchTypeOK, WatchNeverLost, Threads, Ended
<1>7. OpenIsHeld'
  BY SMTT(20) DEF StepsTypeOK, MemoryTypeOK, OpenIsHeld
<1> QED
  BY <1>1, <1>2, <1>3, <1>4, <1>5, <1>6, <1>7, Zenon DEF TypeOK

LEMMA GetKeepsBase ==
  ASSUME Base, NEW t \in Threads, NEW r \in Roles, Get(t, r)
  PROVE  Base'
<1> USE ClientAssumption DEF Base, TypeOK, Get, Goto, Address,
        environment, watch, refreshed, memory, sockets, call
<1>1. EnvironmentTypeOK'
  BY SMTT(20) DEF EnvironmentTypeOK
<1>2. WatchTypeOK'
  BY Zenon DEF WatchTypeOK
<1>3. StepsTypeOK'
  BY SMTT(20) DEF StepsTypeOK, Roles, Threads, RefreshSteps, CallSteps, Ended
<1>4. MemoryTypeOK'
  BY SMTT(20) DEF EnvironmentTypeOK, StepsTypeOK, MemoryTypeOK, CallTypeOK
<1>5. CallTypeOK' /\ CallRight'
  BY SMTT(20) DEF StepsTypeOK, MemoryTypeOK, CallTypeOK, CallRight, Exchanges,
     ExitSteps, Leaving, Roles, Threads
<1>6. WatchNeverLost'
  BY SMTT(20) DEF StepsTypeOK, WatchTypeOK, WatchNeverLost, Threads, Ended
<1>7. OpenIsHeld'
  BY SMTT(20) DEF StepsTypeOK, MemoryTypeOK, OpenIsHeld
<1> QED
  BY <1>1, <1>2, <1>3, <1>4, <1>5, <1>6, <1>7, Zenon DEF TypeOK

LEMMA AlreadyConnectedKeepsBase ==
  ASSUME Base, NEW t \in Threads, NEW r \in Roles, AlreadyConnected(t, r)
  PROVE  Base'
<1> USE ClientAssumption DEF Base, TypeOK, AlreadyConnected, Goto, AfterConnect,
        environment, watch, refreshed, memory, sockets, call
<1>1. EnvironmentTypeOK'
  BY SMTT(20) DEF EnvironmentTypeOK
<1>2. WatchTypeOK'
  BY Zenon DEF WatchTypeOK
<1>3. StepsTypeOK'
  BY SMTT(20) DEF StepsTypeOK, Roles, Threads, RefreshSteps, CallSteps, Ended
<1>4. MemoryTypeOK'
  BY SMTT(20) DEF EnvironmentTypeOK, StepsTypeOK, MemoryTypeOK, CallTypeOK
<1>5. CallTypeOK' /\ CallRight'
  BY SMTT(20) DEF StepsTypeOK, MemoryTypeOK, CallTypeOK, CallRight, Exchanges,
     ExitSteps, Leaving, Roles, Threads
<1>6. WatchNeverLost'
  BY SMTT(20) DEF StepsTypeOK, WatchTypeOK, WatchNeverLost, Threads, Ended
<1>7. OpenIsHeld'
  BY SMTT(20) DEF StepsTypeOK, MemoryTypeOK, OpenIsHeld
<1> QED
  BY <1>1, <1>2, <1>3, <1>4, <1>5, <1>6, <1>7, Zenon DEF TypeOK

LEMMA ConnectKeepsBase ==
  ASSUME Base, NEW t \in Threads, NEW r \in Roles, Connect(t, r)
  PROVE  Base'
<1> USE ClientAssumption DEF Base, TypeOK, Connect, Goto, Unallocated,
        environment, watch, refreshed, memory, sockets, call
<1>1. EnvironmentTypeOK'
  BY SMTT(20) DEF EnvironmentTypeOK
<1>2. WatchTypeOK'
  BY Zenon DEF WatchTypeOK
<1>3. StepsTypeOK'
  BY SMTT(20) DEF StepsTypeOK, Roles, Threads, RefreshSteps, CallSteps, Ended
<1>4. MemoryTypeOK'
  BY NextFDFree, SMTT(20) DEF EnvironmentTypeOK, StepsTypeOK, MemoryTypeOK, CallTypeOK
<1>5. CallTypeOK' /\ CallRight'
  BY SMTT(20) DEF StepsTypeOK, MemoryTypeOK, CallTypeOK, CallRight, Exchanges,
     ExitSteps, Leaving, Roles, Threads
<1>6. WatchNeverLost'
  BY SMTT(20) DEF StepsTypeOK, WatchTypeOK, WatchNeverLost, Threads, Ended
<1>7. OpenIsHeld'
  BY SMTT(20) DEF StepsTypeOK, MemoryTypeOK, OpenIsHeld
<1> QED
  BY <1>1, <1>2, <1>3, <1>4, <1>5, <1>6, <1>7, Zenon DEF TypeOK

LEMMA ConnectFailsKeepsBase ==
  ASSUME Base, NEW t \in Threads, NEW r \in Roles, ConnectFails(t, r)
  PROVE  Base'
<1> USE ClientAssumption DEF Base, TypeOK, ConnectFails, Goto, Crash, End,
        environment, watch, refreshed, memory, sockets, call
<1>1. EnvironmentTypeOK'
  BY SMTT(20) DEF EnvironmentTypeOK
<1>2. WatchTypeOK'
  BY Zenon DEF WatchTypeOK
<1>3. StepsTypeOK'
  BY SMTT(20) DEF StepsTypeOK, Roles, Threads, RefreshSteps, CallSteps, Ended
<1>4. MemoryTypeOK'
  BY SMTT(20) DEF EnvironmentTypeOK, StepsTypeOK, MemoryTypeOK, CallTypeOK
<1>5. CallTypeOK' /\ CallRight'
  BY SMTT(20) DEF StepsTypeOK, MemoryTypeOK, CallTypeOK, CallRight, Exchanges,
     ExitSteps, Leaving, Roles, Threads
<1>6. WatchNeverLost'
  BY SMTT(20) DEF StepsTypeOK, WatchTypeOK, WatchNeverLost, Threads, Ended
<1>7. OpenIsHeld'
  BY SMTT(20) DEF StepsTypeOK, MemoryTypeOK, OpenIsHeld
<1> QED
  BY <1>1, <1>2, <1>3, <1>4, <1>5, <1>6, <1>7, Zenon DEF TypeOK

LEMMA FlagKeepsBase ==
  ASSUME Base, NEW t \in Threads, NEW r \in Roles, Flag(t, r)
  PROVE  Base'
<1> USE ClientAssumption DEF Base, TypeOK, Flag, Goto, AfterConnect,
        environment, watch, refreshed, memory, sockets, call
<1>1. EnvironmentTypeOK'
  BY SMTT(20) DEF EnvironmentTypeOK
<1>2. WatchTypeOK'
  BY Zenon DEF WatchTypeOK
<1>3. StepsTypeOK'
  BY SMTT(20) DEF StepsTypeOK, Roles, Threads, RefreshSteps, CallSteps, Ended
<1>4. MemoryTypeOK'
  BY SMTT(20) DEF EnvironmentTypeOK, StepsTypeOK, MemoryTypeOK, CallTypeOK
<1>5. CallTypeOK' /\ CallRight'
  BY SMTT(20) DEF StepsTypeOK, MemoryTypeOK, CallTypeOK, CallRight, Exchanges,
     ExitSteps, Leaving, Roles, Threads
<1>6. WatchNeverLost'
  BY SMTT(20) DEF StepsTypeOK, WatchTypeOK, WatchNeverLost, Threads, Ended
<1>7. OpenIsHeld'
  BY SMTT(20) DEF StepsTypeOK, MemoryTypeOK, OpenIsHeld
<1> QED
  BY <1>1, <1>2, <1>3, <1>4, <1>5, <1>6, <1>7, Zenon DEF TypeOK

LEMMA KeepAssociationKeepsBase ==
  ASSUME Base, NEW t \in Threads, NEW r \in Roles, KeepAssociation(t, r)
  PROVE  Base'
<1> USE ClientAssumption DEF Base, TypeOK, KeepAssociation, Goto, AfterDrop, Finish,
        environment, watch, refreshed, memory, sockets, call
<1>1. EnvironmentTypeOK'
  BY SMTT(20) DEF EnvironmentTypeOK
<1>2. WatchTypeOK'
  BY Zenon DEF WatchTypeOK
<1>3. StepsTypeOK'
  BY SMTT(20) DEF StepsTypeOK, Roles, Threads, RefreshSteps, CallSteps, Ended
<1>4. MemoryTypeOK'
  BY SMTT(20) DEF EnvironmentTypeOK, StepsTypeOK, MemoryTypeOK, CallTypeOK
<1>5. CallTypeOK' /\ CallRight'
  BY SMTT(20) DEF StepsTypeOK, MemoryTypeOK, CallTypeOK, CallRight, Exchanges,
     ExitSteps, Leaving, Roles, Threads
<1>6. WatchNeverLost'
  BY SMTT(20) DEF StepsTypeOK, WatchTypeOK, WatchNeverLost, Threads, Ended
<1>7. OpenIsHeld'
  BY SMTT(20) DEF StepsTypeOK, MemoryTypeOK, OpenIsHeld
<1> QED
  BY <1>1, <1>2, <1>3, <1>4, <1>5, <1>6, <1>7, Zenon DEF TypeOK

LEMMA DropKeepsBase ==
  ASSUME Base, NEW t \in Threads, NEW r \in Roles, Drop(t, r)
  PROVE  Base'
<1> USE ClientAssumption DEF Base, TypeOK, Drop, Goto, Disconnect, Close, Crash, End, Lost,
        environment, watch, refreshed, memory, sockets, call
<1>1. EnvironmentTypeOK'
  BY SMTT(20) DEF EnvironmentTypeOK
<1>2. WatchTypeOK'
  BY Zenon DEF WatchTypeOK
<1>3. StepsTypeOK'
  BY SMTT(20) DEF StepsTypeOK, Roles, Threads, RefreshSteps, CallSteps, Ended
<1>4. MemoryTypeOK'
  BY SMTT(20) DEF EnvironmentTypeOK, StepsTypeOK, MemoryTypeOK, CallTypeOK
<1>5. CallTypeOK' /\ CallRight'
  BY SMTT(20) DEF StepsTypeOK, MemoryTypeOK, CallTypeOK, CallRight, Exchanges,
     ExitSteps, Leaving, Roles, Threads
<1>6. WatchNeverLost'
  BY SMTT(20) DEF StepsTypeOK, WatchTypeOK, WatchNeverLost, Threads, Ended
<1>7. OpenIsHeld'
  BY SMTT(20) DEF StepsTypeOK, MemoryTypeOK, OpenIsHeld
<1> QED
  BY <1>1, <1>2, <1>3, <1>4, <1>5, <1>6, <1>7, Zenon DEF TypeOK

LEMMA UnflagKeepsBase ==
  ASSUME Base, NEW t \in Threads, NEW r \in Roles, Unflag(t, r)
  PROVE  Base'
<1> USE ClientAssumption DEF Base, TypeOK, Unflag, Goto, AfterDrop, Finish, Unflagged,
        environment, watch, refreshed, memory, sockets, call
<1>1. EnvironmentTypeOK'
  BY SMTT(20) DEF EnvironmentTypeOK
<1>2. WatchTypeOK'
  BY Zenon DEF WatchTypeOK
<1>3. StepsTypeOK'
  BY SMTT(20) DEF StepsTypeOK, Roles, Threads, RefreshSteps, CallSteps, Ended
<1>4. MemoryTypeOK'
  BY SMTT(20) DEF EnvironmentTypeOK, StepsTypeOK, MemoryTypeOK, CallTypeOK
<1>5. CallTypeOK' /\ CallRight'
  BY SMTT(20) DEF StepsTypeOK, MemoryTypeOK, CallTypeOK, CallRight, Exchanges,
     ExitSteps, Leaving, Roles, Threads
<1>6. WatchNeverLost'
  BY SMTT(20) DEF StepsTypeOK, WatchTypeOK, WatchNeverLost, Threads, Ended
<1>7. OpenIsHeld'
  BY SMTT(20) DEF StepsTypeOK, MemoryTypeOK, OpenIsHeld
<1> QED
  BY <1>1, <1>2, <1>3, <1>4, <1>5, <1>6, <1>7, Zenon DEF TypeOK

LEMMA CommandKeepsBase ==
  ASSUME Base, Command
  PROVE  Base'
<1> USE ClientAssumption DEF Base, TypeOK, Command, Goto, AtPrompt,
        environment, watch, refreshed, memory, sockets, call
<1>1. EnvironmentTypeOK'
  BY SMTT(20) DEF EnvironmentTypeOK
<1>2. WatchTypeOK'
  BY Zenon DEF WatchTypeOK
<1>3. StepsTypeOK'
  BY SMTT(20) DEF StepsTypeOK, Roles, Threads, RefreshSteps, CallSteps, Ended
<1>4. MemoryTypeOK'
  BY SMTT(20) DEF EnvironmentTypeOK, StepsTypeOK, MemoryTypeOK, CallTypeOK
<1>5. CallTypeOK' /\ CallRight'
  BY CommandsTyped, SMTT(20) DEF StepsTypeOK, MemoryTypeOK, CallTypeOK, CallRight, Exchanges,
     ExitSteps, Leaving, Roles, Threads
<1>6. WatchNeverLost'
  BY SMTT(20) DEF StepsTypeOK, WatchTypeOK, WatchNeverLost, Threads, Ended
<1>7. OpenIsHeld'
  BY SMTT(20) DEF StepsTypeOK, MemoryTypeOK, OpenIsHeld
<1> QED
  BY <1>1, <1>2, <1>3, <1>4, <1>5, <1>6, <1>7, Zenon DEF TypeOK

LEMMA MistypedKeepsBase ==
  ASSUME Base, Mistyped
  PROVE  Base'
<1> USE ClientAssumption DEF Base, TypeOK, Mistyped, Crash, End,
        environment, watch, refreshed, memory, sockets, call
<1>1. EnvironmentTypeOK'
  BY SMTT(20) DEF EnvironmentTypeOK
<1>2. WatchTypeOK'
  BY Zenon DEF WatchTypeOK
<1>3. StepsTypeOK'
  BY SMTT(20) DEF StepsTypeOK, Roles, Threads, RefreshSteps, CallSteps, Ended
<1>4. MemoryTypeOK'
  BY SMTT(20) DEF EnvironmentTypeOK, StepsTypeOK, MemoryTypeOK, CallTypeOK
<1>5. CallTypeOK' /\ CallRight'
  BY SMTT(20) DEF StepsTypeOK, MemoryTypeOK, CallTypeOK, CallRight, Exchanges,
     ExitSteps, Leaving, Roles, Threads
<1>6. WatchNeverLost'
  BY SMTT(20) DEF StepsTypeOK, WatchTypeOK, WatchNeverLost, Threads, Ended
<1>7. OpenIsHeld'
  BY SMTT(20) DEF StepsTypeOK, MemoryTypeOK, OpenIsHeld
<1> QED
  BY <1>1, <1>2, <1>3, <1>4, <1>5, <1>6, <1>7, Zenon DEF TypeOK

LEMMA EvaluateKeepsBase ==
  ASSUME Base, Evaluate
  PROVE  Base'
<1> USE ClientAssumption DEF Base, TypeOK, Evaluate, Goto,
        environment, watch, refreshed, memory, sockets, call
<1>1. EnvironmentTypeOK'
  BY SMTT(20) DEF EnvironmentTypeOK
<1>2. WatchTypeOK'
  BY Zenon DEF WatchTypeOK
<1>3. StepsTypeOK'
  BY SMTT(20) DEF StepsTypeOK, Roles, Threads, RefreshSteps, CallSteps, Ended
<1>4. MemoryTypeOK'
  BY SMTT(20) DEF EnvironmentTypeOK, StepsTypeOK, MemoryTypeOK, CallTypeOK
<1>5. CallTypeOK' /\ CallRight'
  BY SMTT(20) DEF StepsTypeOK, MemoryTypeOK, CallTypeOK, CallRight, Exchanges,
     ExitSteps, Leaving, Roles, Threads
<1>6. WatchNeverLost'
  BY SMTT(20) DEF StepsTypeOK, WatchTypeOK, WatchNeverLost, Threads, Ended
<1>7. OpenIsHeld'
  BY SMTT(20) DEF StepsTypeOK, MemoryTypeOK, OpenIsHeld
<1> QED
  BY <1>1, <1>2, <1>3, <1>4, <1>5, <1>6, <1>7, Zenon DEF TypeOK

LEMMA UseAssociationKeepsBase ==
  ASSUME Base, UseAssociation
  PROVE  Base'
<1> USE ClientAssumption DEF Base, TypeOK, UseAssociation, Goto, Crash, End,
        environment, watch, refreshed, memory, sockets, call
<1>1. EnvironmentTypeOK'
  BY SMTT(20) DEF EnvironmentTypeOK
<1>2. WatchTypeOK'
  BY Zenon DEF WatchTypeOK
<1>3. StepsTypeOK'
  BY SMTT(20) DEF StepsTypeOK, Roles, Threads, RefreshSteps, CallSteps, Ended
<1>4. MemoryTypeOK'
  BY SMTT(20) DEF EnvironmentTypeOK, StepsTypeOK, MemoryTypeOK, CallTypeOK
<1>5. CallTypeOK' /\ CallRight'
  BY SMTT(20) DEF StepsTypeOK, MemoryTypeOK, CallTypeOK, CallRight, Exchanges,
     ExitSteps, Leaving, Roles, Threads
<1>6. WatchNeverLost'
  BY SMTT(20) DEF StepsTypeOK, WatchTypeOK, WatchNeverLost, Threads, Ended
<1>7. OpenIsHeld'
  BY SMTT(20) DEF StepsTypeOK, MemoryTypeOK, OpenIsHeld
<1> QED
  BY <1>1, <1>2, <1>3, <1>4, <1>5, <1>6, <1>7, Zenon DEF TypeOK

LEMMA WriteKeepsBase ==
  ASSUME Base, Write
  PROVE  Base'
<1> USE ClientAssumption DEF Base, TypeOK, Write, Goto, IsOpen,
        environment, watch, refreshed, memory, sockets, call
<1>1. EnvironmentTypeOK'
  BY SMTT(20) DEF EnvironmentTypeOK
<1>2. WatchTypeOK'
  BY Zenon DEF WatchTypeOK
<1>3. StepsTypeOK'
  BY SMTT(20) DEF StepsTypeOK, Roles, Threads, RefreshSteps, CallSteps, Ended
<1>4. MemoryTypeOK'
  BY SMTT(20) DEF EnvironmentTypeOK, StepsTypeOK, MemoryTypeOK, CallTypeOK
<1>5. CallTypeOK' /\ CallRight'
  BY SMTT(20) DEF StepsTypeOK, MemoryTypeOK, CallTypeOK, CallRight, Exchanges,
     ExitSteps, Leaving, Roles, Threads
<1>6. WatchNeverLost'
  BY SMTT(20) DEF StepsTypeOK, WatchTypeOK, WatchNeverLost, Threads, Ended
<1>7. OpenIsHeld'
  BY SMTT(20) DEF StepsTypeOK, MemoryTypeOK, OpenIsHeld
<1> QED
  BY <1>1, <1>2, <1>3, <1>4, <1>5, <1>6, <1>7, Zenon DEF TypeOK

LEMMA AnsweredKeepsBase ==
  ASSUME Base, Answered
  PROVE  Base'
<1> USE ClientAssumption DEF Base, TypeOK, Answered, Return, Goto,
        environment, watch, refreshed, memory, sockets, call
<1>1. EnvironmentTypeOK'
  BY SMTT(20) DEF EnvironmentTypeOK
<1>2. WatchTypeOK'
  BY Zenon DEF WatchTypeOK
<1>3. StepsTypeOK'
  BY SMTT(20) DEF StepsTypeOK, Roles, Threads, RefreshSteps, CallSteps, Ended
<1>4. MemoryTypeOK'
  BY SMTT(20) DEF EnvironmentTypeOK, StepsTypeOK, MemoryTypeOK, CallTypeOK
<1>5. CallTypeOK' /\ CallRight'
  BY RestTyped, SMTT(20) DEF StepsTypeOK, MemoryTypeOK, CallTypeOK, CallRight, Exchanges,
     ExitSteps, Leaving, Roles, Threads
<1>6. WatchNeverLost'
  BY SMTT(20) DEF StepsTypeOK, WatchTypeOK, WatchNeverLost, Threads, Ended
<1>7. OpenIsHeld'
  BY SMTT(20) DEF StepsTypeOK, MemoryTypeOK, OpenIsHeld
<1> QED
  BY <1>1, <1>2, <1>3, <1>4, <1>5, <1>6, <1>7, Zenon DEF TypeOK

LEMMA FailClosedKeepsBase ==
  ASSUME Base, FailClosed
  PROVE  Base'
<1> USE ClientAssumption DEF Base, TypeOK, FailClosed, Fail, Close, Return, Goto,
        environment, watch, refreshed, memory, sockets, call
<1>1. EnvironmentTypeOK'
  BY SMTT(20) DEF EnvironmentTypeOK
<1>2. WatchTypeOK'
  BY Zenon DEF WatchTypeOK
<1>3. StepsTypeOK'
  BY SMTT(20) DEF StepsTypeOK, Roles, Threads, RefreshSteps, CallSteps, Ended
<1>4. MemoryTypeOK'
  BY SMTT(20) DEF EnvironmentTypeOK, StepsTypeOK, MemoryTypeOK, CallTypeOK
<1>5. CallTypeOK' /\ CallRight'
  <2> DEFINE rest == IF Leaving THEN Tail(calls) ELSE <<>>
  <2>1. calls \in Seq(Exchanges) /\ calls # <<>> /\ ExitIsLast(calls) /\ at["main"] \notin ExitSteps
    BY SMTT(20) DEF CallTypeOK, CallRight, Exchanges, ExitSteps
  <2>2. rest \in Seq(Exchanges) /\ ExitIsLast(rest)
    <3>1. CASE Leaving
      BY <2>1, <3>1, RestTyped
    <3>2. CASE ~Leaving
      BY <3>2, EmptySeq DEF ExitIsLast
    <3> QED
      BY <3>1, <3>2
  <2> HIDE DEF rest
  <2>3. Return(rest)
    BY DEF rest
  <2>4. /\ calls' = rest /\ fd' = 0 /\ rtree' \in {NULL, rtree}
        /\ at'["main"] = IF rest = <<>> THEN <<"prompt">> ELSE <<"next">>
    BY <2>3, SMTT(20) DEF StepsTypeOK, Threads
  <2>5. at'["main"] \notin ExitSteps
    BY <2>4 DEF ExitSteps
  <2>6. at'["main"] \in {<<"next">>, <<"use">>, <<"write">>, <<"await">>} => rest # <<>>
    BY <2>4
  <2> QED
    BY <2>2, <2>4, <2>5, <2>6 DEF CallTypeOK, CallRight, Exchanges, NULL
<1>6. WatchNeverLost'
  BY SMTT(20) DEF StepsTypeOK, WatchTypeOK, WatchNeverLost, Threads, Ended
<1>7. OpenIsHeld'
  BY SMTT(20) DEF StepsTypeOK, MemoryTypeOK, OpenIsHeld
<1> QED
  BY <1>1, <1>2, <1>3, <1>4, <1>5, <1>6, <1>7, Zenon DEF TypeOK

LEMMA FailResetKeepsBase ==
  ASSUME Base, FailReset
  PROVE  Base'
<1> USE ClientAssumption DEF Base, TypeOK, FailReset, Fail, Close, Return, Goto,
        environment, watch, refreshed, memory, sockets, call
<1>1. EnvironmentTypeOK'
  BY SMTT(20) DEF EnvironmentTypeOK
<1>2. WatchTypeOK'
  BY Zenon DEF WatchTypeOK
<1>3. StepsTypeOK'
  BY SMTT(20) DEF StepsTypeOK, Roles, Threads, RefreshSteps, CallSteps, Ended
<1>4. MemoryTypeOK'
  BY SMTT(20) DEF EnvironmentTypeOK, StepsTypeOK, MemoryTypeOK, CallTypeOK
<1>5. CallTypeOK' /\ CallRight'
  <2> DEFINE rest == IF Leaving THEN Tail(calls) ELSE <<>>
  <2>1. calls \in Seq(Exchanges) /\ calls # <<>> /\ ExitIsLast(calls) /\ at["main"] \notin ExitSteps
    BY SMTT(20) DEF CallTypeOK, CallRight, Exchanges, ExitSteps
  <2>2. rest \in Seq(Exchanges) /\ ExitIsLast(rest)
    <3>1. CASE Leaving
      BY <2>1, <3>1, RestTyped
    <3>2. CASE ~Leaving
      BY <3>2, EmptySeq DEF ExitIsLast
    <3> QED
      BY <3>1, <3>2
  <2> HIDE DEF rest
  <2>3. Return(rest)
    BY DEF rest
  <2>4. /\ calls' = rest /\ fd' = 0 /\ rtree' \in {NULL, rtree}
        /\ at'["main"] = IF rest = <<>> THEN <<"prompt">> ELSE <<"next">>
    BY <2>3, SMTT(20) DEF StepsTypeOK, Threads
  <2>5. at'["main"] \notin ExitSteps
    BY <2>4 DEF ExitSteps
  <2>6. at'["main"] \in {<<"next">>, <<"use">>, <<"write">>, <<"await">>} => rest # <<>>
    BY <2>4
  <2> QED
    BY <2>2, <2>4, <2>5, <2>6 DEF CallTypeOK, CallRight, Exchanges, NULL
<1>6. WatchNeverLost'
  BY SMTT(20) DEF StepsTypeOK, WatchTypeOK, WatchNeverLost, Threads, Ended
<1>7. OpenIsHeld'
  BY SMTT(20) DEF StepsTypeOK, MemoryTypeOK, OpenIsHeld
<1> QED
  BY <1>1, <1>2, <1>3, <1>4, <1>5, <1>6, <1>7, Zenon DEF TypeOK

LEMMA BeginExitKeepsBase ==
  ASSUME Base, BeginExit
  PROVE  Base'
<1> USE ClientAssumption DEF Base, TypeOK, BeginExit, Goto,
        environment, watch, refreshed, memory, sockets, call
<1>1. EnvironmentTypeOK'
  BY SMTT(20) DEF EnvironmentTypeOK
<1>2. WatchTypeOK'
  BY Zenon DEF WatchTypeOK
<1>3. StepsTypeOK'
  BY SMTT(20) DEF StepsTypeOK, Roles, Threads, RefreshSteps, CallSteps, Ended
<1>4. MemoryTypeOK'
  BY SMTT(20) DEF EnvironmentTypeOK, StepsTypeOK, MemoryTypeOK, CallTypeOK
<1>5. CallTypeOK' /\ CallRight'
  BY RestTyped, SMTT(20) DEF StepsTypeOK, MemoryTypeOK, CallTypeOK, CallRight, Exchanges,
     ExitSteps, Leaving, Roles, Threads
<1>6. WatchNeverLost'
  BY SMTT(20) DEF StepsTypeOK, WatchTypeOK, WatchNeverLost, Threads, Ended
<1>7. OpenIsHeld'
  BY SMTT(20) DEF StepsTypeOK, MemoryTypeOK, OpenIsHeld
<1> QED
  BY <1>1, <1>2, <1>3, <1>4, <1>5, <1>6, <1>7, Zenon DEF TypeOK

LEMMA ExitKeepsBase ==
  ASSUME Base, NEW r \in Roles, Exit(r)
  PROVE  Base'
<1> USE ClientAssumption DEF Base, TypeOK, Exit, Goto, Disconnect, Close, Crash, End,
        environment, watch, refreshed, memory, sockets, call
<1>1. EnvironmentTypeOK'
  BY SMTT(20) DEF EnvironmentTypeOK
<1>2. WatchTypeOK'
  BY Zenon DEF WatchTypeOK
<1>3. StepsTypeOK'
  BY SMTT(20) DEF StepsTypeOK, Roles, Threads, RefreshSteps, CallSteps, Ended
<1>4. MemoryTypeOK'
  BY SMTT(20) DEF EnvironmentTypeOK, StepsTypeOK, MemoryTypeOK, CallTypeOK
<1>5. CallTypeOK' /\ CallRight'
  BY SMTT(20) DEF StepsTypeOK, MemoryTypeOK, CallTypeOK, CallRight, Exchanges,
     ExitSteps, Leaving, Roles, Threads
<1>6. WatchNeverLost'
  BY SMTT(20) DEF StepsTypeOK, WatchTypeOK, WatchNeverLost, Threads, Ended
<1>7. OpenIsHeld'
  BY SMTT(20) DEF StepsTypeOK, MemoryTypeOK, OpenIsHeld
<1> QED
  BY <1>1, <1>2, <1>3, <1>4, <1>5, <1>6, <1>7, Zenon DEF TypeOK

-----------------------------------------------------------------------------
(* Second part: a client that started before anything changed.             *)

\* What the thread that runs watch_children or child_watcher does next.
Step == IF Starting THEN at["main"] ELSE at["watcher"]

Alone == Starting => at["watcher"] = <<"idle">> /\ ~notified

\* Roles with an association in memory, if it could be made.
Held == {r \in Roles : Step = <<"flag", r>> \/ (r \in connected /\ Step # <<"unflag", r>>)}

MemoryRight ==
    /\ live \subseteq {assoc[r] : r \in Roles}
    /\ Step \notin Ended =>
        /\ live \subseteq {assoc[r] : r \in Held}
        /\ at["main"] \notin ExitSteps =>
              /\ live = {assoc[r] : r \in Held} \ {NULL}
              /\ Held = Roles /\ assoc["primary"] = assoc["backup"] => assoc["primary"] = NULL

\* What child_watcher has already done to the flags, and what it knows.
FlagsRight ==
    /\ Step = <<"list">> => exists = {}
    /\ Step \in {"get", "connect", "flag"} \X Roles => exists = Roles
    /\ Step \in {<<"connect", "backup">>, <<"flag", "backup">>} => "primary" \in connected
    /\ \A r \in Roles : Step = <<"unflag", r>> => r \notin exists
    /\ Step \in {<<"drop", "backup">>, <<"drop", "primary">>, <<"idle">>} /\ exists = Roles
            => connected = Roles
    /\ Step \in {<<"drop", "primary">>, <<"unflag", "primary">>, <<"idle">>}
            => "backup" \notin connected \ exists
    /\ Step = <<"idle">> => connected \subseteq exists
    /\ Step # <<"list">> /\ Step \notin Ended /\ watching => exists = Registered

Settled == world # "any" => Alone /\ MemoryRight /\ FlagsRight

\* A step of watch_children or child_watcher is the only one of its kind.
LEMMA Turn ==
  ASSUME StepsTypeOK, Alone, NEW t \in Threads, at[t] \in RefreshSteps,
         NEW x \in RefreshSteps, Goto(t, x)
  PROVE  /\ Step = at[t] /\ Step' = x
         /\ at'["main"] \in ExitSteps <=> at["main"] \in ExitSteps
BY SMTT(20) DEF Goto, Step, Starting, StepsTypeOK, Alone, Threads, RefreshSteps, Roles, ExitSteps

LEMMA LastTurn ==
  ASSUME StepsTypeOK, Alone, NEW t \in Threads, at[t] \in RefreshSteps, Finish(t)
  PROVE  /\ Step = at[t] /\ Step' = <<"idle">>
         /\ at'["main"] \in ExitSteps <=> at["main"] \in ExitSteps
BY SMTT(20) DEF Finish, Goto, Step, Starting, StepsTypeOK, Alone, Threads, RefreshSteps, Roles,
   ExitSteps

LEMMA StepsOf ==
  /\ <<"list">> \in RefreshSteps /\ <<"list">> \notin ExitSteps
  /\ \A k \in {"get", "connect", "flag", "drop", "unflag"}, r \in Roles : <<k, r>> \in RefreshSteps
<1>1. <<"list">> \in RefreshSteps /\ <<"list">> \notin ExitSteps
  BY DEF RefreshSteps, ExitSteps
<1>2. ASSUME NEW k \in {"get", "connect", "flag", "drop", "unflag"}, NEW r \in Roles
      PROVE  <<k, r>> \in RefreshSteps
  <2>1. <<k, r>> \in {"get", "connect", "flag", "drop", "unflag"} \X Roles
    OBVIOUS
  <2> QED
    BY <2>1, Zenon DEF RefreshSteps
<1> QED
  BY <1>1, <1>2

LEMMA ServerDiesKeepsSettled ==
  ASSUME Base, Settled, NEW s \in Servers, ServerDies(s)
  PROVE  Settled'
<1> USE DEF Base, TypeOK, StepsTypeOK, MemoryTypeOK, Settled, ServerDies, Count, MayDie, MayGo,
        MayCome, MayChange, environment, watch, refreshed, memory, sockets, call, Step, Starting
<1> SUFFICES ASSUME world # "any" PROVE Alone' /\ MemoryRight' /\ FlagsRight'
  OBVIOUS
<1>1. Alone'
  BY SMTT(20) DEF Alone, Threads, RefreshSteps, Roles
<1>2. MemoryRight'
  BY SMTT(20) DEF Alone, MemoryRight, Held, Threads, RefreshSteps, Roles, ExitSteps, Ended
<1>3. FlagsRight'
  BY SMTT(20) DEF Alone, FlagsRight, Registered, Threads, RefreshSteps, Roles, Ended
<1> QED
  BY <1>1, <1>2, <1>3

LEMMA NodeComesKeepsSettled ==
  ASSUME Base, Settled, NEW r \in Roles, NEW s \in Servers, NodeComes(r, s)
  PROVE  Settled'
<1> USE DEF Base, TypeOK, StepsTypeOK, MemoryTypeOK, Settled, NodeComes, Count, ChildrenChange,
        MayDie, MayGo, MayCome, MayChange, environment, watch, refreshed, memory, sockets, call,
        Step, Starting
<1> SUFFICES ASSUME world # "any" PROVE Alone' /\ MemoryRight' /\ FlagsRight'
  OBVIOUS
<1>1. Alone'
  BY SMTT(20) DEF Alone, Threads, RefreshSteps, Roles
<1>2. MemoryRight'
  BY SMTT(20) DEF Alone, MemoryRight, Held, Threads, RefreshSteps, Roles, ExitSteps, Ended
<1>3. FlagsRight'
  BY SMTT(20) DEF Alone, FlagsRight, Registered, Threads, RefreshSteps, Roles, Ended
<1> QED
  BY <1>1, <1>2, <1>3

LEMMA NodeGoesKeepsSettled ==
  ASSUME Base, Settled, NEW r \in Roles, NodeGoes(r)
  PROVE  Settled'
<1> USE DEF Base, TypeOK, StepsTypeOK, MemoryTypeOK, Settled, NodeGoes, Count, ChildrenChange,
        MayDie, MayGo, MayCome, MayChange, environment, watch, refreshed, memory, sockets, call,
        Step, Starting
<1> SUFFICES ASSUME world # "any" PROVE Alone' /\ MemoryRight' /\ FlagsRight'
  OBVIOUS
<1>1. Alone'
  BY SMTT(20) DEF Alone, Threads, RefreshSteps, Roles
<1>2. MemoryRight'
  BY SMTT(20) DEF Alone, MemoryRight, Held, Threads, RefreshSteps, Roles, ExitSteps, Ended
<1>3. FlagsRight'
  BY SMTT(20) DEF Alone, FlagsRight, Registered, Threads, RefreshSteps, Roles, Ended
<1> QED
  BY <1>1, <1>2, <1>3

LEMMA CalledKeepsSettled ==
  ASSUME Base, Settled, Called
  PROVE  Settled'
<1> USE DEF Base, TypeOK, StepsTypeOK, MemoryTypeOK, Settled, Called, Goto,
        environment, watch, refreshed, memory, sockets, call, Step, Starting
<1> SUFFICES ASSUME world # "any" PROVE Alone' /\ MemoryRight' /\ FlagsRight'
  OBVIOUS
<1>1. Alone'
  BY SMTT(20) DEF Alone, Threads, RefreshSteps, Roles
<1>2. MemoryRight'
  BY SMTT(20) DEF Alone, MemoryRight, Held, Threads, RefreshSteps, Roles, ExitSteps, Ended
<1>3. FlagsRight'
  BY SMTT(20) DEF Alone, FlagsRight, Registered, Threads, RefreshSteps, Roles, Ended
<1> QED
  BY <1>1, <1>2, <1>3

LEMMA SessionEventKeepsSettled ==
  ASSUME Base, Settled, SessionEvent
  PROVE  Settled'
<1> USE DEF Base, TypeOK, StepsTypeOK, MemoryTypeOK, Settled, SessionEvent,
        environment, watch, refreshed, memory, sockets, call, Step, Starting
<1> SUFFICES ASSUME world # "any" PROVE Alone' /\ MemoryRight' /\ FlagsRight'
  OBVIOUS
<1>1. Alone'
  BY SMTT(20) DEF Alone, Threads, RefreshSteps, Roles
<1>2. MemoryRight'
  BY SMTT(20) DEF Alone, MemoryRight, Held, Threads, RefreshSteps, Roles, ExitSteps, Ended
<1>3. FlagsRight'
  BY SMTT(20) DEF Alone, FlagsRight, Registered, Threads, RefreshSteps, Roles, Ended
<1> QED
  BY <1>1, <1>2, <1>3

LEMMA ListKeepsSettled ==
  ASSUME Base, Settled, NEW t \in Threads, List(t)
  PROVE  Settled'
<1> USE DEF Base, TypeOK, StepsTypeOK, MemoryTypeOK, Settled, List, Goto, SetsWatch, Registered,
        environment, watch, refreshed, memory, sockets, call, Step, Starting
<1> SUFFICES ASSUME world # "any" PROVE Alone' /\ MemoryRight' /\ FlagsRight'
  OBVIOUS
<1>1. Alone'
  BY SMTT(60) DEF Alone, Threads, RefreshSteps, Roles
<1>2. MemoryRight'
  <2>1. Step = <<"list">> /\ Step' \in {<<"get", "primary">>, <<"drop", "backup">>}
        /\ (at'["main"] \in ExitSteps <=> at["main"] \in ExitSteps)
    <3> HIDE DEF Step, Starting, Goto, Registered
    <3> DEFINE x == IF exists' = Roles THEN <<"get", "primary">> ELSE <<"drop", "backup">>
    <3>1. x \in RefreshSteps
      BY StepsOf DEF Roles
    <3> QED
      BY <3>1, StepsOf, Turn
  <2> HIDE DEF Step, Starting, Goto, Registered
  <2>2. Held' = Held /\ Step \notin Ended
    BY <2>1 DEF Held, Ended
  <2> QED
    BY <2>1, <2>2 DEF MemoryRight
<1>3. FlagsRight'
  <2> HIDE DEF Step, Starting, Goto, Registered
  <2> DEFINE x == IF exists' = Roles THEN <<"get", "primary">> ELSE <<"drop", "backup">>
  <2>1. x \in RefreshSteps
    BY StepsOf DEF Roles
  <2>2. Step = <<"list">> /\ Step' = x
    BY <2>1, StepsOf, Turn
  <2>3. Registered' = Registered /\ exists = {} /\ exists' = Registered
    BY <2>2 DEF FlagsRight, Registered
  <2> QED
    BY <2>2, <2>3, SMTT(20) DEF FlagsRight, Roles, Ended
<1> QED
  BY <1>1, <1>2, <1>3

LEMMA GetKeepsSettled ==
  ASSUME Base, Settled, NEW t \in Threads, NEW r \in Roles, Get(t, r)
  PROVE  Settled'
<1> USE DEF Base, TypeOK, StepsTypeOK, MemoryTypeOK, Settled, Get, Goto, Address,
        environment, watch, refreshed, memory, sockets, call, Step, Starting
<1> SUFFICES ASSUME world # "any" PROVE Alone' /\ MemoryRight' /\ FlagsRight'
  OBVIOUS
<1>1. Alone'
  BY SMTT(20) DEF Alone, Threads, RefreshSteps, Roles
<1>2. MemoryRight'
  BY SMTT(20) DEF Alone, MemoryRight, Held, Threads, RefreshSteps, Roles, ExitSteps, Ended
<1>3. FlagsRight'
  BY SMTT(20) DEF Alone, FlagsRight, Registered, Threads, RefreshSteps, Roles, Ended
<1> QED
  BY <1>1, <1>2, <1>3

LEMMA AlreadyConnectedKeepsSettled ==
  ASSUME Base, Settled, NEW t \in Threads, NEW r \in Roles, AlreadyConnected(t, r)
  PROVE  Settled'
<1> USE DEF Base, TypeOK, StepsTypeOK, MemoryTypeOK, Settled, AlreadyConnected, Goto, AfterConnect,
        environment, watch, refreshed, memory, sockets, call, Step, Starting
<1> SUFFICES ASSUME world # "any" PROVE Alone' /\ MemoryRight' /\ FlagsRight'
  OBVIOUS
<1>1. Alone'
  BY SMTT(20) DEF Alone, Threads, RefreshSteps, Roles
<1>2. MemoryRight'
  BY SMTT(20) DEF Alone, MemoryRight, Held, Threads, RefreshSteps, Roles, ExitSteps, Ended
<1>3. FlagsRight'
  <2> HIDE DEF Step, Starting, Goto
  <2>1. AfterConnect(r) \in RefreshSteps
    BY StepsOf DEF AfterConnect, Roles
  <2>2. Step = <<"connect", r>> /\ Step' = AfterConnect(r)
    BY <2>1, StepsOf, Turn
  <2>3. exists = Roles /\ (r = "backup" => "primary" \in connected)
    BY <2>2 DEF FlagsRight
  <2>4. r \in connected
    BY DEF NotConnected
  <2> QED
    <3>1. CASE r = "primary"
      BY <2>2, <2>3, <2>4, <3>1, SMTT(20) DEF FlagsRight, AfterConnect, Registered, Roles, Ended
    <3>2. CASE r = "backup"
      <4>1. connected' = Roles
        BY <2>3, <2>4, <3>2 DEF Roles
      <4> QED
        BY <2>2, <2>3, <3>2, <4>1, SMTT(20) DEF FlagsRight, AfterConnect, Registered, Ended
    <3> QED
      BY <3>1, <3>2 DEF Roles
<1> QED
  BY <1>1, <1>2, <1>3

LEMMA ConnectKeepsSettled ==
  ASSUME Base, Settled, NEW t \in Threads, NEW r \in Roles, Connect(t, r)
  PROVE  Settled'
<1> USE DEF Base, TypeOK, StepsTypeOK, MemoryTypeOK, Settled, Connect, Goto, Unallocated,
        environment, watch, refreshed, memory, sockets, call, Step, Starting
<1> SUFFICES ASSUME world # "any" PROVE Alone' /\ MemoryRight' /\ FlagsRight'
  OBVIOUS
<1>1. Alone'
  BY SMTT(20) DEF Alone, Threads, RefreshSteps, Roles
<1>2. MemoryRight'
  <2> HIDE DEF Step, Starting, Goto
  <2>1. /\ Step = <<"connect", r>> /\ Step' = <<"flag", r>>
        /\ at'["main"] \in ExitSteps <=> at["main"] \in ExitSteps
    BY StepsOf, Turn
  <2>2. PICK b \in Blocks \ live : live' = live \cup {b} /\ assoc' = [assoc EXCEPT ![r] = b]
    OBVIOUS
  <2>3. r \notin connected
    BY DEF NotConnected
  <2>4. Held = connected /\ Held' = connected \cup {r} /\ Step \notin Ended
    BY <2>1 DEF Held, Ended
  <2>5. b # NULL
    BY <2>2, ClientAssumption DEF Blocks, NULL
  <2>6. \A q \in Roles : assoc'[q] = IF q = r THEN b ELSE assoc[q]
    BY <2>2
  <2>7. ASSUME at'["main"] \notin ExitSteps
        PROVE  \A x : x \in live <=> x # NULL /\ \E q \in connected : x = assoc[q]
    <3>1. live = {assoc[q] : q \in Held} \ {NULL}
      BY <2>1, <2>4, <2>7, Zenon DEF MemoryRight
    <3> QED
      BY <2>4, <3>1
  <2>8. ASSUME at'["main"] \notin ExitSteps
        PROVE  live' = {assoc'[q] : q \in connected \cup {r}} \ {NULL}
    <3>1. \A x : x \in live' <=> x # NULL /\ \E q \in connected \cup {r} : x = assoc'[q]
      BY <2>2, <2>3, <2>5, <2>6, <2>7, <2>8
    <3> QED
      BY <3>1
  <2>9. ASSUME at'["main"] \notin ExitSteps, connected \cup {r} = Roles
        PROVE  assoc'["primary"] # assoc'["backup"]
    BY <2>2, <2>3, <2>5, <2>6, <2>7, <2>9 DEF Roles
  <2>10. live' \subseteq {assoc'[q] : q \in connected \cup {r}}
    <3>1. \A x \in live : \E q \in connected : x = assoc[q]
      BY <2>4 DEF MemoryRight
    <3> QED
      BY <2>2, <2>3, <2>6, <3>1
  <2>11. live' \subseteq {assoc'[q] : q \in Roles}
    BY <2>10
  <2> QED
    BY <2>4, <2>8, <2>9, <2>10, <2>11 DEF MemoryRight
<1>3. FlagsRight'
  BY SMTT(20) DEF Alone, FlagsRight, Registered, Threads, RefreshSteps, Roles, Ended
<1> QED
  BY <1>1, <1>2, <1>3

LEMMA ConnectFailsKeepsSettled ==
  ASSUME Base, Settled, NEW t \in Threads, NEW r \in Roles, ConnectFails(t, r)
  PROVE  Settled'
<1> USE DEF Base, TypeOK, StepsTypeOK, MemoryTypeOK, Settled, ConnectFails, Goto, Crash, End,
        environment, watch, refreshed, memory, sockets, call, Step, Starting
<1> SUFFICES ASSUME world # "any" PROVE Alone' /\ MemoryRight' /\ FlagsRight'
  OBVIOUS
<1>1. Alone'
  BY SMTT(20) DEF Alone, Threads, RefreshSteps, Roles
<1>2. MemoryRight'
  <2> HIDE DEF Step, Starting, Goto, Crash
  <2>1. CASE Crash
    <3>1. Step' \in Ended
      BY <2>1 DEF Crash, End, Step, Ended, Threads
    <3>2. live' \subseteq {assoc'[q] : q \in Roles}
      <4>1. \A x \in live : \E q \in connected : x = assoc[q]
        <5>1. Step \notin Ended /\ Held = connected
          BY DEF Held, Ended, Step, Starting, Alone, Threads, RefreshSteps
        <5> QED
          BY <5>1 DEF MemoryRight
      <4>2. \A q \in connected : assoc'[q] = assoc[q]
        BY DEF NotConnected
      <4> QED
        BY <4>1, <4>2
    <3> QED
      BY <3>1, <3>2 DEF MemoryRight
  <2>2. CASE Goto(t, <<"flag", r>>) /\ assoc' = [assoc EXCEPT ![r] = NULL]
    <3>1. /\ Step = <<"connect", r>> /\ Step' = <<"flag", r>>
          /\ at'["main"] \in ExitSteps <=> at["main"] \in ExitSteps
      BY <2>2, StepsOf, Turn
    <3>2. r \notin connected
      BY DEF NotConnected
    <3>3. Held = connected /\ Held' = connected \cup {r} /\ Step \notin Ended
      BY <3>1 DEF Held, Ended
    <3>4. \A q \in Roles : assoc'[q] = IF q = r THEN NULL ELSE assoc[q]
      BY <2>2
    <3>5. ASSUME at'["main"] \notin ExitSteps
          PROVE  \A x : x \in live <=> x # NULL /\ \E q \in connected : x = assoc[q]
      <4>1. live = {assoc[q] : q \in Held} \ {NULL}
        BY <3>1, <3>3, <3>5, Zenon DEF MemoryRight
      <4> QED
        BY <3>3, <4>1
    <3>6. ASSUME at'["main"] \notin ExitSteps
          PROVE  live' = {assoc'[q] : q \in connected \cup {r}} \ {NULL}
      BY <3>2, <3>4, <3>5, <3>6
    <3>7. assoc'["primary"] = assoc'["backup"] => assoc'["primary"] = NULL
      BY <3>4 DEF Roles
    <3>8. live' \subseteq {assoc'[q] : q \in connected \cup {r}}
      <4>1. \A x \in live : \E q \in connected : x = assoc[q]
        BY <3>3 DEF MemoryRight
      <4> QED
        BY <3>2, <3>4, <4>1
    <3>9. live' \subseteq {assoc'[q] : q \in Roles}
      BY <3>8
    <3> QED
      BY <3>3, <3>6, <3>7, <3>8, <3>9 DEF MemoryRight
  <2> QED
    BY <2>1, <2>2
<1>3. FlagsRight'
  BY SMTT(20) DEF Alone, FlagsRight, Registered, Threads, RefreshSteps, Roles, Ended
<1> QED
  BY <1>1, <1>2, <1>3

LEMMA FlagKeepsSettled ==
  ASSUME Base, Settled, NEW t \in Threads, NEW r \in Roles, Flag(t, r)
  PROVE  Settled'
<1> USE DEF Base, TypeOK, StepsTypeOK, MemoryTypeOK, Settled, Flag, Goto, AfterConnect,
        environment, watch, refreshed, memory, sockets, call, Step, Starting
<1> SUFFICES ASSUME world # "any" PROVE Alone' /\ MemoryRight' /\ FlagsRight'
  OBVIOUS
<1>1. Alone'
  BY SMTT(20) DEF Alone, Threads, RefreshSteps, Roles
<1>2. MemoryRight'
  BY SMTT(20) DEF Alone, MemoryRight, Held, Threads, RefreshSteps, Roles, ExitSteps, Ended
<1>3. FlagsRight'
  <2> HIDE DEF Step, Starting, Goto
  <2>1. AfterConnect(r) \in RefreshSteps
    BY StepsOf DEF AfterConnect, Roles
  <2>2. Step = <<"flag", r>> /\ Step' = AfterConnect(r)
    BY <2>1, StepsOf, Turn
  <2>3. exists = Roles /\ (r = "backup" => "primary" \in connected)
    BY <2>2 DEF FlagsRight
  <2> QED
    <3>1. CASE r = "primary"
      BY <2>2, <2>3, <3>1, SMTT(20) DEF FlagsRight, AfterConnect, Registered, Roles, Ended
    <3>2. CASE r = "backup"
      <4>1. connected' = Roles
        BY <2>3, <3>2 DEF Roles
      <4> QED
        BY <2>2, <2>3, <3>2, <4>1, SMTT(20) DEF FlagsRight, AfterConnect, Registered, Ended
    <3> QED
      BY <3>1, <3>2 DEF Roles
<1> QED
  BY <1>1, <1>2, <1>3

LEMMA KeepAssociationKeepsSettled ==
  ASSUME Base, Settled, NEW t \in Threads, NEW r \in Roles, KeepAssociation(t, r)
  PROVE  Settled'
<1> USE DEF Base, TypeOK, StepsTypeOK, MemoryTypeOK, Settled, KeepAssociation, Goto, AfterDrop,
        Finish, environment, watch, refreshed, memory, sockets, call, Step, Starting
<1> SUFFICES ASSUME world # "any" PROVE Alone' /\ MemoryRight' /\ FlagsRight'
  OBVIOUS
<1>1. Alone'
  BY SMTT(20) DEF Alone, Threads, RefreshSteps, Roles
<1>2. MemoryRight'
  BY SMTT(20) DEF Alone, MemoryRight, Held, Threads, RefreshSteps, Roles, ExitSteps, Ended
<1>3. FlagsRight'
  <2> HIDE DEF Step, Starting, Goto, Finish
  <2>1. /\ Step = <<"drop", r>>
        /\ Step' = IF r = "backup" THEN <<"drop", "primary">> ELSE <<"idle">>
    BY StepsOf, Turn, LastTurn DEF Roles
  <2>2. r \notin connected \ exists
    BY DEF Lost
  <2> QED
    BY <2>1, <2>2, SMTT(20) DEF FlagsRight, Registered, Roles, Ended
<1> QED
  BY <1>1, <1>2, <1>3

LEMMA DropKeepsSettled ==
  ASSUME Base, Settled, NEW t \in Threads, NEW r \in Roles, Drop(t, r)
  PROVE  Settled'
<1> USE DEF Base, TypeOK, StepsTypeOK, MemoryTypeOK, Settled, Drop, Goto, Disconnect, Close,
        Crash, End, Lost, environment, watch, refreshed, memory, sockets, call, Step, Starting
<1> SUFFICES ASSUME world # "any" PROVE Alone' /\ MemoryRight' /\ FlagsRight'
  OBVIOUS
<1>1. Alone'
  BY SMTT(20) DEF Alone, Threads, RefreshSteps, Roles
<1>2. MemoryRight'
  BY SMTT(20) DEF Alone, MemoryRight, Held, Threads, RefreshSteps, Roles, ExitSteps, Ended
<1>3. FlagsRight'
  BY SMTT(20) DEF Alone, FlagsRight, Registered, Threads, RefreshSteps, Roles, Ended
<1> QED
  BY <1>1, <1>2, <1>3

LEMMA UnflagKeepsSettled ==
  ASSUME Base, Settled, NEW t \in Threads, NEW r \in Roles, Unflag(t, r)
  PROVE  Settled'
<1> USE DEF Base, TypeOK, StepsTypeOK, MemoryTypeOK, Settled, Unflag, Goto, AfterDrop, Finish,
        Unflagged, environment, watch, refreshed, memory, sockets, call, Step, Starting
<1> SUFFICES ASSUME world # "any" PROVE Alone' /\ MemoryRight' /\ FlagsRight'
  OBVIOUS
<1>1. Alone'
  BY SMTT(20) DEF Alone, Threads, RefreshSteps, Roles
<1>2. MemoryRight'
  BY SMTT(20) DEF Alone, MemoryRight, Held, Threads, RefreshSteps, Roles, ExitSteps, Ended
<1>3. FlagsRight'
  BY SMTT(20) DEF Alone, FlagsRight, Registered, Threads, RefreshSteps, Roles, Ended
<1> QED
  BY <1>1, <1>2, <1>3

LEMMA CommandKeepsSettled ==
  ASSUME Base, Settled, Command
  PROVE  Settled'
<1> USE DEF Base, TypeOK, StepsTypeOK, MemoryTypeOK, Settled, Command, Goto, AtPrompt,
        environment, watch, refreshed, memory, sockets, call, Step, Starting
<1> SUFFICES ASSUME world # "any" PROVE Alone' /\ MemoryRight' /\ FlagsRight'
  OBVIOUS
<1>1. Alone'
  BY SMTT(20) DEF Alone, Threads, RefreshSteps, Roles
<1>2. MemoryRight'
  BY SMTT(20) DEF Alone, MemoryRight, Held, Threads, RefreshSteps, Roles, ExitSteps, Ended
<1>3. FlagsRight'
  BY SMTT(20) DEF Alone, FlagsRight, Registered, Threads, RefreshSteps, Roles, Ended
<1> QED
  BY <1>1, <1>2, <1>3

LEMMA MistypedKeepsSettled ==
  ASSUME Base, Settled, Mistyped
  PROVE  Settled'
<1> USE DEF Base, TypeOK, StepsTypeOK, MemoryTypeOK, Settled, Mistyped, Crash, End,
        environment, watch, refreshed, memory, sockets, call, Step, Starting
<1> SUFFICES ASSUME world # "any" PROVE Alone' /\ MemoryRight' /\ FlagsRight'
  OBVIOUS
<1>1. Alone'
  BY SMTT(20) DEF Alone, Threads, RefreshSteps, Roles
<1>2. MemoryRight'
  BY SMTT(20) DEF Alone, MemoryRight, Held, Threads, RefreshSteps, Roles, ExitSteps, Ended
<1>3. FlagsRight'
  BY SMTT(20) DEF Alone, FlagsRight, Registered, Threads, RefreshSteps, Roles, Ended
<1> QED
  BY <1>1, <1>2, <1>3

LEMMA EvaluateKeepsSettled ==
  ASSUME Base, Settled, Evaluate
  PROVE  Settled'
<1> USE DEF Base, TypeOK, StepsTypeOK, MemoryTypeOK, Settled, Evaluate, Goto,
        environment, watch, refreshed, memory, sockets, call, Step, Starting
<1> SUFFICES ASSUME world # "any" PROVE Alone' /\ MemoryRight' /\ FlagsRight'
  OBVIOUS
<1>1. Alone'
  BY SMTT(20) DEF Alone, Threads, RefreshSteps, Roles
<1>2. MemoryRight'
  BY SMTT(20) DEF Alone, MemoryRight, Held, Threads, RefreshSteps, Roles, ExitSteps, Ended
<1>3. FlagsRight'
  BY SMTT(20) DEF Alone, FlagsRight, Registered, Threads, RefreshSteps, Roles, Ended
<1> QED
  BY <1>1, <1>2, <1>3

LEMMA UseAssociationKeepsSettled ==
  ASSUME Base, Settled, UseAssociation
  PROVE  Settled'
<1> USE DEF Base, TypeOK, StepsTypeOK, MemoryTypeOK, Settled, UseAssociation, Goto, Crash, End,
        environment, watch, refreshed, memory, sockets, call, Step, Starting
<1> SUFFICES ASSUME world # "any" PROVE Alone' /\ MemoryRight' /\ FlagsRight'
  OBVIOUS
<1>1. Alone'
  BY SMTT(20) DEF Alone, Threads, RefreshSteps, Roles
<1>2. MemoryRight'
  BY SMTT(20) DEF Alone, MemoryRight, Held, Threads, RefreshSteps, Roles, ExitSteps, Ended
<1>3. FlagsRight'
  BY SMTT(20) DEF Alone, FlagsRight, Registered, Threads, RefreshSteps, Roles, Ended
<1> QED
  BY <1>1, <1>2, <1>3

LEMMA WriteKeepsSettled ==
  ASSUME Base, Settled, Write
  PROVE  Settled'
<1> USE DEF Base, TypeOK, StepsTypeOK, MemoryTypeOK, Settled, Write, Goto, IsOpen,
        environment, watch, refreshed, memory, sockets, call, Step, Starting
<1> SUFFICES ASSUME world # "any" PROVE Alone' /\ MemoryRight' /\ FlagsRight'
  OBVIOUS
<1>1. Alone'
  BY SMTT(20) DEF Alone, Threads, RefreshSteps, Roles
<1>2. MemoryRight'
  BY SMTT(20) DEF Alone, MemoryRight, Held, Threads, RefreshSteps, Roles, ExitSteps, Ended
<1>3. FlagsRight'
  BY SMTT(20) DEF Alone, FlagsRight, Registered, Threads, RefreshSteps, Roles, Ended
<1> QED
  BY <1>1, <1>2, <1>3

LEMMA AnsweredKeepsSettled ==
  ASSUME Base, Settled, Answered
  PROVE  Settled'
<1> USE DEF Base, TypeOK, StepsTypeOK, MemoryTypeOK, Settled, Answered, Return, Goto,
        environment, watch, refreshed, memory, sockets, call, Step, Starting
<1> SUFFICES ASSUME world # "any" PROVE Alone' /\ MemoryRight' /\ FlagsRight'
  OBVIOUS
<1>1. Alone'
  BY SMTT(20) DEF Alone, Threads, RefreshSteps, Roles
<1>2. MemoryRight'
  <2>1. /\ at' = [at EXCEPT !["main"] = at'["main"]]
        /\ at'["main"] \in {<<"prompt">>, <<"next">>}
    BY DEF Threads
  <2>2. at["main"] \notin RefreshSteps /\ at["main"] \notin ExitSteps
    BY DEF RefreshSteps, ExitSteps
  <2>3. at'["main"] \notin RefreshSteps /\ at'["watcher"] = at["watcher"]
    BY <2>1 DEF RefreshSteps, Threads
  <2>4. Step' = Step
    BY <2>2, <2>3
  <2>5. Held' = Held
    BY <2>4, Zenon DEF Held
  <2> HIDE DEF Step
  <2> QED
    BY <2>2, <2>4, <2>5 DEF MemoryRight
<1>3. FlagsRight'
  BY SMTT(20) DEF Alone, FlagsRight, Registered, Threads, RefreshSteps, Roles, Ended
<1> QED
  BY <1>1, <1>2, <1>3

LEMMA FailClosedKeepsSettled ==
  ASSUME Base, Settled, FailClosed
  PROVE  Settled'
<1> USE DEF Base, TypeOK, StepsTypeOK, MemoryTypeOK, Settled, FailClosed, Fail, Close, Return, Goto,
        environment, watch, refreshed, memory, sockets, call, Step, Starting
<1> SUFFICES ASSUME world # "any" PROVE Alone' /\ MemoryRight' /\ FlagsRight'
  OBVIOUS
<1>1. Alone'
  BY SMTT(20) DEF Alone, Threads, RefreshSteps, Roles
<1>2. MemoryRight'
  <2>1. /\ at' = [at EXCEPT !["main"] = at'["main"]]
        /\ at'["main"] \in {<<"prompt">>, <<"next">>}
    BY DEF Threads
  <2>2. at["main"] \notin RefreshSteps /\ at["main"] \notin ExitSteps
    BY DEF RefreshSteps, ExitSteps
  <2>3. at'["main"] \notin RefreshSteps /\ at'["watcher"] = at["watcher"]
    BY <2>1 DEF RefreshSteps, Threads
  <2>4. Step' = Step
    BY <2>2, <2>3
  <2>5. Held' = Held
    BY <2>4, Zenon DEF Held
  <2> HIDE DEF Step
  <2> QED
    BY <2>2, <2>4, <2>5 DEF MemoryRight
<1>3. FlagsRight'
  BY SMTT(20) DEF Alone, FlagsRight, Registered, Threads, RefreshSteps, Roles, Ended
<1> QED
  BY <1>1, <1>2, <1>3

LEMMA FailResetKeepsSettled ==
  ASSUME Base, Settled, FailReset
  PROVE  Settled'
<1> USE DEF Base, TypeOK, StepsTypeOK, MemoryTypeOK, Settled, FailReset, Fail, Close, Return, Goto,
        environment, watch, refreshed, memory, sockets, call, Step, Starting
<1> SUFFICES ASSUME world # "any" PROVE Alone' /\ MemoryRight' /\ FlagsRight'
  OBVIOUS
<1>1. Alone'
  BY SMTT(20) DEF Alone, Threads, RefreshSteps, Roles
<1>2. MemoryRight'
  <2>1. /\ at' = [at EXCEPT !["main"] = at'["main"]]
        /\ at'["main"] \in {<<"prompt">>, <<"next">>}
    BY DEF Threads
  <2>2. at["main"] \notin RefreshSteps /\ at["main"] \notin ExitSteps
    BY DEF RefreshSteps, ExitSteps
  <2>3. at'["main"] \notin RefreshSteps /\ at'["watcher"] = at["watcher"]
    BY <2>1 DEF RefreshSteps, Threads
  <2>4. Step' = Step
    BY <2>2, <2>3
  <2>5. Held' = Held
    BY <2>4, Zenon DEF Held
  <2> HIDE DEF Step
  <2> QED
    BY <2>2, <2>4, <2>5 DEF MemoryRight
<1>3. FlagsRight'
  BY SMTT(20) DEF Alone, FlagsRight, Registered, Threads, RefreshSteps, Roles, Ended
<1> QED
  BY <1>1, <1>2, <1>3

LEMMA BeginExitKeepsSettled ==
  ASSUME Base, Settled, BeginExit
  PROVE  Settled'
<1> USE DEF Base, TypeOK, StepsTypeOK, MemoryTypeOK, Settled, BeginExit, Goto,
        environment, watch, refreshed, memory, sockets, call, Step, Starting
<1> SUFFICES ASSUME world # "any" PROVE Alone' /\ MemoryRight' /\ FlagsRight'
  OBVIOUS
<1>1. Alone'
  BY SMTT(20) DEF Alone, Threads, RefreshSteps, Roles
<1>2. MemoryRight'
  BY SMTT(20) DEF Alone, MemoryRight, Held, Threads, RefreshSteps, Roles, ExitSteps, Ended
<1>3. FlagsRight'
  BY SMTT(20) DEF Alone, FlagsRight, Registered, Threads, RefreshSteps, Roles, Ended
<1> QED
  BY <1>1, <1>2, <1>3

LEMMA ExitKeepsSettled ==
  ASSUME Base, Settled, NEW r \in Roles, Exit(r)
  PROVE  Settled'
<1> USE DEF Base, TypeOK, StepsTypeOK, MemoryTypeOK, Settled, Exit, Goto, Disconnect, Close,
        Crash, End, environment, watch, refreshed, memory, sockets, call, Step, Starting
<1> SUFFICES ASSUME world # "any" PROVE Alone' /\ MemoryRight' /\ FlagsRight'
  OBVIOUS
<1>1. Alone'
  BY SMTT(20) DEF Alone, Threads, RefreshSteps, Roles
<1>2. MemoryRight'
  BY SMTT(20) DEF Alone, MemoryRight, Held, Threads, RefreshSteps, Roles, ExitSteps, Ended
<1>3. FlagsRight'
  BY SMTT(20) DEF Alone, FlagsRight, Registered, Threads, RefreshSteps, Roles, Ended
<1> QED
  BY <1>1, <1>2, <1>3

-----------------------------------------------------------------------------
LEMMA InitInv == Init => Base /\ Settled
<1> SUFFICES ASSUME Init PROVE Base /\ Settled
  OBVIOUS
<1> USE ClientAssumption DEF Init, Roles, Threads
<1>1. EnvironmentTypeOK /\ MemoryTypeOK
  BY DEF EnvironmentTypeOK, MemoryTypeOK, Blocks, FDs, NULL
<1>2. WatchTypeOK
  BY Zenon DEF WatchTypeOK
<1>3. StepsTypeOK
  BY DEF StepsTypeOK, RefreshSteps, CallSteps, Ended
<1>4. CallTypeOK /\ CallRight
  BY EmptySeq DEF CallTypeOK, CallRight, ExitIsLast, ExitSteps, NULL
<1>5. WatchNeverLost /\ OpenIsHeld
  BY DEF WatchNeverLost, OpenIsHeld
<1>6. Step = <<"list">>
  BY DEF Step, Starting, RefreshSteps
<1>7. Alone
  BY DEF Alone
<1>8. MemoryRight
  BY <1>6 DEF MemoryRight, Held
<1>9. FlagsRight
  BY <1>6 DEF FlagsRight
<1> QED
  BY <1>1, <1>2, <1>3, <1>4, <1>5, <1>7, <1>8, <1>9, Zenon DEF Base, TypeOK, Settled

LEMMA StutterKeepsInv == Base /\ Settled /\ UNCHANGED vars => Base' /\ Settled'
BY DEF vars, environment, watch, refreshed, memory, sockets, call, Base, TypeOK,
       EnvironmentTypeOK, WatchTypeOK, StepsTypeOK, MemoryTypeOK, CallTypeOK, CallRight, Leaving,
       WatchNeverLost, OpenIsHeld, Settled, Alone, MemoryRight, FlagsRight, Held, Registered,
       Step, Starting

LEMMA NextKeepsBase == Base /\ Next => Base'
BY ServerDiesKeepsBase, NodeComesKeepsBase, NodeGoesKeepsBase, CalledKeepsBase,
   SessionEventKeepsBase, ListKeepsBase, GetKeepsBase, AlreadyConnectedKeepsBase,
   ConnectKeepsBase, ConnectFailsKeepsBase, FlagKeepsBase, KeepAssociationKeepsBase,
   DropKeepsBase, UnflagKeepsBase, CommandKeepsBase, MistypedKeepsBase, EvaluateKeepsBase,
   UseAssociationKeepsBase, WriteKeepsBase, AnsweredKeepsBase, FailClosedKeepsBase,
   FailResetKeepsBase, BeginExitKeepsBase, ExitKeepsBase
   DEF Next, Watcher, Refresh, Exchange, Threads

LEMMA NextKeepsSettled == Base /\ Settled /\ Next => Settled'
BY ServerDiesKeepsSettled, NodeComesKeepsSettled, NodeGoesKeepsSettled, CalledKeepsSettled,
   SessionEventKeepsSettled, ListKeepsSettled, GetKeepsSettled,
   AlreadyConnectedKeepsSettled, ConnectKeepsSettled, ConnectFailsKeepsSettled,
   FlagKeepsSettled, KeepAssociationKeepsSettled, DropKeepsSettled, UnflagKeepsSettled,
   CommandKeepsSettled, MistypedKeepsSettled, EvaluateKeepsSettled,
   UseAssociationKeepsSettled, WriteKeepsSettled, AnsweredKeepsSettled,
   FailClosedKeepsSettled, FailResetKeepsSettled, BeginExitKeepsSettled, ExitKeepsSettled
   DEF Next, Watcher, Refresh, Exchange, Threads

LEMMA InvHolds == Spec => [](Base /\ Settled)
<1>1. Base /\ Settled /\ [Next]_vars => (Base /\ Settled)'
  BY NextKeepsBase, NextKeepsSettled, StutterKeepsInv
<1> QED
  BY <1>1, InitInv, PTL DEF Spec

-----------------------------------------------------------------------------
(* Third part: a client whose servers wait for it to finish.               *)

\* What can be left of a command.
Rests ==
    {<<>>, <<"exit">>, <<"same">>, <<"backup", "same">>, <<"primary">>, <<"backup">>,
     <<"backup", "exit">>, <<"primary", "backup", "exit">>}

InCall == at["main"] \in {<<"next">>, <<"use">>, <<"write">>, <<"await">>} \cup ExitSteps

\* A call is on its way into the association, and may make another exchange.
Busy == InCall /\ ~LastExchange

\* While the client refreshes, and while a call is made, all else waits.
WorldWaits ==
    /\ notified => at["watcher"] \in {<<"idle">>} \cup Ended
    /\ (Starting \/ ~WatcherIdle) /\ Registered = Roles => OwnersUp
    /\ InCall /\ Registered = Roles => WatcherIdle /\ connected = Roles
    /\ Busy => Registered = Roles
    /\ Leaving /\ at["main"] \notin Ended => OwnersUp /\ Busy

\* The addresses read are those of the nodes there are.
HostportRight ==
    /\ Step = <<"get", "backup">> => hostport["primary"] = node["primary"]
    /\ Step \in {"connect", "flag"} \X Roles => hostport = node

\* The association of a role in which it is connected is in memory, and a
\* connection of its own to the role's server, or closed since that died.
Linked(r) ==
    /\ assoc[r] \in live \/ (r = "primary" /\ at["main"] = <<"exit", "backup">>)
    /\ sockfd[assoc[r]] \in FDs
    /\ \A q \in Held : q # r => assoc[q] # assoc[r] /\ sockfd[assoc[q]] # sockfd[assoc[r]]
    /\ at["main"] \notin ExitSteps /\ node[r] # NoServer =>
          \/ socket[sockfd[assoc[r]]] = node[r]
          \/ socket[sockfd[assoc[r]]] = NoServer /\ node[r] \notin up

CallShape ==
    /\ calls \in Rests
    /\ at["main"] \in RefreshSteps \cup {<<"prompt">>} => calls = <<>>
    /\ at["main"] \in {<<"use">>, <<"write">>, <<"await">>} => Head(calls) # "exit"
    /\ at["main"] \in ExitSteps => calls = <<"exit">>
    /\ at["main"] = <<"next">> /\ calls = <<"same">> => rtree = assoc["backup"]
    /\ Busy /\ at["main"] \in {<<"use">>, <<"write">>, <<"await">>} => rtree = assoc[Target]
    /\ Busy /\ at["main"] \in {<<"write">>, <<"await">>} => fd = sockfd[rtree]
    /\ at["main"] = <<"await">> => fd \in FDs

Patient ==
    /\ WorldWaits /\ HostportRight /\ CallShape
    /\ \A r \in Held : Step \notin Ended => Linked(r)
    /\ at["main"] # <<"crashed">>

OrderlyInv == Orderly => Patient

LEMMA Appended ==
  ASSUME NEW s \in Seq(Exchanges), NEW e \in Exchanges, NEW t \in Seq(Exchanges),
         Len(t) = Len(s) + 1, t[Len(t)] = e, \A i \in 1..Len(s) : t[i] = s[i]
  PROVE  s \o <<e>> = t
<1> DEFINE u == <<e>>
           c == s \o u
<1>1. u \in Seq(Exchanges) /\ Len(u) = 1 /\ u[1] = e
  OBVIOUS
<1> HIDE DEF u
<1>2. c \in Seq(Exchanges) /\ Len(c) = Len(s) + 1 /\ Len(s) \in Nat
      /\ \A i \in 1..Len(s) + 1 : c[i] = IF i <= Len(s) THEN s[i] ELSE u[i - Len(s)]
  BY SMTT(20), <1>1, ConcatProperties
<1> HIDE DEF c
<1>3. \A i \in 1..Len(c) : c[i] = t[i]
  <2> SUFFICES ASSUME NEW i \in 1..Len(c) PROVE c[i] = t[i]
    OBVIOUS
  <2>1. CASE i \in 1..Len(s) BY <1>2, <2>1
  <2>2. CASE i = Len(s) + 1 BY <1>1, <1>2, <2>2
  <2> QED BY <1>2, <2>1, <2>2
<1>4. c = t
  BY <1>2, <1>3, SeqEqual
<1> QED
  BY <1>4 DEF c, u

LEMMA CommandFacts ==
  \A c \in Commands : c \in Rests /\ c # <<>> /\ Head(c) \notin {"same", "exit"}
<1> DEFINE E == {"primary", "backup", "same", "exit"}
<1>0. Exchanges = E
  BY DEF Exchanges, Roles
<1>1. <<"backup">> \o <<"same">> = <<"backup", "same">>
  <2> DEFINE s == <<"backup">>
             t == <<"backup", "same">>
  <2>1. s \in Seq(E) /\ t \in Seq(E) /\ "same" \in E
    OBVIOUS
  <2>2. Len(t) = Len(s) + 1 /\ t[Len(t)] = "same" /\ \A i \in 1..Len(s) : t[i] = s[i]
    OBVIOUS
  <2> HIDE DEF s, t, E
  <2>3. s \o <<"same">> = t
    BY <1>0, <2>1, <2>2, Appended
  <2> QED BY <2>3, Zenon DEF s, t
<1>2. <<"primary">> \o <<"backup">> = <<"primary", "backup">>
  <2> DEFINE s == <<"primary">>
             t == <<"primary", "backup">>
  <2>1. s \in Seq(E) /\ t \in Seq(E) /\ "backup" \in E
    OBVIOUS
  <2>2. Len(t) = Len(s) + 1 /\ t[Len(t)] = "backup" /\ \A i \in 1..Len(s) : t[i] = s[i]
    OBVIOUS
  <2> HIDE DEF s, t, E
  <2>3. s \o <<"backup">> = t
    BY <1>0, <2>1, <2>2, Appended
  <2> QED BY <2>3, Zenon DEF s, t
<1>3. <<"primary", "backup">> \o <<"exit">> = <<"primary", "backup", "exit">>
  <2> DEFINE s == <<"primary", "backup">>
             t == <<"primary", "backup", "exit">>
  <2>1. s \in Seq(E) /\ t \in Seq(E) /\ "exit" \in E
    OBVIOUS
  <2>2. Len(t) = Len(s) + 1 /\ t[Len(t)] = "exit" /\ \A i \in 1..Len(s) : t[i] = s[i]
    OBVIOUS
  <2> HIDE DEF s, t, E
  <2>3. s \o <<"exit">> = t
    BY <1>0, <2>1, <2>2, Appended
  <2> QED BY <2>3, Zenon DEF s, t
<1>4. Commands \subseteq {<<"primary">>, <<"backup">>, <<"backup", "same">>,
                          <<"primary", "backup", "exit">>}
  BY <1>1, <1>2, <1>3, Zenon DEF Commands, rtree_put, rtree_del, rtree_get, rtree_size,
     rtree_height,
                    rtree_get_keys, rtree_verify, rtree_quit
<1> QED
  BY <1>4 DEF Rests

LEMMA RestFacts ==
  ASSUME NEW c \in Rests, c # <<>>
  PROVE  /\ Tail(c) \in Rests
         /\ Head(c) \in Exchanges
         /\ Head(c) = "exit" => c = <<"exit">>
         /\ Tail(c) = <<"same">> => Head(c) = "backup"
         /\ Head(c) = "same" => c = <<"same">>
         /\ Len(c) = 1 <=> Tail(c) = <<>>
         /\ Tail(c) # <<>> => Last(Tail(c)) = Last(c)
         /\ Tail(c) # <<>> /\ Last(c) # "exit" => Tail(c) = <<"same">>
         /\ Last(c) = "exit" /\ Head(c) # "exit" => Tail(c) \notin {<<>>, <<"same">>}
<1> USE DEF Rests, Exchanges, Roles, Last
<1>1. CASE c = <<"exit">>
  BY <1>1
<1>2. CASE c = <<"same">>
  BY <1>2
<1>3. CASE c = <<"primary">>
  BY <1>3
<1>4. CASE c = <<"backup">>
  BY <1>4
<1>5. CASE c = <<"backup", "same">>
  <2>1. Tail(c) = <<"same">> /\ Head(c) = "backup" /\ Len(c) = 2 /\ Last(c) = "same"
    BY <1>5
  <2> QED BY <2>1
<1>6. CASE c = <<"backup", "exit">>
  <2>1. Tail(c) = <<"exit">> /\ Head(c) = "backup" /\ Len(c) = 2 /\ Last(c) = "exit"
    BY <1>6
  <2> QED BY <2>1
<1>7. CASE c = <<"primary", "backup", "exit">>
  <2>1. Tail(c) = <<"backup", "exit">> /\ Head(c) = "primary" /\ Len(c) = 3 /\ Last(c) = "exit"
    BY <1>7
  <2> QED BY <2>1
<1> QED
  BY <1>1, <1>2, <1>3, <1>4, <1>5, <1>6, <1>7

LEMMA CallTurn ==
  ASSUME StepsTypeOK, at["main"] \in CallSteps, NEW x \in CallSteps, Goto("main", x)
  PROVE  /\ ~Starting /\ ~Starting' /\ Step' = Step
         /\ at'["main"] = x /\ at'["watcher"] = at["watcher"]
BY SMTT(20) DEF Goto, Step, Starting, StepsTypeOK, Threads, RefreshSteps, CallSteps, Roles

\* Nothing is left to be told: the client knows who is registered.
LEMMA IdleFacts ==
  ASSUME Base, Settled, Orderly, ~Starting, WatcherIdle
  PROVE  /\ Step = <<"idle">> /\ watching /\ ~notified
         /\ exists = Registered /\ connected \subseteq Registered /\ Held = connected
<1>1. Step = <<"idle">> /\ ~notified /\ at["watcher"] = <<"idle">>
  BY DEF Step, WatcherIdle
<1>2. at["main"] # <<"list">>
  BY DEF Starting, RefreshSteps
<1>3. watching
  BY <1>1, <1>2 DEF Base, WatchNeverLost, Ended
<1>4. exists = Registered /\ connected \subseteq exists
  BY <1>1, <1>3 DEF Settled, FlagsRight, Orderly, Ended
<1>5. Held = connected
  BY <1>1 DEF Held, Base, TypeOK, MemoryTypeOK
<1> QED
  BY <1>1, <1>3, <1>4, <1>5

LEMMA BusyFacts ==
  ASSUME Base, Settled, Orderly, Patient, Busy
  PROVE  /\ WatcherIdle /\ ~Starting /\ Step = <<"idle">>
         /\ Registered = Roles /\ connected = Roles /\ Held = Roles
         /\ \A r \in Roles : Linked(r)
<1>1. Registered = Roles /\ WatcherIdle /\ connected = Roles
  BY Zenon DEF Patient, WorldWaits, Busy
<1>2. ~Starting
  BY DEF Busy, InCall, Starting, ExitSteps, RefreshSteps
<1>3. Step = <<"idle">> /\ Held = connected
  BY <1>1, <1>2, IdleFacts
<1> QED
  BY <1>1, <1>2, <1>3 DEF Patient, Ended

\* The client refreshes: it has read the list that still is, and if that
\* named both servers they are both there.
LEMMA RefreshFacts ==
  ASSUME Base, Settled, Orderly, Patient, NEW t \in Threads, at[t] \in RefreshSteps
  PROVE  /\ Step = at[t] /\ Step \notin Ended /\ ~Busy /\ ~notified
         /\ at["main"] \notin ExitSteps
         /\ Starting \/ ~WatcherIdle
         /\ InCall => Registered # Roles
         /\ Step # <<"list">> => exists = Registered
         /\ Step \in {"get", "connect", "flag"} \X Roles =>
               /\ Registered = Roles /\ exists = Roles /\ OwnersUp /\ ~InCall
<1>1. Step = at[t] /\ Step \notin Ended /\ (Starting \/ ~WatcherIdle)
  BY SMTT(20) DEF Settled, Orderly, Alone, Step, Starting, WatcherIdle, RefreshSteps, Ended, Threads
<1>2. Starting => at["watcher"] = <<"idle">> /\ ~notified
  BY DEF Settled, Orderly, Alone
<1>3. ~notified
  BY <1>1, <1>2 DEF Patient, WorldWaits, Step, Ended, RefreshSteps
<1>4. ~Busy
  BY <1>1, BusyFacts
<1>5. at["main"] \notin ExitSteps
  <2>1. LastExchange => at["main"] = <<"await">>
    BY DEF LastExchange
  <2> QED BY <1>4, <2>1 DEF Busy, InCall, ExitSteps
<1>6. InCall => ~Starting
  BY DEF InCall, Starting, ExitSteps, RefreshSteps
<1>7. InCall => Registered # Roles
  BY <1>1, <1>6 DEF Patient, WorldWaits
<1>8. Step # <<"list">> => watching
  <2>1. Starting => at["main"] = Step
    BY DEF Step
  <2>2. ~Starting => at["watcher"] = Step /\ at["main"] # <<"list">>
    BY DEF Step, Starting, RefreshSteps
  <2> QED BY <1>1, <1>2, <1>3, <2>1, <2>2 DEF Base, WatchNeverLost, Ended
<1>9. Step # <<"list">> => exists = Registered
  BY <1>1, <1>8 DEF Settled, Orderly, FlagsRight
<1>10. ASSUME Step \in {"get", "connect", "flag"} \X Roles
       PROVE  Registered = Roles /\ exists = Roles /\ OwnersUp /\ ~InCall
  <2>1. exists = Roles /\ Step # <<"list">>
    BY <1>10 DEF Settled, Orderly, FlagsRight
  <2> QED BY <1>1, <1>7, <1>9, <2>1 DEF Patient, WorldWaits
<1> QED
  BY <1>1, <1>3, <1>4, <1>5, <1>7, <1>9, <1>10

\* What a change of the servers leaves alone.
LEMMA ChangeFacts ==
  ASSUME Base, Settled, Orderly, Patient, ~Starting, WatcherIdle,
         UNCHANGED <<at, refreshed, memory, sockets, call>>
  PROVE  /\ ~Starting' /\ Step' = Step /\ Step = <<"idle">> /\ ~notified
         /\ Held' = Held /\ Held \subseteq Registered
         /\ (InCall' <=> InCall) /\ (Leaving' <=> Leaving)
         /\ HostportRight' /\ at'["main"] # <<"crashed">>
         /\ \A q \in Held : Linked(q)
<1>1. Step = <<"idle">> /\ ~notified /\ Held = connected /\ connected \subseteq Registered
  BY IdleFacts
<1>2. Step' = Step /\ ~Starting' /\ (InCall' <=> InCall) /\ (Leaving' <=> Leaving)
  BY DEF Step, Starting, InCall, Leaving, call
<1>3. Held' = Held
  BY <1>2 DEF Held, refreshed
<1>4. HostportRight'
  BY <1>1, <1>2 DEF HostportRight
<1> QED
  BY <1>1, <1>2, <1>3, <1>4 DEF Patient, Ended

LEMMA ServerDiesKeepsPatient ==
  ASSUME Base, Settled, Orderly, Patient, NEW s \in Servers, ServerDies(s)
  PROVE  Patient'
<1> USE DEF ServerDies, environment, watch, refreshed, memory, sockets, call
<1>1. ~Starting /\ WatcherIdle /\ ~Leaving /\ up' \subseteq up
  BY DEF MayDie, MayChange, Orderly
<1>2. /\ ~Starting' /\ Step' = Step /\ Step = <<"idle">> /\ ~notified /\ Held' = Held
      /\ (InCall' <=> InCall) /\ (Leaving' <=> Leaving)
      /\ HostportRight' /\ at'["main"] # <<"crashed">> /\ \A q \in Held : Linked(q)
  BY <1>1, ChangeFacts
<1>3. WatcherIdle' /\ Registered' = Registered
  BY <1>1 DEF WatcherIdle, Registered
<1>4. Busy' => Busy
  BY <1>1, <1>2 DEF Busy, LastExchange
<1>5. WorldWaits'
  BY <1>1, <1>2, <1>3, <1>4 DEF Patient, WorldWaits
<1>6. CallShape'
  BY <1>4 DEF Patient, CallShape, Target
<1>7. \A q \in Held' : Linked(q)'
  BY <1>1, <1>2 DEF Linked
<1> QED
  BY <1>2, <1>5, <1>6, <1>7 DEF Patient

LEMMA NodeComesKeepsPatient ==
  ASSUME Base, Settled, Orderly, Patient, NEW r \in Roles, NEW s \in Servers, NodeComes(r, s)
  PROVE  Patient'
<1> USE DEF NodeComes, environment, watch, refreshed, memory, sockets, call
<1>1. ~Starting /\ WatcherIdle /\ AtPrompt /\ OwnersUp
  BY DEF MayCome, MayChange, Orderly
<1>2. /\ ~Starting' /\ Step' = Step /\ Step = <<"idle">> /\ ~notified /\ Held' = Held
      /\ Held \subseteq Registered /\ (InCall' <=> InCall) /\ (Leaving' <=> Leaving)
      /\ HostportRight' /\ at'["main"] # <<"crashed">> /\ \A q \in Held : Linked(q)
  BY <1>1, ChangeFacts
<1>3. ~InCall /\ ~Busy' /\ ~Leaving
  BY <1>1, <1>2 DEF AtPrompt, InCall, Busy, ExitSteps, Patient, CallShape, Leaving
<1>4. OwnersUp'
  BY <1>1 DEF OwnersUp, Base, TypeOK, EnvironmentTypeOK
<1>5. at["watcher"] = <<"idle">>
  BY <1>1 DEF WatcherIdle
<1>6. WorldWaits'
  BY <1>2, <1>3, <1>4, <1>5 DEF WorldWaits
<1>7. CallShape'
  BY <1>1, <1>3 DEF Patient, CallShape, AtPrompt, RefreshSteps, ExitSteps
<1>8. \A q \in Held' : Linked(q)'
  <2>1. r \notin Held
    BY <1>2 DEF Registered
  <2> QED
    BY <1>2, <2>1 DEF Linked, Base, TypeOK, EnvironmentTypeOK
<1> QED
  BY <1>2, <1>6, <1>7, <1>8 DEF Patient

LEMMA NodeGoesKeepsPatient ==
  ASSUME Base, Settled, Orderly, Patient, NEW r \in Roles, NodeGoes(r)
  PROVE  Patient'
<1> USE DEF NodeGoes, environment, watch, refreshed, memory, sockets, call
<1>1. ~Starting /\ WatcherIdle /\ (AtPrompt \/ LastExchange) /\ at["main"] \notin Ended
  BY DEF MayGo, MayChange, Orderly
<1>2. /\ ~Starting' /\ Step' = Step /\ Step = <<"idle">> /\ ~notified /\ Held' = Held
      /\ (InCall' <=> InCall) /\ (Leaving' <=> Leaving)
      /\ HostportRight' /\ at'["main"] # <<"crashed">> /\ \A q \in Held : Linked(q)
  BY <1>1, ChangeFacts
<1>3. ~Busy /\ ~Busy'
  BY <1>1, <1>2 DEF AtPrompt, InCall, Busy, ExitSteps, LastExchange
<1>4. ~Leaving
  BY <1>1, <1>3 DEF Patient, WorldWaits
<1>5. Registered' # Roles
  BY DEF Registered, Base, TypeOK, EnvironmentTypeOK
<1>6. at["watcher"] = <<"idle">>
  BY <1>1 DEF WatcherIdle
<1>7. WorldWaits'
  BY <1>2, <1>3, <1>4, <1>5, <1>6 DEF WorldWaits
<1>8. CallShape'
  BY <1>3 DEF Patient, CallShape, Busy, InCall, LastExchange
<1>9. \A q \in Held' : Linked(q)'
  BY <1>2 DEF Linked, Base, TypeOK, EnvironmentTypeOK
<1> QED
  BY <1>2, <1>7, <1>8, <1>9 DEF Patient

LEMMA CalledKeepsPatient ==
  ASSUME Base, Settled, Orderly, Patient, Called
  PROVE  Patient'
<1> USE DEF Called, environment, memory, sockets, call
<1>1. notified /\ at["watcher"] = <<"idle">> /\ ~WatcherIdle
  BY DEF WatcherIdle
<1>2. ~Starting
  BY <1>1 DEF Settled, Orderly, Alone
<1>3. at'["main"] = at["main"] /\ at'["watcher"] = <<"list">> /\ ~notified'
  BY DEF Goto, Base, TypeOK, StepsTypeOK, Threads
<1>4. Step = <<"idle">> /\ Step' = <<"list">> /\ ~Starting' /\ ~WatcherIdle'
  BY <1>1, <1>2, <1>3 DEF Step, Starting, WatcherIdle
<1>5. /\ (InCall' <=> InCall) /\ (Busy' <=> Busy) /\ (Leaving' <=> Leaving)
      /\ Registered' = Registered /\ (OwnersUp' <=> OwnersUp)
  BY <1>3 DEF InCall, Busy, LastExchange, Leaving, Registered, OwnersUp
<1>6. WorldWaits'
  BY <1>1, <1>3, <1>4, <1>5 DEF Patient, WorldWaits
<1>7. HostportRight'
  BY <1>4 DEF HostportRight
<1>8. CallShape'
  BY <1>3, <1>5 DEF Patient, CallShape, Target
<1>9. Held' = Held
  BY <1>4 DEF Held
<1>10. \A q \in Held' : Linked(q)'
  BY <1>3, <1>4, <1>9 DEF Patient, Linked, Ended
<1> QED
  BY <1>3, <1>6, <1>7, <1>8, <1>10 DEF Patient

\* What the steps of watch_children and child_watcher have in common.
Moves(t) == Finish(t) \/ \E x \in RefreshSteps : Goto(t, x)

LEMMA MovesOf ==
  ASSUME StepsTypeOK, NEW t \in Threads, at[t] \in RefreshSteps, Moves(t)
  PROVE  \/ at'["main"] = at["main"]
         \/ /\ at["main"] \in RefreshSteps
            /\ at'["main"] \in RefreshSteps \cup {<<"prompt">>}
<1>1. CASE t = "main"
  BY <1>1, SMTT(20) DEF Moves, Finish, Goto, StepsTypeOK, Threads
<1>2. CASE t = "watcher"
  BY <1>2, SMTT(20) DEF Moves, Finish, Goto, StepsTypeOK, Threads
<1> QED
  BY <1>1, <1>2 DEF Threads

LEMMA RefreshWaits ==
  ASSUME Base, Settled, Orderly, Patient, NEW t \in Threads, at[t] \in RefreshSteps, Moves(t),
         UNCHANGED <<world, node, up, notified, call>>,
         ~InCall \/ \A f \in FDs : socket'[f] \in {socket[f], NoServer}
  PROVE  /\ WorldWaits' /\ CallShape'
         /\ at'["main"] \notin ExitSteps /\ at'["main"] # <<"crashed">>
<1>1. /\ ~Busy /\ ~notified /\ at["main"] \notin ExitSteps
      /\ Starting \/ ~WatcherIdle
      /\ InCall => Registered # Roles
  BY RefreshFacts
<1>2. \/ at'["main"] = at["main"]
      \/ /\ at["main"] \in RefreshSteps
         /\ at'["main"] \in RefreshSteps \cup {<<"prompt">>}
  BY MovesOf DEF Base, TypeOK
<1>3. InCall' <=> InCall
  BY <1>2 DEF InCall, ExitSteps, RefreshSteps
<1>4. at'["main"] \notin ExitSteps /\ at'["main"] # <<"crashed">>
  BY <1>1, <1>2 DEF ExitSteps, RefreshSteps, Patient
<1>5. at'["main"] \in Ended <=> at["main"] \in Ended
  BY <1>2 DEF Ended, RefreshSteps
<1>6. Registered' = Registered /\ (OwnersUp' <=> OwnersUp) /\ (Leaving' <=> Leaving)
  BY DEF Registered, OwnersUp, Leaving, call
<1>7. ~Busy'
  <2> SUFFICES ASSUME InCall PROVE LastExchange'
    BY <1>3 DEF Busy
  <2>1. LastExchange
    BY <1>1 DEF Busy
  <2>2. at'["main"] = <<"await">>
    BY <1>2, <2>1 DEF LastExchange, RefreshSteps
  <2>3. socket'[fd] \in {socket[fd], NoServer} \/ fd \notin FDs
    OBVIOUS
  <2>4. fd \in FDs
    BY <2>1 DEF Patient, CallShape, LastExchange
  <2>5. NoServer \notin up
    BY ClientAssumption DEF Base, TypeOK, EnvironmentTypeOK
  <2>6. up' = up /\ fd' = fd /\ calls' = calls
    BY DEF call
  <2>7. Len(calls) = 1 \/ socket[fd] \notin up
    BY <2>1 DEF LastExchange
  <2>8. Len(calls)' = 1 \/ socket[fd]' \notin up'
    BY <2>3, <2>4, <2>5, <2>6, <2>7
  <2> QED
    BY <2>2, <2>8 DEF LastExchange
<1>8. WorldWaits'
  BY <1>1, <1>3, <1>5, <1>6, <1>7 DEF Patient, WorldWaits
<1>9. CallShape'
  <2>1. calls' = calls /\ rtree' = rtree /\ fd' = fd /\ CallShape
    BY DEF call, Patient
  <2>2. at'["main"] = <<"next">> => Busy'
    BY DEF Busy, InCall, LastExchange
  <2>3. at'["main"] = at["main"] \/ (at["main"] \in RefreshSteps /\ calls = <<>>)
    BY <1>2, <2>1 DEF CallShape
  <2> QED
    BY <1>2, <1>4, <1>7, <2>1, <2>2, <2>3 DEF CallShape, RefreshSteps
<1> QED
  BY <1>4, <1>8, <1>9

LEMMA SameFunction ==
  ASSUME NEW S, NEW T, NEW f \in [S -> T], NEW g \in [S -> T], \A x \in S : f[x] = g[x]
  PROVE  f = g
OBVIOUS

LEMMA StillLinked ==
  ASSUME Base, Settled, Orderly, Patient, NEW t \in Threads, at[t] \in RefreshSteps, Moves(t),
         UNCHANGED <<node, up, assoc, live, sockfd, socket>>, Held' \subseteq Held
  PROVE  \A q \in Held' : Linked(q)'
<1>1. Step \notin Ended /\ at["main"] \notin ExitSteps
  BY RefreshFacts
<1>2. ASSUME NEW q \in Held' PROVE Linked(q)
  BY <1>1, <1>2 DEF Patient
<1> QED
  BY <1>1, <1>2 DEF Linked, ExitSteps

LEMMA ListKeepsPatient ==
  ASSUME Base, Settled, Orderly, Patient, NEW t \in Threads, List(t)
  PROVE  Patient'
<1> DEFINE x == IF exists' = Roles THEN <<"get", "primary">> ELSE <<"drop", "backup">>
<1>1. at[t] \in RefreshSteps /\ x \in RefreshSteps /\ Goto(t, x)
  BY StepsOf DEF List, Roles
<1>2. Moves(t) /\ Step = <<"list">> /\ Step' = x
  BY <1>1, Turn DEF List, Base, TypeOK, Settled, Orderly, Moves
<1>3. HostportRight'
  BY <1>2 DEF HostportRight
<1>4. Held' \subseteq Held
  BY <1>2 DEF Held, List, refreshed
<1> QED
  BY <1>1, <1>2, <1>3, <1>4, RefreshWaits, StillLinked
     DEF List, environment, memory, sockets, call, Patient

LEMMA GetKeepsPatient ==
  ASSUME Base, Settled, Orderly, Patient, NEW t \in Threads, NEW r \in Roles, Get(t, r)
  PROVE  Patient'
<1> DEFINE x == IF r = "primary" THEN <<"get", "backup">> ELSE <<"connect", "primary">>
<1>1. at[t] \in RefreshSteps /\ x \in RefreshSteps /\ Goto(t, x)
  BY StepsOf DEF Get, Roles
<1>2. Moves(t) /\ Step = <<"get", r>> /\ Step' = x
  BY <1>1, Turn DEF Get, Base, TypeOK, Settled, Orderly, Moves
<1>3. HostportRight'
  <2>1. \A q \in Roles : hostport'[q] = IF q = r THEN node[r] ELSE hostport[q]
    BY DEF Get, Address, Base, TypeOK, MemoryTypeOK
  <2>2. r = "backup" => hostport["primary"] = node["primary"]
    BY <1>2 DEF Patient, HostportRight
  <2>3. node' = node
    BY DEF Get, environment
  <2>4. r = "backup" => \A q \in Roles : hostport'[q] = node[q]
    BY <2>1, <2>2 DEF Roles
  <2>5. /\ hostport' \in [Roles -> Servers \cup {NoServer}]
        /\ node \in [Roles -> Servers \cup {NoServer}]
    BY DEF Get, Address, Base, TypeOK, MemoryTypeOK, EnvironmentTypeOK
  <2>6. ASSUME r = "backup" PROVE hostport' = node
    <3>1. \A q \in Roles : hostport'[q] = node[q]
      BY <2>4, <2>6
    <3> DEFINE V == Servers \cup {NoServer}
    <3>2. hostport' \in [Roles -> V] /\ node \in [Roles -> V]
      BY <2>5
    <3> HIDE DEF V
    <3> QED
      BY <3>1, <3>2, SameFunction
  <2>7. CASE r = "primary"
    BY <1>2, <2>1, <2>3, <2>7 DEF HostportRight
  <2>8. CASE r = "backup"
    BY <1>2, <2>6, <2>3, <2>8 DEF HostportRight
  <2> QED
    BY <2>7, <2>8 DEF Roles
<1>4. Held' \subseteq Held
  BY <1>2 DEF Held, Get
<1> QED
  BY <1>1, <1>2, <1>3, <1>4, RefreshWaits, StillLinked
     DEF Get, environment, watch, memory, sockets, call, Patient

LEMMA AlreadyConnectedKeepsPatient ==
  ASSUME Base, Settled, Orderly, Patient, NEW t \in Threads, NEW r \in Roles,
         AlreadyConnected(t, r)
  PROVE  Patient'
<1>1. at[t] \in RefreshSteps /\ AfterConnect(r) \in RefreshSteps /\ Goto(t, AfterConnect(r))
  BY StepsOf DEF AlreadyConnected, AfterConnect, Roles
<1>2. Moves(t) /\ Step = <<"connect", r>> /\ Step' = AfterConnect(r)
  BY <1>1, Turn DEF AlreadyConnected, Base, TypeOK, Settled, Orderly, Moves
<1>3. HostportRight'
  BY <1>2 DEF HostportRight, AfterConnect, Patient, AlreadyConnected, environment, refreshed
<1>4. Held' \subseteq Held
  BY <1>2 DEF Held, AfterConnect, AlreadyConnected, refreshed
<1> QED
  BY <1>1, <1>2, <1>3, <1>4, RefreshWaits, StillLinked
     DEF AlreadyConnected, environment, watch, memory, sockets, call, Patient

LEMMA FlagKeepsPatient ==
  ASSUME Base, Settled, Orderly, Patient, NEW t \in Threads, NEW r \in Roles, Flag(t, r)
  PROVE  Patient'
<1>1. at[t] \in RefreshSteps /\ AfterConnect(r) \in RefreshSteps /\ Goto(t, AfterConnect(r))
  BY StepsOf DEF Flag, AfterConnect, Roles
<1>2. Moves(t) /\ Step = <<"flag", r>> /\ Step' = AfterConnect(r)
  BY <1>1, Turn DEF Flag, Base, TypeOK, Settled, Orderly, Moves
<1>3. HostportRight'
  BY <1>2 DEF HostportRight, AfterConnect, Patient, Flag, environment
<1>4. Held' \subseteq Held
  BY <1>2 DEF Held, AfterConnect, Flag
<1> QED
  BY <1>1, <1>2, <1>3, <1>4, RefreshWaits, StillLinked
     DEF Flag, environment, watch, memory, sockets, call, Patient

LEMMA KeepAssociationKeepsPatient ==
  ASSUME Base, Settled, Orderly, Patient, NEW t \in Threads, NEW r \in Roles,
         KeepAssociation(t, r)
  PROVE  Patient'
<1>1. at[t] \in RefreshSteps /\ <<"drop", "primary">> \in RefreshSteps
  BY StepsOf DEF KeepAssociation, Roles
<1>2. Moves(t) /\ Step = <<"drop", r>> /\ Step' \in {<<"drop", "primary">>, <<"idle">>}
  BY <1>1, Turn, LastTurn
     DEF KeepAssociation, AfterDrop, Base, TypeOK, Settled, Orderly, Moves
<1>3. HostportRight'
  BY <1>2 DEF HostportRight
<1>4. Held' \subseteq Held
  BY <1>2 DEF Held, KeepAssociation, refreshed
<1> QED
  BY <1>1, <1>2, <1>3, <1>4, RefreshWaits, StillLinked
     DEF KeepAssociation, environment, watch, memory, sockets, call, Patient

LEMMA UnflagKeepsPatient ==
  ASSUME Base, Settled, Orderly, Patient, NEW t \in Threads, NEW r \in Roles, Unflag(t, r)
  PROVE  Patient'
<1>1. at[t] \in RefreshSteps /\ <<"drop", "primary">> \in RefreshSteps
  BY StepsOf DEF Unflag, Roles
<1>2. Moves(t) /\ Step = <<"unflag", r>> /\ Step' \in {<<"drop", "primary">>, <<"idle">>}
  BY <1>1, Turn, LastTurn DEF Unflag, AfterDrop, Base, TypeOK, Settled, Orderly, Moves
<1>3. HostportRight'
  BY <1>2 DEF HostportRight
<1>4. Held' \subseteq Held
  BY <1>2 DEF Held, Unflag, Unflagged
<1> QED
  BY <1>1, <1>2, <1>3, <1>4, RefreshWaits, StillLinked
     DEF Unflag, environment, watch, memory, sockets, call, Patient

LEMMA DropKeepsPatient ==
  ASSUME Base, Settled, Orderly, Patient, NEW t \in Threads, NEW r \in Roles, Drop(t, r)
  PROVE  Patient'
<1> DEFINE x == <<"unflag", r>>
<1>1. at[t] = <<"drop", r>> /\ at[t] \in RefreshSteps /\ x \in RefreshSteps
  BY StepsOf DEF Drop
<1>2. Step = <<"drop", r>> /\ Step \notin Ended /\ at["main"] \notin ExitSteps
  BY <1>1, RefreshFacts
<1>3. Held = connected /\ r \in connected
  BY <1>2 DEF Held, Drop, Lost, Base, TypeOK, MemoryTypeOK
<1>4. \A q \in Held : Linked(q)
  BY <1>2 DEF Patient
<1>5. assoc[r] \in live
  BY <1>2, <1>3, <1>4 DEF Linked, ExitSteps
<1>6. /\ Goto(t, x) /\ Close(sockfd[assoc[r]]) /\ live' = live \ {assoc[r]}
      /\ UNCHANGED <<world, node, up, notified, call, assoc, sockfd, connected>>
  BY <1>5 DEF Drop, Disconnect, environment, watch, refreshed
<1>7. Moves(t) /\ Step' = x
  BY <1>1, <1>6, Turn DEF Base, TypeOK, Settled, Orderly, Moves
<1>8. HostportRight'
  BY <1>7 DEF HostportRight
<1>9. \A f \in FDs : socket'[f] = IF f = sockfd[assoc[r]] THEN NoServer ELSE socket[f]
  BY <1>6 DEF Close
<1>10. WorldWaits' /\ CallShape' /\ at'["main"] \notin ExitSteps /\ at'["main"] # <<"crashed">>
  BY <1>1, <1>6, <1>7, <1>9, RefreshWaits
<1>11. Held' = Held \ {r}
  BY <1>3, <1>6, <1>7 DEF Held
<1>12. ASSUME NEW q \in Held' PROVE Linked(q)'
  <2>1. q \in Held /\ q # r /\ Linked(q)
    BY <1>4, <1>11
  <2>2. assoc[q] \in live /\ assoc[q] # assoc[r] /\ sockfd[assoc[q]] # sockfd[assoc[r]]
    BY <1>2, <1>3, <2>1 DEF Linked, ExitSteps
  <2>3. assoc'[q] = assoc[q] /\ sockfd' = sockfd /\ assoc[q] \in live'
    BY <1>6, <2>2
  <2>4. socket'[sockfd[assoc[q]]] = socket[sockfd[assoc[q]]] /\ sockfd[assoc[q]] \in FDs
    BY <1>9, <2>1, <2>2 DEF Linked
  <2> QED
    BY <1>2, <1>6, <1>10, <1>11, <2>1, <2>2, <2>3, <2>4 DEF Linked
<1> QED
  BY <1>8, <1>10, <1>12 DEF Patient

LEMMA ConnectKeepsPatient ==
  ASSUME Base, Base', Settled, Settled', Orderly, Patient,
         NEW t \in Threads, NEW r \in Roles, Connect(t, r)
  PROVE  Patient'
<1> DEFINE x == <<"flag", r>>
<1>1. at[t] = <<"connect", r>> /\ at[t] \in RefreshSteps /\ x \in RefreshSteps /\ Goto(t, x)
  BY StepsOf DEF Connect
<1>2. Moves(t) /\ Step = <<"connect", r>> /\ Step' = x
  BY <1>1, Turn DEF Base, TypeOK, Settled, Orderly, Moves
<1>3. /\ Step \notin Ended /\ at["main"] \notin ExitSteps
      /\ Registered = Roles /\ OwnersUp /\ ~InCall
  BY <1>1, <1>2, RefreshFacts
<1>4. r \notin connected /\ Held = connected /\ Held' = Held \cup {r}
  BY <1>2 DEF Held, Connect, NotConnected, Base, TypeOK, MemoryTypeOK, refreshed
<1>5. \A q \in Held : Linked(q)
  BY <1>3 DEF Patient
<1>6. PICK b \in Unallocated : /\ live' = live \cup {b}
                               /\ sockfd' = [sockfd EXCEPT ![b] = NextFD]
                               /\ assoc' = [assoc EXCEPT ![r] = b]
  BY DEF Connect
<1>7. /\ NextFD \in FDs /\ socket[NextFD] = NoServer
      /\ socket' = [socket EXCEPT ![NextFD] = node[r]]
  BY <1>2, NextFDFree DEF Connect, Patient, HostportRight
<1>8. b \in Blocks /\ b \notin live
  BY DEF Unallocated
<1>9. UNCHANGED <<world, node, up, notified, call>>
  BY DEF Connect, environment, watch
<1>10. WorldWaits' /\ CallShape' /\ at'["main"] \notin ExitSteps /\ at'["main"] # <<"crashed">>
  BY <1>1, <1>2, <1>3, <1>9, RefreshWaits
<1>11. HostportRight'
  BY <1>2, <1>9 DEF HostportRight, Patient, Connect, refreshed
<1>12. /\ assoc'[r] = b /\ sockfd'[b] = NextFD /\ socket'[NextFD] = node[r] /\ b \in live'
       /\ \A q \in Roles : q # r => assoc'[q] = assoc[q]
       /\ \A c \in Blocks : c # b => sockfd'[c] = sockfd[c]
       /\ \A f \in FDs : f # NextFD => socket'[f] = socket[f]
  BY <1>6, <1>7, <1>8 DEF Base, TypeOK, MemoryTypeOK
<1>13. ASSUME NEW q \in Held
       PROVE  /\ q \in Roles /\ q # r /\ assoc[q] \in live /\ assoc[q] \in Blocks /\ assoc[q] # b
              /\ sockfd[assoc[q]] \in FDs /\ socket[sockfd[assoc[q]]] = node[q]
              /\ sockfd[assoc[q]] # NextFD
  <2>1. q \in Roles /\ node[q] \in up /\ node[q] # NoServer
    BY <1>3, <1>4, <1>13 DEF Registered, OwnersUp, Base, TypeOK, MemoryTypeOK
  <2>2. assoc[q] \in live /\ assoc[q] \in Blocks
    BY <1>3, <1>5, <1>13 DEF Linked, ExitSteps, Base, TypeOK, MemoryTypeOK
  <2>3. sockfd[assoc[q]] \in FDs /\ socket[sockfd[assoc[q]]] = node[q]
    BY <1>3, <1>5, <1>13, <2>1 DEF Linked
  <2> QED
    BY <1>4, <1>7, <1>8, <1>13, <2>1, <2>2, <2>3
<1>14. Linked(r)'
  <2>1. \A q \in Held' : q # r => assoc'[q] # assoc'[r] /\ sockfd'[assoc'[q]] # sockfd'[assoc'[r]]
    BY <1>4, <1>12, <1>13
  <2> QED
    BY <1>7, <1>9, <1>12, <2>1 DEF Linked
<1>15. ASSUME NEW q \in Held PROVE Linked(q)'
  <2>1. /\ assoc'[q] = assoc[q] /\ sockfd'[assoc'[q]] = sockfd[assoc[q]]
        /\ socket'[sockfd'[assoc'[q]]] = node[q]
    BY <1>12, <1>13, <1>15
  <2>2. assoc'[q] \in live' /\ sockfd'[assoc'[q]] \in FDs
    BY <1>6, <1>13, <1>15, <2>1
  <2>3. ASSUME NEW p \in Held', p # q
        PROVE  assoc'[p] # assoc'[q] /\ sockfd'[assoc'[p]] # sockfd'[assoc'[q]]
    <3>1. CASE p = r
      BY <1>12, <1>13, <1>15, <2>1, <3>1
    <3>2. CASE p \in Held
      <4>1. assoc'[p] = assoc[p] /\ sockfd'[assoc'[p]] = sockfd[assoc[p]]
        BY <1>12, <1>13, <3>2
      <4>2. assoc[p] # assoc[q] /\ sockfd[assoc[p]] # sockfd[assoc[q]]
        BY <1>5, <1>15, <2>3, <3>2 DEF Linked
      <4> QED
        BY <2>1, <4>1, <4>2
    <3> QED
      BY <1>4, <2>3, <3>1, <3>2
  <2> QED
    BY <1>9, <2>1, <2>2, <2>3 DEF Linked
<1> QED
  BY <1>4, <1>10, <1>11, <1>14, <1>15 DEF Patient

\* The address read is that of a server that is there.
LEMMA NoConnectFails ==
  ASSUME Base, Settled, Orderly, Patient, NEW t \in Threads, NEW r \in Roles
  PROVE  ~ConnectFails(t, r)
<1> SUFFICES ASSUME ConnectFails(t, r) PROVE FALSE
  OBVIOUS
<1>1. at[t] = <<"connect", r>> /\ at[t] \in RefreshSteps
  BY StepsOf DEF ConnectFails
<1>2. Step = <<"connect", r>> /\ Registered = Roles /\ OwnersUp
  BY <1>1, RefreshFacts
<1>3. hostport[r] = node[r]
  BY <1>2 DEF Patient, HostportRight
<1>4. node[r] \in up
  BY <1>2 DEF Registered, OwnersUp
<1> QED
  BY <1>3, <1>4 DEF ConnectFails

\* What the steps of a call have in common.
LEMMA CallWaits ==
  ASSUME Base, Settled, Orderly, Patient, at["main"] \in CallSteps, at["main"] \notin ExitSteps,
         NEW x \in CallSteps, Goto("main", x), x # <<"exit", "backup">>,
         UNCHANGED <<world, node, up, notified, hostport, connected, memory>>,
         \A f \in FDs : socket'[f] # socket[f] => socket'[f] = NoServer /\ socket[f] \notin up
  PROVE  /\ at'["main"] = x /\ HostportRight' /\ x # <<"crashed">>
         /\ Registered' = Registered /\ (OwnersUp' <=> OwnersUp)
         /\ ~Starting /\ ~Starting' /\ (WatcherIdle' <=> WatcherIdle)
         /\ at'["watcher"] = at["watcher"]
         /\ \A q \in Held' : Step' \notin Ended => Linked(q)'
<1>1. /\ ~Starting /\ ~Starting' /\ Step' = Step
      /\ at'["main"] = x /\ at'["watcher"] = at["watcher"]
  BY CallTurn DEF Base, TypeOK
<1>2. HostportRight' /\ x # <<"crashed">>
  BY <1>1 DEF Patient, HostportRight, CallSteps
<1>3. Registered' = Registered /\ (OwnersUp' <=> OwnersUp) /\ (WatcherIdle' <=> WatcherIdle)
  BY <1>1 DEF Registered, OwnersUp, WatcherIdle
<1>4. Held' = Held
  BY <1>1 DEF Held
<1>5. ASSUME NEW q \in Held', Step' \notin Ended PROVE Linked(q)'
  <2>1. Linked(q) /\ assoc' = assoc /\ sockfd' = sockfd /\ live' = live
    BY <1>1, <1>4, <1>5 DEF Patient, memory
  <2>2. assoc[q] \in live /\ sockfd[assoc[q]] \in FDs
    BY <2>1 DEF Linked, ExitSteps
  <2>3. \A p \in Held' : p # q => assoc[p] # assoc[q] /\ sockfd[assoc[p]] # sockfd[assoc[q]]
    BY <1>4, <2>1 DEF Linked
  <2>4. node[q] # NoServer =>
           \/ socket[sockfd[assoc[q]]] = node[q]
           \/ socket[sockfd[assoc[q]]] = NoServer /\ node[q] \notin up
    BY <2>1 DEF Linked
  <2>5. node[q] # NoServer =>
           \/ socket'[sockfd[assoc[q]]] = node[q]
           \/ socket'[sockfd[assoc[q]]] = NoServer /\ node[q] \notin up
    BY <2>2, <2>4
  <2> QED
    BY <2>1, <2>2, <2>3, <2>5 DEF Linked
<1> QED
  BY <1>1, <1>2, <1>3, <1>5

\* The association of the exchange, and its connection.
LEMMA TargetFacts ==
  ASSUME Base, Settled, Orderly, Patient, Busy,
         at["main"] \in {<<"use">>, <<"write">>, <<"await">>}
  PROVE  /\ Target \in Roles /\ rtree = assoc[Target] /\ rtree \in live
         /\ at["main"] # <<"use">> => fd = sockfd[rtree]
         /\ node[Target] # NoServer
         /\ \/ socket[sockfd[rtree]] = node[Target]
            \/ socket[sockfd[rtree]] = NoServer /\ node[Target] \notin up
<1>1. calls \in Rests /\ calls # <<>> /\ Head(calls) # "exit"
  BY DEF Patient, CallShape, Base, TypeOK, CallTypeOK
<1>2. Target \in Roles
  BY <1>1, RestFacts DEF Target, Exchanges, Roles
<1>3. Linked(Target) /\ node[Target] # NoServer
  BY <1>2, BusyFacts DEF Registered
<1>4. rtree = assoc[Target] /\ (at["main"] # <<"use">> => fd = sockfd[rtree])
  BY DEF Patient, CallShape
<1>5. at["main"] \notin ExitSteps
  BY DEF ExitSteps
<1> QED
  BY <1>2, <1>3, <1>4, <1>5 DEF Linked, ExitSteps

LEMMA CommandKeepsPatient ==
  ASSUME Base, Base', Settled, Orderly, Patient, Command
  PROVE  Patient'
<1>1. /\ at["main"] = <<"prompt">> /\ Goto("main", <<"next">>) /\ connected = Roles
      /\ UNCHANGED <<world, node, up, notified, hostport, connected, memory, sockets>>
  BY DEF Command, AtPrompt, podesEscrever, environment, watch, refreshed
<1>2. PICK c \in Commands : MayType(c) /\ calls' = c
  BY DEF Command
<1>3. <<"next">> \in CallSteps /\ <<"prompt">> \in CallSteps /\ at["main"] \notin ExitSteps
  BY <1>1 DEF CallSteps, ExitSteps
<1>4. /\ at'["main"] = <<"next">> /\ HostportRight' /\ Registered' = Registered
      /\ (OwnersUp' <=> OwnersUp) /\ ~Starting /\ ~Starting' /\ (WatcherIdle' <=> WatcherIdle)
      /\ \A q \in Held' : Step' \notin Ended => Linked(q)'
  BY <1>1, <1>3, CallWaits DEF sockets
<1>5. WatcherIdle /\ (Last(c) = "exit" => OwnersUp)
  BY <1>2 DEF MayType, Orderly
<1>6. Registered = Roles /\ ~notified
  BY <1>1, <1>4, <1>5, IdleFacts DEF Registered
<1>7. Busy'
  BY <1>4 DEF Busy, InCall, LastExchange
<1>8. WorldWaits'
  BY <1>1, <1>2, <1>4, <1>5, <1>6, <1>7 DEF WorldWaits, Leaving
<1>9. CallShape'
  BY <1>2, <1>4, CommandFacts DEF CallShape, RefreshSteps, ExitSteps
<1> QED
  BY <1>4, <1>8, <1>9 DEF Patient

LEMMA EvaluateKeepsPatient ==
  ASSUME Base, Base', Settled, Orderly, Patient, Evaluate
  PROVE  Patient'
<1>1. /\ at["main"] = <<"next">> /\ Goto("main", <<"use">>) /\ Head(calls) # "exit"
      /\ UNCHANGED <<world, node, up, notified, hostport, connected, memory, sockets, calls, fd>>
  BY DEF Evaluate, environment, watch, refreshed
<1>2. /\ <<"next">> \in CallSteps /\ <<"use">> \in CallSteps /\ at["main"] \notin ExitSteps
  BY <1>1 DEF CallSteps, ExitSteps
<1>3. /\ at'["main"] = <<"use">> /\ HostportRight' /\ Registered' = Registered
      /\ (OwnersUp' <=> OwnersUp) /\ ~Starting /\ ~Starting' /\ (WatcherIdle' <=> WatcherIdle)
      /\ \A q \in Held' : Step' \notin Ended => Linked(q)'
  BY <1>1, <1>2, CallWaits DEF sockets
<1>4. Busy /\ Busy'
  BY <1>1, <1>3 DEF Busy, InCall, LastExchange
<1>5. WatcherIdle /\ Registered = Roles /\ connected = Roles /\ ~notified
  BY <1>4, BusyFacts DEF WatcherIdle
<1>6. WorldWaits'
  BY <1>1, <1>3, <1>4, <1>5 DEF Patient, WorldWaits, Leaving, Ended
<1>7. CallShape'
  <2>1. calls \in Rests /\ calls # <<>>
    BY <1>1 DEF Patient, CallShape, Base, TypeOK, CallTypeOK
  <2>2. rtree' = assoc[Target]
    <3>1. CASE Head(calls) = "same"
      <4>1. calls = <<"same">>
        BY <2>1, <3>1, RestFacts
      <4> QED
        BY <1>1, <3>1, <4>1 DEF Evaluate, Target, Patient, CallShape
    <3>2. CASE Head(calls) # "same"
      BY <3>2 DEF Evaluate, Target
    <3> QED BY <3>1, <3>2
  <2>3. Target' = Target /\ assoc' = assoc
    BY <1>1 DEF Target, memory
  <2> QED
    BY <1>1, <1>3, <2>1, <2>2, <2>3 DEF CallShape, RefreshSteps, ExitSteps
<1> QED
  BY <1>3, <1>6, <1>7 DEF Patient

LEMMA UseAssociationKeepsPatient ==
  ASSUME Base, Base', Settled, Orderly, Patient, UseAssociation
  PROVE  Patient'
<1>1. /\ at["main"] = <<"use">>
      /\ UNCHANGED <<world, node, up, notified, hostport, connected, memory, sockets, calls, rtree>>
  BY DEF UseAssociation, environment, watch, refreshed
<1>2. Busy
  BY <1>1 DEF Busy, InCall, LastExchange
<1>3. rtree = assoc[Target] /\ rtree \in live
  BY <1>1, <1>2, TargetFacts
<1>4. rtree # NULL
  BY <1>3, ClientAssumption DEF Base, TypeOK, MemoryTypeOK, Blocks, NULL
<1>5. fd' = sockfd[rtree] /\ Goto("main", <<"write">>)
  BY <1>3, <1>4 DEF UseAssociation
<1>6. <<"use">> \in CallSteps /\ <<"write">> \in CallSteps /\ at["main"] \notin ExitSteps
  BY <1>1 DEF CallSteps, ExitSteps
<1>7. /\ at'["main"] = <<"write">> /\ HostportRight' /\ Registered' = Registered
      /\ (OwnersUp' <=> OwnersUp) /\ ~Starting /\ ~Starting' /\ (WatcherIdle' <=> WatcherIdle)
      /\ \A q \in Held' : Step' \notin Ended => Linked(q)'
  BY <1>1, <1>5, <1>6, CallWaits DEF sockets
<1>8. Busy'
  BY <1>7 DEF Busy, InCall, LastExchange
<1>9. WatcherIdle /\ Registered = Roles /\ connected = Roles /\ ~notified
  BY <1>2, BusyFacts DEF WatcherIdle
<1>10. WorldWaits'
  BY <1>1, <1>7, <1>8, <1>9 DEF Patient, WorldWaits, Leaving, Ended
<1>11. CallShape'
  <2>1. Target' = Target /\ assoc' = assoc /\ sockfd' = sockfd /\ CallShape
    BY <1>1 DEF Target, memory, Patient
  <2> QED
    BY <1>1, <1>3, <1>5, <1>7, <2>1 DEF CallShape, RefreshSteps, ExitSteps
<1> QED
  BY <1>7, <1>10, <1>11 DEF Patient

\* While the command is quit the servers stay: there is always an answer.
LEMMA LeavingFacts ==
  ASSUME Base, Settled, Orderly, Patient, Leaving,
         at["main"] \in {<<"write">>, <<"await">>}
  PROVE  socket[fd] \in up /\ socket[fd] # NoServer /\ fd \in FDs
<1>1. OwnersUp /\ Busy
  BY DEF Patient, WorldWaits, Ended
<1>2. /\ Target \in Roles /\ fd = sockfd[rtree] /\ node[Target] # NoServer
      /\ rtree = assoc[Target]
      /\ \/ socket[fd] = node[Target]
         \/ socket[fd] = NoServer /\ node[Target] \notin up
  BY <1>1, TargetFacts
<1>3. node[Target] \in up
  BY <1>1, <1>2 DEF OwnersUp
<1>4. fd \in FDs
  BY <1>1, <1>2, BusyFacts DEF Linked
<1> QED
  BY <1>2, <1>3, <1>4

LEMMA WriteKeepsPatient ==
  ASSUME Base, Base', Settled, Orderly, Patient, Write
  PROVE  Patient'
<1>1. /\ at["main"] = <<"write">> /\ Goto("main", <<"await">>) /\ fd \in FDs
      /\ UNCHANGED <<world, node, up, notified, hostport, connected, memory, socket, call>>
  BY DEF Write, IsOpen, environment, watch, refreshed, Base, TypeOK, CallTypeOK
<1>2. <<"write">> \in CallSteps /\ <<"await">> \in CallSteps /\ at["main"] \notin ExitSteps
  BY <1>1 DEF CallSteps, ExitSteps
<1>3. /\ at'["main"] = <<"await">> /\ HostportRight' /\ Registered' = Registered
      /\ (OwnersUp' <=> OwnersUp) /\ ~Starting /\ ~Starting' /\ (WatcherIdle' <=> WatcherIdle)
      /\ \A q \in Held' : Step' \notin Ended => Linked(q)'
  BY <1>1, <1>2, CallWaits
<1>4. Busy
  BY <1>1 DEF Busy, InCall, LastExchange
<1>5. WatcherIdle /\ Registered = Roles /\ connected = Roles /\ ~notified
  BY <1>4, BusyFacts DEF WatcherIdle
<1>6. calls \in Rests /\ calls # <<>> /\ Head(calls) # "exit"
  BY <1>1 DEF Patient, CallShape, Base, TypeOK, CallTypeOK
<1>7. ASSUME Leaving PROVE Busy'
  <2>1. socket[fd] \in up
    BY <1>1, <1>7, LeavingFacts
  <2>2. Len(calls) # 1
    BY <1>6, <1>7, RestFacts DEF Leaving
  <2>3. fd' = fd /\ calls' = calls /\ socket' = socket /\ up' = up
    BY <1>1 DEF call
  <2>4. ~LastExchange'
    BY <2>1, <2>2, <2>3 DEF LastExchange
  <2> QED
    BY <1>3, <2>4 DEF Busy, InCall
<1>8. Leaving' <=> Leaving
  BY <1>1 DEF Leaving, call
<1>9. WorldWaits'
  BY <1>1, <1>3, <1>5, <1>7, <1>8 DEF Patient, WorldWaits, Ended
<1>10. CallShape'
  <2>1. /\ Target' = Target /\ assoc' = assoc /\ sockfd' = sockfd /\ CallShape
        /\ calls' = calls /\ rtree' = rtree /\ fd' = fd
    BY <1>1 DEF Target, memory, Patient, call
  <2> QED
    BY <1>1, <1>3, <1>4, <2>1 DEF CallShape, RefreshSteps, ExitSteps
<1> QED
  BY <1>3, <1>9, <1>10 DEF Patient

LEMMA AnsweredKeepsPatient ==
  ASSUME Base, Base', Settled, Orderly, Patient, Answered
  PROVE  Patient'
<1> DEFINE x == IF Tail(calls) = <<>> THEN <<"prompt">> ELSE <<"next">>
<1>1. /\ at["main"] = <<"await">> /\ Goto("main", x) /\ socket[fd] \in up
      /\ calls' = Tail(calls)
      /\ UNCHANGED <<world, node, up, notified, hostport, connected, memory, socket>>
  BY DEF Answered, Return, environment, watch, refreshed
<1>2. <<"await">> \in CallSteps /\ x \in CallSteps /\ at["main"] \notin ExitSteps
      /\ x # <<"exit", "backup">>
  BY <1>1 DEF CallSteps, ExitSteps
<1>3. /\ at'["main"] = x /\ HostportRight' /\ Registered' = Registered
      /\ (OwnersUp' <=> OwnersUp) /\ ~Starting /\ ~Starting' /\ (WatcherIdle' <=> WatcherIdle)
      /\ \A q \in Held' : Step' \notin Ended => Linked(q)'
  BY <1>1, <1>2, CallWaits
<1>4. calls \in Rests /\ calls # <<>> /\ Head(calls) # "exit"
  BY <1>1 DEF Patient, CallShape, Base, TypeOK, CallTypeOK
<1>5. /\ Tail(calls) \in Rests
      /\ Tail(calls) = <<"same">> => Head(calls) = "backup"
      /\ Len(calls) = 1 <=> Tail(calls) = <<>>
      /\ Tail(calls) # <<>> => Last(Tail(calls)) = Last(calls)
  BY <1>4, RestFacts
<1>6. CASE Tail(calls) = <<>>
  <2>1. at'["main"] = <<"prompt">> /\ ~InCall' /\ ~Busy' /\ ~Leaving'
    BY <1>1, <1>3, <1>6 DEF InCall, Busy, Leaving, ExitSteps
  <2>2. WorldWaits'
    BY <1>1, <1>3, <2>1 DEF Patient, WorldWaits, StepsTypeOK, Goto, Base, TypeOK, Threads
  <2>3. CallShape'
    BY <1>1, <1>5, <1>6, <2>1 DEF CallShape, RefreshSteps, ExitSteps
  <2> QED
    BY <1>3, <2>1, <2>2, <2>3 DEF Patient
<1>7. CASE Tail(calls) # <<>>
  <2>1. at'["main"] = <<"next">> /\ Busy'
    BY <1>3, <1>7 DEF InCall, Busy, LastExchange
  <2>2. Busy
    BY <1>1, <1>5, <1>7 DEF Busy, InCall, LastExchange
  <2>3. WatcherIdle /\ Registered = Roles /\ connected = Roles /\ ~notified
    BY <2>2, BusyFacts DEF WatcherIdle
  <2>4. Leaving' => Leaving
    BY <1>1, <1>4, <1>5, <1>7 DEF Leaving
  <2>5. WorldWaits'
    BY <1>1, <1>3, <2>1, <2>2, <2>3, <2>4 DEF Patient, WorldWaits, Ended
  <2>6. rtree = assoc[Target] /\ (Head(calls) = "backup" => Target = "backup")
    BY <1>1, <2>2, TargetFacts DEF Target
  <2>7. rtree' = rtree /\ assoc' = assoc
    BY <1>1, <1>7 DEF Answered, Return, memory
  <2>8. CallShape'
    BY <1>1, <1>5, <2>1, <2>6, <2>7 DEF CallShape, RefreshSteps, ExitSteps
  <2> QED
    BY <1>3, <2>1, <2>5, <2>8 DEF Patient
<1> QED
  BY <1>6, <1>7

LEMMA FailKeepsPatient ==
  ASSUME Base, Base', Settled, Orderly, Patient, FailClosed \/ FailReset
  PROVE  Patient'
<1>1. /\ at["main"] \in {<<"write">>, <<"await">>} /\ Fail
      /\ ~IsOpen(fd) \/ socket[fd] \notin up
  BY DEF FailClosed, FailReset
<1>2. ~Leaving
  BY <1>1, LeavingFacts, ClientAssumption DEF IsOpen, FDs
<1>3. /\ Goto("main", <<"prompt">>) /\ calls' = <<>> /\ Close(fd)
      /\ UNCHANGED <<world, node, up, notified, hostport, connected, memory>>
  BY <1>1, <1>2 DEF Fail, Return, environment, watch, refreshed
<1>4. \A f \in FDs : socket'[f] # socket[f] => socket'[f] = NoServer /\ socket[f] \notin up
  <2> SUFFICES ASSUME NEW f \in FDs, socket'[f] # socket[f]
               PROVE  socket'[f] = NoServer /\ socket[f] \notin up
    OBVIOUS
  <2>1. f = fd /\ socket'[f] = NoServer
    BY <1>3 DEF Close
  <2>2. fd # 0
    BY <2>1 DEF FDs
  <2>3. NoServer \notin up
    BY ClientAssumption DEF Base, TypeOK, EnvironmentTypeOK
  <2> QED
    BY <1>1, <2>1, <2>2, <2>3 DEF IsOpen
<1>5. /\ at["main"] \in CallSteps /\ <<"prompt">> \in CallSteps /\ at["main"] \notin ExitSteps
  BY <1>1 DEF CallSteps, ExitSteps
<1>6. /\ at'["main"] = <<"prompt">> /\ HostportRight' /\ Registered' = Registered
      /\ (OwnersUp' <=> OwnersUp) /\ ~Starting /\ ~Starting' /\ (WatcherIdle' <=> WatcherIdle)
      /\ at'["watcher"] = at["watcher"]
      /\ \A q \in Held' : Step' \notin Ended => Linked(q)'
  BY <1>3, <1>4, <1>5, CallWaits
<1>7. ~InCall' /\ ~Busy' /\ ~Leaving'
  BY <1>3, <1>6 DEF InCall, Busy, Leaving, ExitSteps
<1>8. WorldWaits'
  BY <1>3, <1>6, <1>7 DEF Patient, WorldWaits
<1>9. CallShape'
  BY <1>3, <1>6, <1>7 DEF CallShape, Rests, RefreshSteps, ExitSteps
<1> QED
  BY <1>6, <1>8, <1>9 DEF Patient

LEMMA BeginExitKeepsPatient ==
  ASSUME Base, Base', Settled, Orderly, Patient, BeginExit
  PROVE  Patient'
<1> DEFINE x == <<"exit", "primary">>
<1>1. /\ at["main"] = <<"next">> /\ Goto("main", x) /\ Head(calls) = "exit"
      /\ UNCHANGED <<world, node, up, notified, hostport, connected, memory, sockets, call>>
  BY DEF BeginExit, environment, watch, refreshed
<1>2. /\ <<"next">> \in CallSteps /\ at["main"] \notin ExitSteps
      /\ x \in CallSteps /\ x # <<"exit", "backup">>
  BY <1>1 DEF CallSteps, ExitSteps, Roles
<1>3. /\ at'["main"] = x /\ HostportRight' /\ Registered' = Registered
      /\ (OwnersUp' <=> OwnersUp) /\ ~Starting /\ ~Starting' /\ (WatcherIdle' <=> WatcherIdle)
      /\ \A q \in Held' : Step' \notin Ended => Linked(q)'
  BY <1>1, <1>2, CallWaits DEF sockets
<1>4. Busy /\ Busy'
  BY <1>1, <1>3 DEF Busy, InCall, LastExchange, ExitSteps
<1>5. WatcherIdle /\ Registered = Roles /\ connected = Roles /\ ~notified
  BY <1>4, BusyFacts DEF WatcherIdle
<1>6. calls = <<"exit">> /\ calls' = calls
  <2>1. calls \in Rests /\ calls # <<>>
    BY <1>1 DEF Patient, CallShape, Base, TypeOK, CallTypeOK
  <2> QED
    BY <1>1, <2>1, RestFacts DEF call
<1>7. WorldWaits'
  BY <1>1, <1>3, <1>4, <1>5, <1>6 DEF Patient, WorldWaits, Leaving, Ended
<1>8. CallShape'
  BY <1>3, <1>6 DEF CallShape, RefreshSteps, Rests
<1> QED
  BY <1>3, <1>7, <1>8 DEF Patient

LEMMA ExitKeepsPatient ==
  ASSUME Base, Base', Settled, Orderly, Patient, NEW r \in Roles, Exit(r)
  PROVE  Patient'
<1>1. /\ at["main"] = <<"exit", r>> /\ at["main"] \in ExitSteps
      /\ UNCHANGED <<world, node, up, notified, hostport, connected, assoc, sockfd, call>>
  BY DEF Exit, ExitSteps, environment, watch, refreshed, Roles
<1>2. Busy
  BY <1>1 DEF Busy, InCall, LastExchange, ExitSteps
<1>3. /\ WatcherIdle /\ Registered = Roles /\ connected = Roles /\ ~notified
      /\ Held = Roles /\ Step = <<"idle">> /\ \A q \in Roles : Linked(q)
  BY <1>2, BusyFacts DEF WatcherIdle
<1>4. calls = <<"exit">> /\ calls' = calls /\ Leaving /\ Leaving' /\ OwnersUp
  <2>1. calls = <<"exit">> /\ calls' = calls
    BY <1>1 DEF Patient, CallShape, call
  <2>2. Leaving /\ Leaving'
    BY <2>1 DEF Leaving, Last
  <2>3. at["main"] \notin Ended
    BY <1>1 DEF ExitSteps, Ended
  <2> QED
    BY <2>1, <2>2, <2>3 DEF Patient, WorldWaits
<1>5. assoc[r] \in live
  BY <1>1, <1>3 DEF Linked
<1>6. Registered' = Registered /\ (OwnersUp' <=> OwnersUp)
  BY <1>1 DEF Registered, OwnersUp
<1>7. CASE r = "primary"
  <2>1. Goto("main", <<"exit", "backup">>) /\ live' = live \ {assoc[r]}
    BY <1>5, <1>7 DEF Exit, Disconnect
  <2>2. <<"exit", "backup">> \in CallSteps /\ at["main"] \in CallSteps
    BY <1>1 DEF CallSteps, Roles
  <2>3. /\ ~Starting' /\ Step' = Step /\ at'["main"] = <<"exit", "backup">>
        /\ at'["watcher"] = at["watcher"]
    BY <2>1, <2>2, CallTurn DEF Base, TypeOK
  <2>4. Busy' /\ at'["main"] \in ExitSteps
    BY <2>3 DEF Busy, InCall, LastExchange, ExitSteps
  <2>5. WorldWaits'
    BY <1>1, <1>3, <1>4, <1>6, <2>3, <2>4 DEF WorldWaits, WatcherIdle
  <2>6. HostportRight'
    BY <1>1, <1>3, <2>3 DEF HostportRight
  <2>7. CallShape'
    BY <1>4, <2>3 DEF CallShape, Rests, RefreshSteps
  <2>8. Held' = Held
    BY <1>1, <2>3 DEF Held
  <2>9. ASSUME NEW q \in Held' PROVE Linked(q)'
    <3>1. Linked(q) /\ Linked(r) /\ r \in Held
      BY <1>3, <2>8
    <3>2. q # "primary" => assoc[q] \in live /\ assoc[q] # assoc[r]
      BY <1>7, <3>1 DEF Linked
    <3> QED
      BY <1>1, <2>1, <2>3, <2>4, <2>8, <3>1, <3>2 DEF Linked
  <2> QED
    BY <2>3, <2>5, <2>6, <2>7, <2>9 DEF Patient
<1>8. CASE r = "backup"
  <2>1. at' = [u \in Threads |-> <<"ended">>]
    BY <1>5, <1>8 DEF Exit, Disconnect, End
  <2>2. at'["main"] = <<"ended">> /\ at'["watcher"] = <<"ended">>
    BY <2>1 DEF Threads
  <2>3. Step' \in Ended /\ at'["main"] \in Ended /\ ~InCall' /\ ~Busy' /\ ~Starting'
    BY <2>2 DEF Step, Ended, InCall, Busy, Starting, RefreshSteps, ExitSteps
  <2>4. WorldWaits'
    BY <1>1, <1>3, <1>4, <1>6, <2>3 DEF WorldWaits
  <2>5. HostportRight'
    BY <2>3 DEF HostportRight, Ended
  <2>6. CallShape'
    BY <1>4, <2>2, <2>3 DEF CallShape, Rests, RefreshSteps, ExitSteps
  <2> QED
    BY <2>2, <2>3, <2>4, <2>5, <2>6 DEF Patient
<1> QED
  BY <1>7, <1>8 DEF Roles

LEMMA InitPatient == Init /\ Base => Patient
<1> SUFFICES ASSUME Init, Base PROVE Patient
  OBVIOUS
<1>1. at["main"] = <<"list">> /\ at["watcher"] = <<"idle">> /\ Step = <<"list">> /\ Starting
  BY DEF Init, Threads, Step, Starting, RefreshSteps
<1>2. ~InCall /\ ~Busy /\ ~Leaving /\ calls = <<>> /\ OwnersUp
  BY <1>1 DEF Init, InCall, Busy, Leaving, OwnersUp, ExitSteps
<1>3. WorldWaits
  BY <1>1, <1>2 DEF Init, WorldWaits
<1>4. HostportRight /\ CallShape
  BY <1>1, <1>2 DEF HostportRight, CallShape, Rests, ExitSteps
<1>5. Held = {}
  BY <1>1 DEF Init, Held
<1> QED
  BY <1>1, <1>3, <1>4, <1>5 DEF Patient

LEMMA StutterKeepsPatient == OrderlyInv /\ UNCHANGED vars => OrderlyInv'
BY DEF vars, environment, watch, refreshed, memory, sockets, call, OrderlyInv, Orderly, Patient,
       WorldWaits, HostportRight, CallShape, Linked, InCall, Busy, LastExchange, Leaving,
       Target, OwnersUp, Registered, WatcherIdle, Held, Step, Starting

LEMMA RefreshKeepsPatient ==
  ASSUME Base, Base', Settled, Settled', Orderly, Patient, NEW t \in Threads, Refresh(t)
  PROVE  Patient'
BY ListKeepsPatient, GetKeepsPatient, AlreadyConnectedKeepsPatient, ConnectKeepsPatient,
   NoConnectFails, FlagKeepsPatient, KeepAssociationKeepsPatient, DropKeepsPatient,
   UnflagKeepsPatient DEF Refresh

LEMMA ExchangeKeepsPatient ==
  ASSUME Base, Base', Settled, Settled', Orderly, Patient, Exchange \/ Answered \/ FailReset
  PROVE  Patient'
BY EvaluateKeepsPatient, UseAssociationKeepsPatient, WriteKeepsPatient, AnsweredKeepsPatient,
   FailKeepsPatient, BeginExitKeepsPatient, ExitKeepsPatient DEF Exchange

LEMMA NextKeepsPatient ==
  ASSUME Base, Base', Settled, Settled', Orderly, Patient, Next
  PROVE  Patient'
<1>1. ~SessionEvent /\ ~Mistyped
  BY DEF SessionEvent, Mistyped, Orderly
<1>2. "watcher" \in Threads /\ "main" \in Threads
  BY DEF Threads
<1> QED
  BY <1>1, <1>2, ServerDiesKeepsPatient, NodeComesKeepsPatient, NodeGoesKeepsPatient,
     CalledKeepsPatient, RefreshKeepsPatient, CommandKeepsPatient, ExchangeKeepsPatient
     DEF Next, Watcher

LEMMA WorldForever == Next => world' = world
BY DEF Next, ServerDies, NodeComes, NodeGoes, Called, SessionEvent, Watcher, Refresh, List, Get,
       AlreadyConnected, Connect, ConnectFails, Flag, KeepAssociation, Drop, Unflag, Command,
       Mistyped, Exchange, Evaluate, UseAssociation, Write, Answered, FailClosed, FailReset,
       Fail, BeginExit, Exit, environment

LEMMA OrderlyHolds == Spec => []OrderlyInv
<1>1. Init /\ Base => OrderlyInv
  BY InitPatient DEF OrderlyInv
<1>2. /\ Base /\ Settled /\ Base' /\ Settled' /\ OrderlyInv /\ [Next]_vars
      => OrderlyInv'
  <2>1. CASE Next
    BY <2>1, NextKeepsPatient, WorldForever DEF OrderlyInv, Orderly
  <2>2. CASE UNCHANGED vars
    BY <2>2, StutterKeepsPatient
  <2> QED BY <2>1, <2>2
<1> QED
  BY <1>1, <1>2, InvHolds, PTL DEF Spec

-----------------------------------------------------------------------------
(* Fourth part: where NULL is, and that the threads end together.          *)

Ends == \A t, u \in Threads : at[t] \in Ended => at[u] = at[t]

Calling == at["main"] \in {<<"next">>, <<"use">>, <<"write">>, <<"await">>}

\* The watcher has connected to r, be it in vain, or is about to say so.
Flagged(r) == r \in connected \/ at["watcher"] = <<"flag", r>>

\* NULL is what a rtree_connect has left, and the watcher does not take it for
\* something it freed; main holds none from before the command.
NullRight ==
    /\ \A r \in Roles : at["watcher"] = <<"unflag", r>> => assoc[r] # NULL
    /\ Calling => \A r \in Roles : assoc[r] = NULL => Flagged(r)
    /\ at["main"] = <<"use">> /\ rtree = NULL => \E r \in Roles : assoc[r] = NULL /\ Flagged(r)
    /\ at["main"] \in {<<"write">>, <<"await">>} => rtree # NULL
    /\ at["main"] = <<"next">> /\ rtree = NULL => Head(calls) # "same"

Survival == Ends /\ (world # "any" => NullRight)

LEMMA GotoEnds ==
  ASSUME StepsTypeOK, Ends, NEW t \in Threads, at[t] \notin Ended,
         NEW x, x \notin Ended, Goto(t, x)
  PROVE  Ends'
BY DEF Ends, Goto, StepsTypeOK, Threads

LEMMA StepsGoOn ==
  /\ \A x \in RefreshSteps \cup CallSteps \cup {<<"idle">>} : x \notin Ended
  /\ \A x \in ExitSteps : x \in CallSteps
BY DEF RefreshSteps, CallSteps, ExitSteps, Ended, Roles

LEMMA EndEnds ==
  ASSUME NEW how, End(how)
  PROVE  Ends'
BY DEF Ends, End, Threads

LEMMA RefreshMoves ==
  ASSUME NEW t \in Threads, Refresh(t)
  PROVE  at[t] \in RefreshSteps /\ (Moves(t) \/ Crash)
<1> USE StepsOf DEF Moves
<1>1. CASE List(t)
  BY <1>1, Zenon DEF List, Roles
<1>2. ASSUME NEW r \in Roles, Get(t, r) \/ AlreadyConnected(t, r) \/ Flag(t, r)
      PROVE  at[t] \in RefreshSteps /\ (Moves(t) \/ Crash)
  BY <1>2, SMT DEF Get, AlreadyConnected, Flag, AfterConnect, Roles
<1>3. ASSUME NEW r \in Roles, Connect(t, r) \/ ConnectFails(t, r)
      PROVE  at[t] \in RefreshSteps /\ (Moves(t) \/ Crash)
  BY <1>3, Zenon DEF Connect, ConnectFails
<1>4. ASSUME NEW r \in Roles, KeepAssociation(t, r) \/ Unflag(t, r)
      PROVE  at[t] \in RefreshSteps /\ (Moves(t) \/ Crash)
  BY <1>4, SMT DEF KeepAssociation, Unflag, AfterDrop, Roles
<1>5. ASSUME NEW r \in Roles, Drop(t, r)
      PROVE  at[t] \in RefreshSteps /\ (Moves(t) \/ Crash)
  BY <1>5, Zenon DEF Drop, Disconnect
<1> QED
  BY <1>1, <1>2, <1>3, <1>4, <1>5 DEF Refresh

LEMMA RefreshEnds ==
  ASSUME StepsTypeOK, Ends, NEW t \in Threads, Refresh(t)
  PROVE  Ends'
<1>1. at[t] \in RefreshSteps /\ (Moves(t) \/ Crash)
  BY RefreshMoves
<1>2. CASE Moves(t)
  <2>1. <<"prompt">> \in CallSteps
    BY DEF CallSteps
  <2> QED
    BY <1>1, <1>2, <2>1, StepsGoOn, GotoEnds DEF Moves, Finish
<1>3. CASE Crash
  BY <1>3, EndEnds DEF Crash
<1> QED
  BY <1>1, <1>2, <1>3

LEMMA CallEnds ==
  ASSUME StepsTypeOK, Ends, Command \/ Mistyped \/ Exchange \/ Answered \/ FailReset
  PROVE  Ends'
<1>1. "main" \in Threads
  BY DEF Threads
<1>2. \A x \in {<<"prompt">>, <<"next">>, <<"use">>, <<"write">>, <<"await">>} : x \in CallSteps
  BY DEF CallSteps
<1>3. <<"exit", "primary">> \in ExitSteps /\ <<"exit", "backup">> \in ExitSteps
  BY DEF ExitSteps
<1>4. CASE Crash \/ End("ended")
  BY <1>4, EndEnds DEF Crash
<1>5. ASSUME at["main"] \in CallSteps, NEW x \in CallSteps, Goto("main", x)
      PROVE  Ends'
  BY <1>1, <1>5, StepsGoOn, GotoEnds
<1>6. CASE Command \/ Mistyped \/ Evaluate \/ UseAssociation \/ Write \/ BeginExit
  <2>1. at["main"] \in CallSteps
    BY <1>2, <1>6, Zenon DEF Command, Mistyped, AtPrompt, Evaluate, UseAssociation, Write, BeginExit
  <2>2. Crash \/ \E x \in CallSteps : Goto("main", x)
    BY <1>2, <1>3, <1>6, StepsGoOn, Zenon DEF Command, Mistyped, Evaluate, UseAssociation, Write,
       BeginExit
  <2> QED
    BY <1>4, <1>5, <2>1, <2>2
<1>7. CASE Answered \/ FailClosed \/ FailReset
  <2>1. at["main"] \in CallSteps
    BY <1>2, <1>7, SMT DEF Answered, FailClosed, FailReset
  <2>2. \E x \in CallSteps : Goto("main", x)
    <3>1. \E rest : Return(rest)
      BY <1>7, Zenon DEF Answered, FailClosed, FailReset, Fail
    <3> QED
      BY <1>2, <3>1 DEF Return
  <2> QED
    BY <1>5, <2>1, <2>2
<1>8. ASSUME NEW r \in Roles, Exit(r)
      PROVE  Ends'
  <2>1. at["main"] \in CallSteps
    BY <1>8 DEF Exit, CallSteps
  <2>2. Crash \/ End("ended") \/ Goto("main", <<"exit", "backup">>)
    BY <1>8 DEF Exit, Disconnect
  <2> QED
    BY <1>3, <1>4, <1>5, <2>1, <2>2, StepsGoOn
<1> QED
  BY <1>6, <1>7, <1>8 DEF Exchange

LEMMA NextEnds ==
  ASSUME StepsTypeOK, Ends, Next
  PROVE  Ends'
<1>1. CASE Called
  <2>1. at["watcher"] \notin Ended /\ <<"list">> \notin Ended /\ "watcher" \in Threads
    BY <1>1 DEF Called, Ended, Threads
  <2> QED
    BY <1>1, <2>1, GotoEnds DEF Called
<1>2. CASE UNCHANGED at
  BY <1>2 DEF Ends
<1>3. "main" \in Threads /\ "watcher" \in Threads
  BY DEF Threads
<1> QED
  BY <1>1, <1>2, <1>3, RefreshEnds, CallEnds DEF Next, Watcher, ServerDies, NodeComes, NodeGoes,
     SessionEvent

LEMMA NullStill ==
  ASSUME NullRight, UNCHANGED <<at, connected, assoc, rtree, calls>>
  PROVE  NullRight'
BY DEF NullRight, Calling, Flagged

LEMMA NullAtEnd ==
  ASSUME NEW how, End(how), <<how>> \in Ended
  PROVE  NullRight'
<1>1. at'["main"] = <<how>> /\ at'["watcher"] = <<how>>
  BY DEF End, Threads
<1>2. \A x : x \in {<<"next">>, <<"use">>, <<"write">>, <<"await">>} => x # <<how>>
  BY DEF Ended
<1>3. \A r \in Roles : <<"unflag", r>> # <<how>>
  BY DEF Ended
<1> QED
  BY <1>1, <1>2, <1>3, Zenon DEF NullRight, Calling

LEMMA NullAfterCrash ==
  ASSUME Crash
  PROVE  NullRight'
  BY NullAtEnd DEF Crash, Ended

LEMMA WatcherTurn ==
  ASSUME StepsTypeOK, NEW x, Goto("watcher", x)
  PROVE  at'["main"] = at["main"] /\ at'["watcher"] = x
BY DEF StepsTypeOK, Goto, Threads

LEMMA WatcherKeepsNull ==
  ASSUME Base, NullRight, at["main"] \notin RefreshSteps, Refresh("watcher")
  PROVE  NullRight'
<1> DEFINE w == at["watcher"]
<1> USE DEF Base, TypeOK, refreshed, memory, call
<1>1. CASE Crash
  BY <1>1, NullAfterCrash
<1>2. CASE List("watcher")
  <2>1. \E x \in {<<"get", "primary">>, <<"drop", "backup">>} : Goto("watcher", x)
    BY <1>2 DEF List
  <2>2. UNCHANGED <<connected, assoc, rtree, calls>> /\ w = <<"list">>
    BY <1>2 DEF List
  <2> QED
    BY <2>1, <2>2, WatcherTurn, SMT DEF NullRight, Calling, Flagged
<1>3. ASSUME NEW r \in Roles, Get("watcher", r) \/ AlreadyConnected("watcher", r)
      PROVE  NullRight'
  <2>1. \E x \in {<<"get", "backup">>, <<"connect", "primary">>, <<"connect", "backup">>,
                   <<"drop", "backup">>} : Goto("watcher", x)
    BY <1>3 DEF Get, AlreadyConnected, AfterConnect
  <2>2. UNCHANGED <<connected, assoc, rtree, calls>> /\ w \in {<<"get", r>>, <<"connect", r>>}
    BY <1>3 DEF Get, AlreadyConnected
  <2> QED
    BY <2>1, <2>2, WatcherTurn, SMT DEF NullRight, Calling, Flagged
<1>4. ASSUME NEW r \in Roles, Connect("watcher", r) \/ ConnectFails("watcher", r), ~Crash
      PROVE  NullRight'
  <2>1. Goto("watcher", <<"flag", r>>) /\ w = <<"connect", r>>
    BY <1>4 DEF Connect, ConnectFails
  <2>2. UNCHANGED <<connected, rtree, calls>> /\ r \notin connected
    BY <1>4 DEF Connect, ConnectFails, NotConnected
  <2>3. \A q \in Roles \ {r} : assoc'[q] = assoc[q]
    BY <1>4 DEF Connect, ConnectFails, MemoryTypeOK
  <2>4. ASSUME at["main"] = <<"use">>, rtree = NULL
        PROVE  \E q \in Roles : assoc'[q] = NULL /\ Flagged(q)'
    <3>1. PICK q \in Roles : assoc[q] = NULL /\ Flagged(q)
      BY <2>4 DEF NullRight
    <3>2. q \in connected /\ q # r
      BY <2>1, <2>2, <3>1 DEF Flagged
    <3> QED
      BY <2>2, <2>3, <3>1, <3>2 DEF Flagged
  <2>5. \A q \in Roles : Calling /\ assoc'[q] = NULL => Flagged(q)'
    BY <2>1, <2>2, <2>3, WatcherTurn DEF NullRight, Flagged
  <2>6. \A q \in Roles : at'["watcher"] # <<"unflag", q>>
    BY <2>1, WatcherTurn
  <2> QED
    BY <2>1, <2>2, <2>4, <2>5, <2>6, WatcherTurn DEF NullRight, Calling
<1>5. ASSUME NEW r \in Roles, Flag("watcher", r)
      PROVE  NullRight'
  <2>1. Goto("watcher", AfterConnect(r)) /\ w = <<"flag", r>>
        /\ AfterConnect(r) \in {<<"connect", "backup">>, <<"drop", "backup">>}
    BY <1>5 DEF Flag, AfterConnect
  <2>2. UNCHANGED <<assoc, rtree, calls>> /\ connected' = connected \cup {r}
    BY <1>5 DEF Flag
  <2>3. \A q \in Roles : Flagged(q) => Flagged(q)'
    BY <2>1, <2>2 DEF Flagged
  <2>4. \A q \in Roles : at'["watcher"] # <<"unflag", q>>
    BY <2>1, WatcherTurn
  <2> QED
    BY <2>1, <2>2, <2>3, <2>4, WatcherTurn DEF NullRight, Calling
<1>6. ASSUME NEW r \in Roles, KeepAssociation("watcher", r)
      PROVE  NullRight'
  <2>1. \E x \in {<<"drop", "primary">>, <<"idle">>} : Goto("watcher", x)
    BY <1>6 DEF KeepAssociation, AfterDrop, Finish
  <2>2. UNCHANGED <<connected, assoc, rtree, calls>> /\ w = <<"drop", r>>
    BY <1>6 DEF KeepAssociation
  <2> QED
    BY <2>1, <2>2, WatcherTurn, SMT DEF NullRight, Calling, Flagged
<1>7. ASSUME NEW r \in Roles, Drop("watcher", r), ~Crash
      PROVE  NullRight'
  <2>1. Goto("watcher", <<"unflag", r>>) /\ w = <<"drop", r>> /\ assoc[r] \in live
    BY <1>7 DEF Drop, Disconnect
  <2>2. UNCHANGED <<connected, assoc, rtree, calls>>
    BY <1>7 DEF Drop
  <2>3. assoc[r] # NULL
    BY <2>1, ClientAssumption DEF MemoryTypeOK, Blocks, NULL
  <2>4. \A q \in Roles : Flagged(q) => Flagged(q)'
    BY <2>1, <2>2 DEF Flagged
  <2>5. \A q \in Roles : at'["watcher"] = <<"unflag", q>> => q = r
    BY <2>1, WatcherTurn
  <2> QED
    BY <2>1, <2>2, <2>3, <2>4, <2>5, WatcherTurn DEF NullRight, Calling
<1>8. ASSUME NEW r \in Roles, Unflag("watcher", r)
      PROVE  NullRight'
  <2>1. \E x \in {<<"drop", "primary">>, <<"idle">>} : Goto("watcher", x)
    BY <1>8 DEF Unflag, AfterDrop, Finish
  <2>2. UNCHANGED <<assoc, rtree, calls>> /\ w = <<"unflag", r>> /\ connected' = connected \ {r}
    BY <1>8 DEF Unflag, Unflagged
  <2>3. assoc[r] # NULL
    BY <2>2 DEF NullRight
  <2>4. \A q \in Roles : q # r /\ Flagged(q) => Flagged(q)'
    BY <2>2 DEF Flagged
  <2>5. at'["main"] = at["main"] /\ \A q \in Roles : at'["watcher"] # <<"unflag", q>>
    BY <2>1, WatcherTurn
  <2> QED
    BY <2>2, <2>3, <2>4, <2>5, Zenon DEF NullRight, Calling
<1> QED
  BY <1>1, <1>2, <1>3, <1>4, <1>5, <1>6, <1>7, <1>8 DEF Refresh

LEMMA StartKeepsNull ==
  ASSUME Base, Alone, NullRight, Refresh("main")
  PROVE  NullRight'
<1>1. "main" \in Threads
  BY DEF Threads
<1>2. at["main"] \in RefreshSteps /\ (Moves("main") \/ Crash)
  BY <1>1, RefreshMoves
<1>3. CASE Moves("main")
  <2>1. at'["main"] \in RefreshSteps \cup {<<"prompt">>} /\ at'["watcher"] = <<"idle">>
    BY <1>2, <1>3 DEF Moves, Finish, Goto, Alone, Starting, Base, TypeOK, StepsTypeOK, Threads
  <2>2. ~Calling' /\ at'["main"] \notin {<<"use">>, <<"write">>, <<"await">>, <<"next">>}
    BY <2>1 DEF Calling, RefreshSteps
  <2> QED
    BY <2>1, <2>2 DEF NullRight
<1> QED
  BY <1>2, <1>3, NullAfterCrash

LEMMA MainTurn ==
  ASSUME StepsTypeOK, NEW x, Goto("main", x)
  PROVE  at'["main"] = x /\ at'["watcher"] = at["watcher"]
BY DEF StepsTypeOK, Goto, Threads

LEMMA ReturnKeepsNull ==
  ASSUME Base, NullRight, at["main"] \in {<<"write">>, <<"await">>},
         NEW rest, Return(rest), rest # <<>> => rest = Tail(calls),
         UNCHANGED <<connected, assoc>>
  PROVE  NullRight'
<1> USE DEF Base, TypeOK
<1>1. Calling /\ rtree # NULL
  BY DEF NullRight, Calling
<1>2. at'["watcher"] = at["watcher"] /\ at'["main"] \in {<<"prompt">>, <<"next">>}
  BY MainTurn DEF Return
<1>3. at'["main"] = <<"next">> => rtree' = rtree
  BY MainTurn DEF Return
<1>4. \A r \in Roles : Flagged(r) <=> Flagged(r)'
  BY <1>2 DEF Flagged
<1> QED
  BY <1>1, <1>2, <1>3, <1>4 DEF NullRight, Calling

LEMMA CallKeepsNull ==
  ASSUME Base, NullRight, world # "any",
         Command \/ Mistyped \/ Exchange \/ Answered \/ FailReset
  PROVE  NullRight'
<1> USE DEF Base, TypeOK, refreshed, memory, sockets, call
<1>1. CASE Command
  <2>1. connected = Roles /\ UNCHANGED <<connected, assoc>> /\ Goto("main", <<"next">>)
    BY <1>1 DEF Command, podesEscrever
  <2>2. Head(calls') # "same"
    BY <1>1, CommandFacts DEF Command
  <2>3. \A r \in Roles : Flagged(r)'
    BY <2>1 DEF Flagged
  <2> QED
    BY <2>1, <2>2, <2>3, MainTurn DEF NullRight, Calling
<1>2. CASE Mistyped
  BY <1>2 DEF Mistyped
<1>3. CASE Evaluate
  <2>1. Calling /\ Goto("main", <<"use">>) /\ UNCHANGED <<connected, assoc, calls>>
        /\ Head(calls) # "exit" /\ at["main"] = <<"next">>
    BY <1>3 DEF Evaluate, Calling
  <2>2. \A r \in Roles : Flagged(r) <=> Flagged(r)'
    BY <2>1, MainTurn DEF Flagged
  <2>3. ASSUME rtree' = NULL PROVE \E r \in Roles : assoc'[r] = NULL /\ Flagged(r)'
    <3>1. Head(calls) # "same"
      BY <1>3, <2>1, <2>3 DEF Evaluate, NullRight
    <3>2. Head(calls) \in Roles
      <4>1. calls \in Seq(Exchanges) /\ calls # <<>>
        BY <2>1 DEF CallTypeOK, Exchanges
      <4>2. Head(calls) \in Exchanges
        BY <4>1, EmptySeq, HeadTailProperties
      <4> QED
        BY <2>1, <3>1, <4>2 DEF Exchanges
    <3>3. assoc[Head(calls)] = NULL
      BY <1>3, <2>3, <3>1 DEF Evaluate
    <3> QED
      BY <2>1, <2>2, <3>2, <3>3 DEF NullRight
  <2> QED
    BY <2>1, <2>2, <2>3, MainTurn DEF NullRight, Calling
<1>4. CASE UseAssociation
  <2>1. CASE rtree = NULL
    BY <1>4, <2>1, NullAfterCrash DEF UseAssociation
  <2>2. CASE rtree # NULL
    <3>1. Goto("main", <<"write">>) /\ Calling /\ UNCHANGED <<connected, assoc, rtree>>
      BY <1>4, <2>2 DEF UseAssociation, Calling
    <3> QED
      BY <2>2, <3>1, MainTurn DEF NullRight, Calling, Flagged
  <2> QED
    BY <2>1, <2>2
<1>5. CASE Write
  <2>1. Goto("main", <<"await">>) /\ at["main"] = <<"write">> /\ UNCHANGED <<connected, assoc, rtree>>
    BY <1>5 DEF Write
  <2> QED
    BY <2>1, MainTurn DEF NullRight, Calling, Flagged
<1>6. CASE Answered
  BY <1>6, ReturnKeepsNull DEF Answered
<1>7. CASE FailClosed \/ FailReset
  <2>1. at["main"] \in {<<"write">>, <<"await">>} /\ UNCHANGED <<connected, assoc>>
        /\ \E rest \in {Tail(calls), <<>>} : Return(rest)
    BY <1>7 DEF FailClosed, FailReset, Fail
  <2> QED
    BY <2>1, ReturnKeepsNull
<1>8. CASE BeginExit
  <2>1. Goto("main", <<"exit", "primary">>) /\ UNCHANGED <<connected, assoc>>
    BY <1>8 DEF BeginExit
  <2> QED
    BY <2>1, MainTurn DEF NullRight, Calling
<1>9. ASSUME NEW r \in Roles, Exit(r)
      PROVE  NullRight'
  <2>1. Crash \/ End("ended") \/ Goto("main", <<"exit", "backup">>)
    BY <1>9 DEF Exit, Disconnect
  <2>2. CASE Goto("main", <<"exit", "backup">>)
    <3>1. UNCHANGED <<connected, assoc>>
      BY <1>9 DEF Exit
    <3> QED
      BY <2>2, <3>1, MainTurn DEF NullRight, Calling
  <2>3. <<"ended">> \in Ended
    BY DEF Ended
  <2> QED
    BY <2>1, <2>2, <2>3, NullAfterCrash, NullAtEnd
<1> QED
  BY <1>1, <1>2, <1>3, <1>4, <1>5, <1>6, <1>7, <1>8, <1>9 DEF Exchange

LEMMA NextKeepsSurvival ==
  ASSUME Base, Settled, Survival, Next
  PROVE  Survival'
<1>1. Ends'
  BY NextEnds DEF Survival, Base, TypeOK
<1>2. ASSUME world # "any" PROVE NullRight'
  <2> USE <1>2 DEF Survival, Settled, refreshed, memory, call
  <2>1. CASE UNCHANGED <<at, connected, assoc, rtree, calls>>
    BY <2>1, NullStill
  <2>2. CASE Called
    <3>1. Goto("watcher", <<"list">>) /\ at["watcher"] = <<"idle">>
          /\ UNCHANGED <<connected, assoc, rtree, calls>>
      BY <2>2 DEF Called
    <3> QED
      BY <3>1, WatcherTurn, SMT DEF NullRight, Calling, Flagged, Base, TypeOK
  <2>3. CASE Refresh("watcher")
    <3>1. at["watcher"] \in RefreshSteps
      BY <2>3, RefreshMoves DEF Threads
    <3>2. at["main"] \notin RefreshSteps
      BY <3>1 DEF Alone, Starting, RefreshSteps
    <3> QED
      BY <2>3, <3>2, WatcherKeepsNull
  <2>4. CASE Refresh("main")
    BY <2>4, StartKeepsNull
  <2>5. CASE Command \/ Mistyped \/ Exchange \/ Answered \/ FailReset
    BY <2>5, CallKeepsNull
  <2> QED
    BY <2>1, <2>2, <2>3, <2>4, <2>5 DEF Next, Watcher, ServerDies, NodeComes, NodeGoes, SessionEvent
<1> QED
  BY <1>1, <1>2, WorldForever DEF Survival

LEMMA SurvivalHolds == Spec => []Survival
<1>1. Init => Survival
  BY DEF Init, Survival, Ends, NullRight, Calling, Ended, Threads
<1>2. Base /\ Settled /\ Survival /\ [Next]_vars => Survival'
  <2>1. CASE UNCHANGED vars
    <3>1. UNCHANGED <<world, at, connected, assoc, rtree, calls>>
      BY <2>1 DEF vars, environment, refreshed, memory, call
    <3> QED
      BY <3>1, NullStill DEF Survival, Ends
  <2> QED
    BY <2>1, NextKeepsSurvival
<1> QED
  BY <1>1, <1>2, InvHolds, PTL DEF Spec

-----------------------------------------------------------------------------
\* Associations, descriptors, flags and what is left of a command keep their
\* types, whatever the servers do and however the two threads meet.
THEOREM ClientTypeCorrect == Spec => []TypeOK
<1>1. Base => TypeOK
  BY DEF Base
<1> QED
  BY <1>1, InvHolds, PTL

\* The client never stops hearing of changes, in every world: the watch is
\* set again by each callback that found it gone (client_stub.c:64).
THEOREM ClientNeverDeaf == Spec => []WatchNeverLost
<1>1. Base => WatchNeverLost
  BY DEF Base
<1> QED
  BY <1>1, InvHolds, PTL

\* No descriptor is left that nobody will close: each is that of an
\* association rtree_primary or rtree_backup leads to, once the client has
\* started in peace (client_stub.c:80-99, 164, network-client.c:69).
THEOREM DescriptorsOwned == Spec => []SocketsOwned
<1>1. Base /\ Settled => SocketsOwned
  BY DEF Base, OpenIsHeld, Settled, MemoryRight, SocketsOwned
<1> QED
  BY <1>1, InvHolds, PTL

\* Once child_watcher is done, flags and associations agree, for a client
\* that started before anything changed (client_stub.c:75-100, 187-229).
THEOREM FlagsRightAtRest == Spec => []FlagsMatchMemory
<1>1. Base /\ Settled => FlagsMatchMemory
  <2> SUFFICES ASSUME Base, Settled, world # "any", WatcherAtRest, ~Leaving
               PROVE  live = {assoc[r] : r \in connected} \ {NULL}
    BY DEF FlagsMatchMemory
  <2>1. Step = <<"idle">> /\ at["main"] \notin ExitSteps
    BY DEF WatcherAtRest, WatcherIdle, Step, Base, CallRight
  <2>2. Held = connected /\ Step \notin Ended
    BY <2>1 DEF Held, Ended, Base, TypeOK, MemoryTypeOK
  <2>3. live = {assoc[r] : r \in Held} \ {NULL}
    BY <2>1, <2>2, Zenon DEF Settled, MemoryRight
  <2> QED
    BY <2>2, <2>3
<1> QED
  BY <1>1, InvHolds, PTL

\* ... and commands are let through exactly while both servers are
\* registered (tree-client.c:42).
THEOREM GateRightAtRest == Spec => []GateMeansBothRegistered
<1>1. Base /\ Settled => GateMeansBothRegistered
  <2> SUFFICES ASSUME Base, Settled, world # "any", WatcherAtRest
               PROVE  connected = Roles <=> Registered = Roles
    BY DEF GateMeansBothRegistered, podesEscrever
  <2>1. Step = <<"idle">> /\ ~notified /\ at["watcher"] = <<"idle">> /\ at["main"] # <<"list">>
    BY DEF WatcherAtRest, WatcherIdle, Step, Starting, RefreshSteps
  <2>2. watching
    BY <2>1 DEF Base, WatchNeverLost, Ended
  <2>3. exists = Registered
    BY <2>1, <2>2 DEF Settled, FlagsRight, Ended
  <2>4. connected \subseteq exists /\ (exists = Roles => connected = Roles)
    BY <2>1 DEF Settled, FlagsRight
  <2>5. exists \subseteq Roles
    BY DEF Base, TypeOK, MemoryTypeOK
  <2> QED
    BY <2>3, <2>4, <2>5
<1> QED
  BY <1>1, InvHolds, PTL

\* Commands start on associations in memory, but for the watcher's window
\* between rtree_disconnect and the flag (tree-client.c:40-42,
\* client_stub.c:91-93, 97-99).
THEOREM GateRightOfMemory == Spec => GateMeansMemory
<1> DEFINE Lets == world # "any" /\ AtPrompt /\ at'["main"] = <<"next">>
                   => \A r \in Roles :
                         assoc[r] \in live \cup {NULL} \/ at["watcher"] = <<"unflag", r>>
<1>1. Base /\ Settled /\ Survival /\ [Next]_vars => [Lets]_vars
  <2> SUFFICES ASSUME Base, Settled, Ends, Next, world # "any", at["main"] = <<"prompt">>,
                      at'["main"] = <<"next">>, NEW r \in Roles,
                      at["watcher"] # <<"unflag", r>>
               PROVE  assoc[r] \in live \cup {NULL}
    BY DEF AtPrompt, Survival
  <2> USE DEF Base, TypeOK
  <2>1. connected = Roles
    <3>1. ~Watcher
      <4>1. ~Crash
        BY DEF Crash, End, Threads
      <4>2. ASSUME Moves("watcher") \/ Goto("watcher", <<"list">>) PROVE FALSE
        BY <4>2, WatcherTurn DEF Moves, Finish
      <4> QED
        BY <4>1, <4>2, RefreshMoves DEF Watcher, Called, Threads
    <3>2. ~Refresh("main")
      BY RefreshMoves DEF RefreshSteps, Threads
    <3>3. ~Mistyped
      BY DEF Mistyped
    <3> QED
      BY <3>1, <3>2, <3>3 DEF Next, ServerDies, NodeComes, NodeGoes, SessionEvent, Command,
         podesEscrever, Exchange, Evaluate, UseAssociation, Write, Answered, FailClosed,
         FailReset, BeginExit, Exit
  <2>2. Step = at["watcher"] /\ at["main"] \notin ExitSteps
    BY DEF Step, Starting, RefreshSteps, ExitSteps
  <2>3. Step \notin Ended
    <3>1. "main" \in Threads /\ "watcher" \in Threads /\ <<"prompt">> \notin Ended
      BY DEF Threads, Ended
    <3> QED
      BY <2>2, <3>1 DEF Ends
  <2>4. r \in Held
    BY <2>1, <2>2 DEF Held
  <2> QED
    BY <2>2, <2>3, <2>4 DEF Settled, MemoryRight
<1> QED
  BY <1>1, InvHolds, SurvivalHolds, PTL DEF Spec, GateMeansMemory

\* Whatever the servers do once the client has started, it dies of nothing but
\* an association that could not be made, an address that was gone, or its own
\* quit: the watcher frees nothing twice (client_stub.c:82, 91, 142, 164,
\* network-client.c:47).
THEOREM WatcherFreesOnce == Spec => DiesOfNullOrQuit
<1> DEFINE Cause ==
             \/ Leaving
             \/ \E r \in connected : assoc[r] = NULL
             \/ \E r \in Roles : at["watcher"] = <<"flag", r>> /\ assoc[r] = NULL
             \/ \E t \in Threads, r \in Roles : at[t] = <<"connect", r>> /\ hostport[r] = NoServer
           Dies == world # "any" /\ at["main"] \notin Ended /\ at'["main"] = <<"crashed">> => Cause
<1>1. Base /\ Settled /\ Survival /\ [Next]_vars => [Dies]_vars
  <2> SUFFICES ASSUME Base, Settled, Survival, Next, world # "any", at["main"] \notin Ended,
                      at'["main"] = <<"crashed">>
               PROVE  Cause
    OBVIOUS
  <2> USE DEF Base, TypeOK
  <2>0. <<"crashed">> \in Ended /\ "main" \in Threads /\ "watcher" \in Threads
    BY DEF Ended, Threads
  <2>1. ASSUME NEW t \in Threads, Refresh(t) PROVE Cause
    <3>1. at[t] \in RefreshSteps
      BY <2>1, RefreshMoves
    <3>2. ~Moves(t)
      <4>1. ASSUME NEW x, x # <<"crashed">>, Goto(t, x) PROVE FALSE
        BY <2>0, <4>1 DEF Goto, StepsTypeOK
      <4>2. \A x \in RefreshSteps \cup {<<"prompt">>, <<"idle">>} : x # <<"crashed">>
        BY DEF RefreshSteps
      <4> QED
        BY <4>1, <4>2 DEF Moves, Finish
    <3>3. ASSUME NEW r \in Roles, ConnectFails(t, r) PROVE Cause
      BY <3>2, <3>3, StepsOf, Zenon DEF ConnectFails, Moves
    <3>4. ASSUME NEW r \in Roles, Drop(t, r) PROVE Cause
      <4>1. at[t] = <<"drop", r>> /\ r \in connected /\ assoc[r] \notin live
        BY <3>2, <3>4, StepsOf, Zenon DEF Drop, Lost, Disconnect, Moves
      <4>2. Step = <<"drop", r>>
        <5>1. t = "watcher" => ~Starting
          BY <3>1 DEF Settled, Alone, RefreshSteps
        <5> QED
          BY <3>1, <4>1, <5>1 DEF Step, Starting, Threads
      <4>3. at["main"] \notin ExitSteps \/ Leaving
        BY DEF CallRight
      <4>4. r \in Held /\ Step \notin Ended
        BY <4>1, <4>2 DEF Held, Ended
      <4>5. at["main"] \notin ExitSteps => assoc[r] = NULL
        BY <4>1, <4>4 DEF Settled, MemoryRight
      <4> QED
        BY <4>1, <4>3, <4>5
    <3>5. Crash
      BY <2>1, <3>2, RefreshMoves
    <3>6. \/ \E r \in Roles : ConnectFails(t, r) \/ Drop(t, r)
          \/ Moves(t)
      <4> USE StepsOf DEF Moves
      <4>1. List(t) => Moves(t)
        BY Zenon DEF List, Roles
      <4>2. \A r \in Roles : Get(t, r) \/ AlreadyConnected(t, r) \/ Flag(t, r) => Moves(t)
        BY SMT DEF Get, AlreadyConnected, Flag, AfterConnect, Roles
      <4>3. \A r \in Roles : Connect(t, r) => Moves(t)
        BY Zenon DEF Connect
      <4>4. \A r \in Roles : KeepAssociation(t, r) \/ Unflag(t, r) => Moves(t)
        BY SMT DEF KeepAssociation, Unflag, AfterDrop, Roles
      <4> QED
        BY <2>1, <4>1, <4>2, <4>3, <4>4, Zenon DEF Refresh
    <3> QED
      BY <3>2, <3>3, <3>4, <3>6
  <2>2. ASSUME NEW x, x # <<"crashed">>, Goto("main", x) PROVE FALSE
    BY <2>2, MainTurn
  <2>3. CASE Called
    BY <2>0, <2>3, WatcherTurn DEF Called
  <2>4. CASE UNCHANGED at
    BY <2>0, <2>4
  <2>5. CASE UseAssociation
    <3>1. rtree = NULL /\ at["main"] = <<"use">>
      BY <2>2, <2>5 DEF UseAssociation
    <3>2. \E r \in Roles : assoc[r] = NULL /\ Flagged(r)
      BY <3>1 DEF Survival, NullRight
    <3> QED
      BY <3>2 DEF Flagged
  <2>6. ASSUME NEW r \in Roles, Exit(r) PROVE Cause
    <3>1. at["main"] \in ExitSteps
      BY <2>6 DEF Exit, ExitSteps, Roles
    <3> QED
      BY <3>1 DEF CallRight
  <2>7. ~Mistyped /\ ~Command /\ ~Evaluate /\ ~Write /\ ~BeginExit
    BY <2>2, Zenon DEF Mistyped, Command, Evaluate, Write, BeginExit
  <2>8. ~Answered /\ ~FailClosed /\ ~FailReset
    <3>1. \A rest : ~Return(rest)
      BY <2>2 DEF Return
    <3> QED
      BY <3>1, Zenon DEF Answered, FailClosed, FailReset, Fail
  <2> QED
    BY <2>0, <2>1, <2>3, <2>4, <2>5, <2>6, <2>7, <2>8 DEF Next, Watcher, Exchange, ServerDies,
       NodeComes, NodeGoes, SessionEvent
<1> QED
  BY <1>1, InvHolds, SurvivalHolds, PTL DEF Spec, DiesOfNullOrQuit

\* With servers that let the client finish, every request goes to the server
\* that has the role, the second one of rtree_get_keys included
\* (client_stub.c:394).
THEOREM RequestsReachRole == Spec => CallReachesRole
<1> DEFINE Reaches == Orderly /\ at["main"] = <<"write">> /\ at'["main"] = <<"await">>
                      => socket[fd] = node[Target]
<1>1. Base /\ Settled /\ OrderlyInv /\ [Next]_vars => [Reaches]_vars
  <2> SUFFICES ASSUME Base, Settled, Patient, Orderly, Next,
                      at["main"] = <<"write">>, at'["main"] = <<"await">>
               PROVE  socket[fd] = node[Target]
    BY DEF OrderlyInv
  <2>1. Busy
    BY DEF Busy, InCall, LastExchange
  <2>2. /\ fd = sockfd[rtree] /\ Target \in Roles /\ node[Target] # NoServer
        /\ \/ socket[fd] = node[Target]
           \/ socket[fd] = NoServer /\ node[Target] \notin up
    BY <2>1, TargetFacts
  <2>3. socket[fd] # NoServer
    <3>1. ~notified /\ \A t \in Threads : at[t] \notin RefreshSteps
      BY <2>1, BusyFacts DEF WatcherIdle, Threads, RefreshSteps
    <3>2. \A t \in Threads : ~Refresh(t)
      BY ZenonT(40), <3>1, StepsOf DEF Refresh, List, Get, AlreadyConnected, Connect, ConnectFails, Flag,
         KeepAssociation, Drop, Unflag
    <3>3. ~Refresh("main") /\ ~Watcher
      BY <3>1, <3>2 DEF Watcher, Called, Threads
    <3>4. ASSUME Fail PROVE FALSE
      <4>1. at'["main"] \in {<<"prompt">>, <<"next">>}
        BY <3>4 DEF Fail, Return, Goto, Base, TypeOK, StepsTypeOK, Threads
      <4> QED BY <4>1
    <3>5. Write
      BY <3>3, <3>4 DEF Next, ServerDies, NodeComes, NodeGoes, SessionEvent, Command, AtPrompt,
         Mistyped, Exchange, Evaluate, UseAssociation, Answered, FailClosed, FailReset,
         BeginExit, Exit
    <3> QED
      BY <3>5 DEF Write, IsOpen
  <2> QED
    BY <2>2, <2>3
<1> QED
  BY <1>1, InvHolds, OrderlyHolds, PTL DEF Spec, CallReachesRole

=============================================================================
