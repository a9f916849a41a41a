--------------------------- MODULE MembershipProofs ---------------------------
(***************************************************************************)
(* Membership proved for any set of servers.  Started and killed at any    *)
(* moment: its types, and that ZooKeeper's one-shot watch never leaves a   *)
(* serving server deaf.  Started at any moment, none killed: none crashes, *)
(* forwards to itself or serves without a primary.  Started and killed     *)
(* only when the others are at rest: each has one role and the primary is  *)
(* linked to the backup.                                                   *)
(***************************************************************************)
EXTENDS Membership, TLAPS

IInv == TypeOK /\ WatchNeverLost

LEMMA InitIInv == Init => IInv
<1> SUFFICES ASSUME Init PROVE IInv
  OBVIOUS
<1>1. TypeOK
  <2>1. pc \in [Servers -> Starting \cup Stopped \cup {"serving"}]
    BY DEF Init, Stopped
  <2>2. wpc \in [Servers -> Working \cup {"idle", "sleep"}]
    BY DEF Init
  <2>3. address \in [Servers -> Owner] /\ rtree \in [Servers -> Servers \cup NoLink]
    BY DEF Init, Owner, NoLink
  <2>4. \A s \in Servers : pc[s] = "off" /\ wpc[s] = "idle" /\ s \notin session
    BY DEF Init
  <2>5. "off" \notin Starting
    BY DEF Starting
  <2> QED
    BY <2>1, <2>2, <2>3, <2>4, <2>5 DEF Init, TypeOK
<1>2. WatchNeverLost
  BY DEF Init, WatchNeverLost
<1> QED
  BY <1>1, <1>2 DEF IInv

USE DEF nodes, sessions, watches, locals, Goto

-----------------------------------------------------------------------------
(* Type correctness, one lemma per thread.                                 *)

LEMMA MainType ==
  ASSUME TypeOK, NEW s \in Servers,
         Start(s) \/ StartUnconnected(s) \/ Main(s)
  PROVE  TypeOK'
<1> USE DEF TypeOK, Starting, Stopped, Working, Owner
<1>1. CASE Start(s) BY <1>1 DEF Start
<1>2. CASE StartUnconnected(s) BY <1>2 DEF StartUnconnected
<1>3. CASE ExistsKvstore(s) BY <1>3 DEF ExistsKvstore
<1>4. CASE CreateKvstore(s) BY <1>4 DEF CreateKvstore
<1>5. CASE ExistsPrimary(s) BY <1>5 DEF ExistsPrimary
<1>6. CASE ExistsBackup(s) BY <1>6 DEF ExistsBackup
<1>7. CASE RecheckPrimary(s) BY <1>7 DEF RecheckPrimary
<1>8. CASE CreatePrimary(s) BY <1>8 DEF CreatePrimary, CreatesPrimary, ChildrenChange
<1>9. CASE CreateBackup(s) BY <1>9 DEF CreateBackup, ChildrenChange, NoLink
<1>10. CASE Watch(s) BY <1>10 DEF Watch
<1> QED BY <1>1, <1>2, <1>3, <1>4, <1>5, <1>6, <1>7, <1>8, <1>9, <1>10 DEF Main

LEMMA DiesType ==
  ASSUME TypeOK, NEW s \in Servers, Running(s),
         NEW how \in {"killed", "segfault"}, Dies(s, how)
  PROVE  TypeOK'
  BY DEF TypeOK, Dies, Starting, Stopped, Working, Owner, Running

LEMMA EnvironmentType ==
  ASSUME TypeOK, NEW s \in Servers,
         Kill(s) \/ SessionEnds(s) \/ ExecuteWrite(s)
  PROVE  TypeOK'
<1>1. CASE Kill(s) BY <1>1, DiesType DEF Kill
<1>2. CASE ExecuteWrite(s)
  <2>1. Running(s) BY <1>2 DEF ExecuteWrite, Running, Stopped
  <2> QED BY <1>2, <2>1, DiesType DEF ExecuteWrite
<1>3. CASE SessionEnds(s)
  BY <1>3 DEF SessionEnds, Running, ChildrenChange, TypeOK, Starting, Stopped, Working, Owner
<1> QED BY <1>1, <1>2, <1>3

LEMMA WatcherType ==
  ASSUME TypeOK, NEW s \in Servers, Watcher(s)
  PROVE  TypeOK'
<1> USE DEF TypeOK, Starting, Stopped, Working, Owner
<1>1. CASE Called(s) BY <1>1 DEF Called
<1>2. CASE List(s) BY <1>2 DEF List, Decision
<1>3. CASE ListAndClose(s) BY <1>3 DEF ListAndClose, NoLink
<1>4. CASE ListAndCloseNull(s)
  <2>1. Running(s) BY <1>4 DEF ListAndCloseNull, Running
  <2> QED BY <1>4, <2>1, DiesType DEF ListAndCloseNull
<1>5. CASE PromoteCreate(s) BY <1>5 DEF PromoteCreate, CreatesPrimary, ChildrenChange
<1>6. CASE PromoteDelete(s) BY <1>6 DEF PromoteDelete, ChildrenChange
<1>7. CASE GetBackup(s) BY <1>7 DEF GetBackup
<1>8. CASE GetNothing(s)
  <2>1. Running(s) BY <1>8 DEF GetNothing, Running
  <2>2. CASE Dies(s, "segfault") BY <2>1, <2>2, DiesType
  <2>3. CASE ~Dies(s, "segfault") BY <1>8, <2>3 DEF GetNothing, NoLink
  <2> QED BY <2>2, <2>3
<1>9. CASE Connect(s) BY <1>9 DEF Connect, NoLink
<1> QED BY <1>1, <1>2, <1>3, <1>4, <1>5, <1>6, <1>7, <1>8, <1>9 DEF Watcher

LEMMA StepType ==
  ASSUME TypeOK, Next
  PROVE  TypeOK'
  BY MainType, EnvironmentType, WatcherType DEF Next

-----------------------------------------------------------------------------
(* The one-shot watch.                                                     *)

\* What ChildrenChange takes out of watching it puts into notified.
LEMMA ChangeHeard == ChildrenChange => watching' \cup notified' = watching \cup notified
  BY DEF ChildrenChange

LEMMA MainHeard ==
  ASSUME TypeOK, WatchNeverLost, NEW s \in Servers,
         Start(s) \/ StartUnconnected(s) \/ Main(s)
  PROVE  WatchNeverLost'
<1> USE DEF TypeOK, WatchNeverLost, Starting
<1>1. CASE Start(s) BY <1>1 DEF Start
<1>2. CASE StartUnconnected(s) BY <1>2 DEF StartUnconnected
<1>3. CASE ExistsKvstore(s) BY <1>3 DEF ExistsKvstore
<1>4. CASE CreateKvstore(s) BY <1>4 DEF CreateKvstore
<1>5. CASE ExistsPrimary(s) BY <1>5 DEF ExistsPrimary
<1>6. CASE ExistsBackup(s) BY <1>6 DEF ExistsBackup
<1>7. CASE RecheckPrimary(s) BY <1>7 DEF RecheckPrimary
<1>8. CASE CreatePrimary(s) BY <1>8, ChangeHeard DEF CreatePrimary, CreatesPrimary
<1>9. CASE CreateBackup(s) BY <1>9, ChangeHeard DEF CreateBackup
<1>10. CASE Watch(s) BY <1>10 DEF Watch
<1> QED BY <1>1, <1>2, <1>3, <1>4, <1>5, <1>6, <1>7, <1>8, <1>9, <1>10 DEF Main

LEMMA DiesHeard ==
  ASSUME TypeOK, WatchNeverLost, NEW s \in Servers,
         NEW how \in {"killed", "segfault"}, Dies(s, how)
  PROVE  WatchNeverLost'
  BY DEF TypeOK, WatchNeverLost, Dies

LEMMA EnvironmentHeard ==
  ASSUME TypeOK, WatchNeverLost, NEW s \in Servers,
         Kill(s) \/ SessionEnds(s) \/ ExecuteWrite(s)
  PROVE  WatchNeverLost'
<1>1. CASE Kill(s) BY <1>1, DiesHeard DEF Kill
<1>2. CASE ExecuteWrite(s) BY <1>2, DiesHeard DEF ExecuteWrite
<1>3. CASE SessionEnds(s)
  BY <1>3, ChangeHeard DEF SessionEnds, TypeOK, WatchNeverLost
<1> QED BY <1>1, <1>2, <1>3

LEMMA WatcherHeard ==
  ASSUME TypeOK, WatchNeverLost, NEW s \in Servers, Watcher(s)
  PROVE  WatchNeverLost'
<1> USE DEF TypeOK, WatchNeverLost
<1>1. CASE Called(s) BY <1>1 DEF Called
<1>2. CASE List(s) BY <1>2 DEF List
<1>3. CASE ListAndClose(s) BY <1>3 DEF ListAndClose
<1>4. CASE ListAndCloseNull(s) BY <1>4, DiesHeard DEF ListAndCloseNull
<1>5. CASE PromoteCreate(s) BY <1>5, ChangeHeard DEF PromoteCreate, CreatesPrimary
<1>6. CASE PromoteDelete(s) BY <1>6, ChangeHeard DEF PromoteDelete
<1>7. CASE GetBackup(s) BY <1>7 DEF GetBackup
<1>8. CASE GetNothing(s)
  <2>1. CASE Dies(s, "segfault") BY <2>1, DiesHeard
  <2>2. CASE ~Dies(s, "segfault") BY <1>8, <2>2 DEF GetNothing
  <2> QED BY <2>1, <2>2
<1>9. CASE Connect(s) BY <1>9 DEF Connect
<1> QED BY <1>1, <1>2, <1>3, <1>4, <1>5, <1>6, <1>7, <1>8, <1>9 DEF Watcher

LEMMA StepHeard ==
  ASSUME TypeOK, WatchNeverLost, Next
  PROVE  WatchNeverLost'
  BY MainHeard, EnvironmentHeard, WatcherHeard DEF Next

-----------------------------------------------------------------------------
LEMMA NextIInv ==
  ASSUME IInv, [Next]_vars
  PROVE  IInv'
<1>1. CASE Next
  BY <1>1, StepType, StepHeard DEF IInv
<1>2. CASE UNCHANGED vars
  BY <1>2 DEF vars, IInv, TypeOK, WatchNeverLost
<1> QED BY <1>1, <1>2

LEMMA Inductive == Spec => []IInv
  BY InitIInv, NextIInv, PTL DEF Spec

\* The variables keep their types, the nodes have owners with live sessions,
\* and only serving servers watch or are called back, whoever starts, dies or
\* is promoted in whatever order.
THEOREM MembershipTypeCorrect == Spec => []TypeOK
<1>1. IInv => TypeOK BY DEF IInv
<1> QED BY Inductive, <1>1, PTL

\* No serving server ever stops hearing of changes (tree_skel.c:67, 194).
THEOREM NeverDeaf == Spec => []WatchNeverLost
<1>1. IInv => WatchNeverLost BY DEF IInv
<1> QED BY Inductive, <1>1, PTL

-----------------------------------------------------------------------------
(* Servers started in any order, none killed.                              *)

NobodyKilled == \A s \in Servers : pc[s] # "killed"

\* Nodes only come, the primary's first, and their owners stay.
NodesStay ==
    /\ bnode # NoServer => pnode # NoServer
    /\ \A s \in {pnode, bnode} \ {NoServer} : pc[s] \in {"watch", "serving"}

\* A backup's node is there to be read, its owner is never called back, and
\* nobody promotes itself or loses its connection.
CallbackSafe ==
    \A s \in Servers :
        /\ wpc[s] \notin {"create", "delete"}
        /\ wpc[s] = "get" => bnode # NoServer
        /\ wpc[s] = "connect" => bnode # NoServer /\ address[s] = bnode
        /\ rtree[s] \notin {"null", s}
        /\ s = bnode => s \notin notified /\ wpc[s] = "idle"

StartSafe ==
    \A s \in Servers :
        /\ pc[s] # "segfault"
        /\ pc[s] \in {"exists_backup", "create_backup"} => pnode # NoServer
        /\ pc[s] \in {"watch", "serving"} /\ s \in session => pnode # NoServer

NodesSafe == NodesStay /\ CallbackSafe /\ StartSafe

StartInv == NobodyKilled => NodesSafe

LEMMA NeverUnkilled == TypeOK /\ Next /\ ~NobodyKilled => ~NobodyKilled'
  BY DEF Next, TypeOK, NobodyKilled, Running, Stopped, Starting, Start, StartUnconnected, Kill, Dies,
         SessionEnds, Main, ExistsKvstore, CreateKvstore, ExistsPrimary, ExistsBackup,
         RecheckPrimary, CreatePrimary, CreateBackup, Watch, ExecuteWrite, Watcher, Called,
         List, ListAndClose, ListAndCloseNull, PromoteCreate, PromoteDelete, GetBackup,
         GetNothing, Connect, Goto

LEMMA StartsMain ==
  ASSUME TypeOK, NodesSafe, NobodyKilled', NEW s \in Servers,
         Start(s) \/ StartUnconnected(s) \/ Main(s)
  PROVE  NodesSafe'
<1> USE MembershipAssumption DEF TypeOK, NodesSafe, NodesStay, CallbackSafe, StartSafe, Starting,
        Stopped, Working, Owner
<1>1. CASE Start(s) BY <1>1 DEF Start
<1>2. CASE StartUnconnected(s) BY <1>2 DEF StartUnconnected
<1>3. CASE ExistsKvstore(s) BY <1>3 DEF ExistsKvstore
<1>4. CASE CreateKvstore(s) BY <1>4 DEF CreateKvstore
<1>5. CASE ExistsPrimary(s) BY <1>5 DEF ExistsPrimary
<1>6. CASE ExistsBackup(s) BY <1>6 DEF ExistsBackup
<1>7. CASE RecheckPrimary(s) BY <1>7 DEF RecheckPrimary
<1>8. CASE CreatePrimary(s) BY <1>8 DEF CreatePrimary, CreatesPrimary, ChildrenChange
<1>9. CASE CreateBackup(s) BY <1>9 DEF CreateBackup, ChildrenChange, NoLink
<1>10. CASE Watch(s) BY <1>10 DEF Watch
<1> QED BY <1>1, <1>2, <1>3, <1>4, <1>5, <1>6, <1>7, <1>8, <1>9, <1>10 DEF Main

LEMMA StartsWatcher ==
  ASSUME TypeOK, NodesSafe, NEW s \in Servers, Watcher(s)
  PROVE  NodesSafe'
<1> USE MembershipAssumption DEF TypeOK, NodesSafe, NodesStay, CallbackSafe, StartSafe, Starting,
        Stopped, Working, Owner
<1>1. CASE Called(s) BY <1>1 DEF Called
<1>2. CASE List(s) BY <1>2 DEF List, Decision
<1>3. CASE ListAndClose(s) BY <1>3 DEF ListAndClose, NoLink
<1>4. CASE GetBackup(s) BY <1>4 DEF GetBackup
<1>5. CASE Connect(s)
  <2>1. address[s] = bnode /\ bnode \in Servers /\ s # bnode
    BY <1>5 DEF Connect
  <2>2. Running(bnode)
    BY <2>1 DEF Running
  <2>3. rtree' = [rtree EXCEPT ![s] = bnode]
    BY <1>5, <2>1, <2>2 DEF Connect
  <2>4. UNCHANGED <<nodes, session, notified, pc, address>> /\ wpc' = [wpc EXCEPT ![s] = "idle"]
    BY <1>5 DEF Connect
  <2>5. bnode # "null"
    BY <2>1 DEF NoLink
  <2> QED BY <2>1, <2>3, <2>4, <2>5
<1>6. ~ListAndCloseNull(s) /\ ~PromoteCreate(s) /\ ~PromoteDelete(s) /\ ~GetNothing(s)
  BY DEF ListAndCloseNull, PromoteCreate, PromoteDelete, GetNothing
<1> QED BY <1>1, <1>2, <1>3, <1>4, <1>5, <1>6 DEF Watcher

LEMMA StartsStep ==
  ASSUME TypeOK, NodesSafe, NobodyKilled', Next
  PROVE  NodesSafe'
<1>1. PICK s \in Servers :
         \/ Start(s) \/ StartUnconnected(s) \/ Kill(s) \/ SessionEnds(s)
         \/ Main(s) \/ ExecuteWrite(s) \/ Watcher(s)
  BY DEF Next
<1>2. ~Kill(s)
  BY DEF Kill, Dies, NobodyKilled, TypeOK
<1>3. ~ExecuteWrite(s)
  BY DEF ExecuteWrite, NodesSafe, CallbackSafe
<1>4. CASE SessionEnds(s)
  <2>1. s \notin {pnode, bnode}
    BY <1>4, MembershipAssumption DEF SessionEnds, NodesSafe, NodesStay, Running, Stopped
  <2> QED
    BY <1>4, <2>1 DEF SessionEnds, TypeOK, NodesSafe, NodesStay, CallbackSafe, StartSafe
<1> QED BY <1>1, <1>2, <1>3, <1>4, StartsMain, StartsWatcher

LEMMA StartsInductive == Spec => []StartInv
<1>1. Init => StartInv
  BY MembershipAssumption DEF Init, StartInv, NodesSafe, NodesStay, CallbackSafe, StartSafe, NoLink
<1>2. ASSUME IInv, StartInv, [Next]_vars PROVE StartInv'
  <2>1. CASE Next
    BY <1>2, <2>1, NeverUnkilled, StartsStep DEF IInv, StartInv
  <2>2. CASE UNCHANGED vars
    BY <1>2, <2>2 DEF vars, StartInv, NobodyKilled, NodesSafe, NodesStay, CallbackSafe, StartSafe
  <2> QED BY <1>2, <2>1, <2>2
<1> QED BY <1>1, <1>2, Inductive, PTL DEF Spec

\* Whoever starts when, with any number of servers and in every order of their
\* calls to ZooKeeper: until one is killed no server crashes, none is linked to
\* itself, and none that registered serves without a primary.
THEOREM StartsDoNoHarm == Spec => []StartsAreSafe
<1>1. IInv /\ StartInv => StartsAreSafe
  BY DEF StartInv, NobodyKilled, NodesSafe, CallbackSafe, StartSafe, StartsAreSafe
<1> QED BY Inductive, StartsInductive, <1>1, PTL

-----------------------------------------------------------------------------
(* Servers started and killed one at a time, when the others are at rest.  *)

\* Calls of tree_skel_init after which the server has no node yet.
Early == Starting \ {"watch"}

Member(s) == pc[s] \in {"watch", "serving"}

AtRest(s) == pc[s] = "serving" /\ wpc[s] = "idle" /\ s \notin notified

\* It is starting, or it died and still has its session.
Extra(s) == pc[s] \in Early \/ (s \in session /\ ~Running(s))

OneAtATime ==
    \A s \in Servers : Extra(s) =>
        \A t \in Servers : (Extra(t) => t = s) /\ (Member(t) => AtRest(t))

MembersHaveNodes == \A s \in Servers : Member(s) => s \in session \cap {pnode, bnode}

KvstoreThere == pnode # NoServer \/ bnode # NoServer => kvstore

\* What a server that is starting has found out is still true.
StartRight ==
    \A s \in Servers :
        /\ pc[s] \in Early \cup {"off"} => rtree[s] = "unset" /\ s \notin {pnode, bnode}
        /\ pc[s] \in {"create_kvstore", "create_primary"} => pnode = NoServer
        /\ pc[s] \in {"exists_backup", "create_backup"} => pnode # NoServer
        /\ pc[s] \in {"create_kvstore", "recheck_primary", "create_primary", "create_backup"}
              => bnode = NoServer
        /\ pc[s] \in Early \ {"exists_kvstore", "create_kvstore"} => kvstore

\* A server that promotes itself holds both nodes until it deletes one.
Promoting ==
    pnode = bnode /\ pnode # NoServer => pc[pnode] = "serving" /\ wpc[pnode] = "delete"

\* With a backup, the primary is linked to it or about to be.
PrimaryRight ==
    pnode # NoServer /\ Member(pnode) =>
        /\ rtree[pnode] # "null"
        /\ bnode = NoServer => wpc[pnode] \in {"idle", "sleep"}
        /\ bnode \notin {NoServer, pnode} =>
              /\ pc[pnode] = "serving"
              /\ wpc[pnode] \in {"idle", "sleep", "get", "connect"}
              /\ wpc[pnode] = "connect" => address[pnode] = bnode
              /\ AtRest(pnode) => rtree[pnode] = bnode

\* Without a primary, the backup has heard of it and is to promote itself.
BackupRight ==
    bnode # NoServer /\ Member(bnode) =>
        /\ rtree[bnode] = "none"
        /\ pnode = NoServer =>
              pc[bnode] = "serving" /\ wpc[bnode] \in {"idle", "sleep", "create"} /\ ~AtRest(bnode)
        /\ pnode \notin {NoServer, bnode} => wpc[bnode] = "idle" /\ bnode \notin notified

NoneCrashed == \A s \in Servers : pc[s] # "segfault"

RolesRight ==
    /\ OneAtATime /\ MembersHaveNodes /\ KvstoreThere /\ StartRight
    /\ Promoting /\ PrimaryRight /\ BackupRight /\ NoneCrashed

OrderlyInv == orderly => RolesRight

LEMMA StartRoles ==
  ASSUME TypeOK, TypeOK', WatchNeverLost, RolesRight,
         NEW s \in Servers, orderly, Start(s)
  PROVE  RolesRight'
<1> USE MembershipAssumption DEF Start, Calm, TypeOK, Early, Starting, Stopped, Working, Owner,
        Running, Extra, Member, AtRest, RolesRight
<1>1. OneAtATime'
  BY SMTT(20) DEF OneAtATime, MembersHaveNodes, KvstoreThere, StartRight, Promoting,
     PrimaryRight, BackupRight, NoneCrashed
<1>2. MembersHaveNodes'
  BY SMTT(20) DEF OneAtATime, MembersHaveNodes, KvstoreThere, StartRight, Promoting,
     PrimaryRight, BackupRight, NoneCrashed
<1>3. KvstoreThere'
  BY SMTT(20) DEF OneAtATime, MembersHaveNodes, KvstoreThere, StartRight, Promoting,
     PrimaryRight, BackupRight, NoneCrashed
<1>4. StartRight'
  BY SMTT(20) DEF OneAtATime, MembersHaveNodes, KvstoreThere, StartRight, Promoting,
     PrimaryRight, BackupRight, NoneCrashed
<1>5. Promoting'
  BY SMTT(20) DEF OneAtATime, MembersHaveNodes, KvstoreThere, StartRight, Promoting,
     PrimaryRight, BackupRight, NoneCrashed
<1>6. PrimaryRight'
  BY SMTT(20) DEF OneAtATime, MembersHaveNodes, KvstoreThere, StartRight, Promoting,
     PrimaryRight, BackupRight, NoneCrashed
<1>7. BackupRight'
  BY SMTT(20) DEF OneAtATime, MembersHaveNodes, KvstoreThere, StartRight, Promoting,
     PrimaryRight, BackupRight, NoneCrashed
<1>8. NoneCrashed'
  BY SMTT(20) DEF OneAtATime, MembersHaveNodes, KvstoreThere, StartRight, Promoting,
     PrimaryRight, BackupRight, NoneCrashed
<1> QED BY <1>1, <1>2, <1>3, <1>4, <1>5, <1>6, <1>7, <1>8

LEMMA KillRoles ==
  ASSUME TypeOK, TypeOK', WatchNeverLost, RolesRight,
         NEW s \in Servers, orderly, Kill(s)
  PROVE  RolesRight'
<1> USE MembershipAssumption DEF Kill, Calm, Dies, TypeOK, Early, Starting, Stopped, Working,
        Owner, Running, Extra, Member, AtRest, RolesRight
<1>1. OneAtATime'
  BY SMTT(20) DEF OneAtATime, MembersHaveNodes, KvstoreThere, StartRight, Promoting,
     PrimaryRight, BackupRight, NoneCrashed
<1>2. MembersHaveNodes'
  BY SMTT(20) DEF OneAtATime, MembersHaveNodes, KvstoreThere, StartRight, Promoting,
     PrimaryRight, BackupRight, NoneCrashed
<1>3. KvstoreThere'
  BY SMTT(20) DEF OneAtATime, MembersHaveNodes, KvstoreThere, StartRight, Promoting,
     PrimaryRight, BackupRight, NoneCrashed
<1>4. StartRight'
  BY SMTT(20) DEF OneAtATime, MembersHaveNodes, KvstoreThere, StartRight, Promoting,
     PrimaryRight, BackupRight, NoneCrashed
<1>5. Promoting'
  BY SMTT(20) DEF OneAtATime, MembersHaveNodes, KvstoreThere, StartRight, Promoting,
     PrimaryRight, BackupRight, NoneCrashed
<1>6. PrimaryRight'
  BY SMTT(20) DEF OneAtATime, MembersHaveNodes, KvstoreThere, StartRight, Promoting,
     PrimaryRight, BackupRight, NoneCrashed
<1>7. BackupRight'
  BY SMTT(20) DEF OneAtATime, MembersHaveNodes, KvstoreThere, StartRight, Promoting,
     PrimaryRight, BackupRight, NoneCrashed
<1>8. NoneCrashed'
  BY SMTT(20) DEF OneAtATime, MembersHaveNodes, KvstoreThere, StartRight, Promoting,
     PrimaryRight, BackupRight, NoneCrashed
<1> QED BY <1>1, <1>2, <1>3, <1>4, <1>5, <1>6, <1>7, <1>8

LEMMA SessionEndsRoles ==
  ASSUME TypeOK, TypeOK', WatchNeverLost, RolesRight,
         NEW s \in Servers, SessionEnds(s)
  PROVE  RolesRight'
<1> USE MembershipAssumption DEF SessionEnds, ChildrenChange, WatchNeverLost, TypeOK, Early,
        Starting, Stopped, Working, Owner, Running, Extra, Member, AtRest, RolesRight
<1>1. OneAtATime'
  BY SMTT(20) DEF OneAtATime, MembersHaveNodes, KvstoreThere, StartRight, Promoting,
     PrimaryRight, BackupRight, NoneCrashed
<1>2. MembersHaveNodes'
  BY SMTT(20) DEF OneAtATime, MembersHaveNodes, KvstoreThere, StartRight, Promoting,
     PrimaryRight, BackupRight, NoneCrashed
<1>3. KvstoreThere'
  BY SMTT(20) DEF OneAtATime, MembersHaveNodes, KvstoreThere, StartRight, Promoting,
     PrimaryRight, BackupRight, NoneCrashed
<1>4. StartRight'
  BY SMTT(20) DEF OneAtATime, MembersHaveNodes, KvstoreThere, StartRight, Promoting,
     PrimaryRight, BackupRight, NoneCrashed
<1>5. Promoting'
  BY SMTT(20) DEF OneAtATime, MembersHaveNodes, KvstoreThere, StartRight, Promoting,
     PrimaryRight, BackupRight, NoneCrashed
<1>6. PrimaryRight'
  BY SMTT(20) DEF OneAtATime, MembersHaveNodes, KvstoreThere, StartRight, Promoting,
     PrimaryRight, BackupRight, NoneCrashed
<1>7. BackupRight'
  BY SMTT(20) DEF OneAtATime, MembersHaveNodes, KvstoreThere, StartRight, Promoting,
     PrimaryRight, BackupRight, NoneCrashed
<1>8. NoneCrashed'
  BY SMTT(20) DEF OneAtATime, MembersHaveNodes, KvstoreThere, StartRight, Promoting,
     PrimaryRight, BackupRight, NoneCrashed
<1> QED BY <1>1, <1>2, <1>3, <1>4, <1>5, <1>6, <1>7, <1>8

LEMMA ExistsKvstoreRoles ==
  ASSUME TypeOK, TypeOK', WatchNeverLost, RolesRight,
         NEW s \in Servers, ExistsKvstore(s)
  PROVE  RolesRight'
<1> USE MembershipAssumption DEF ExistsKvstore, TypeOK, Early, Starting, Stopped, Working,
        Owner, Running, Extra, Member, AtRest, RolesRight
<1>1. OneAtATime'
  BY SMTT(20) DEF OneAtATime, MembersHaveNodes, KvstoreThere, StartRight, Promoting,
     PrimaryRight, BackupRight, NoneCrashed
<1>2. MembersHaveNodes'
  BY SMTT(20) DEF OneAtATime, MembersHaveNodes, KvstoreThere, StartRight, Promoting,
     PrimaryRight, BackupRight, NoneCrashed
<1>3. KvstoreThere'
  BY SMTT(20) DEF OneAtATime, MembersHaveNodes, KvstoreThere, StartRight, Promoting,
     PrimaryRight, BackupRight, NoneCrashed
<1>4. StartRight'
  BY SMTT(20) DEF OneAtATime, MembersHaveNodes, KvstoreThere, StartRight, Promoting,
     PrimaryRight, BackupRight, NoneCrashed
<1>5. Promoting'
  BY SMTT(20) DEF OneAtATime, MembersHaveNodes, KvstoreThere, StartRight, Promoting,
     PrimaryRight, BackupRight, NoneCrashed
<1>6. PrimaryRight'
  BY SMTT(20) DEF OneAtATime, MembersHaveNodes, KvstoreThere, StartRight, Promoting,
     PrimaryRight, BackupRight, NoneCrashed
<1>7. BackupRight'
  BY SMTT(20) DEF OneAtATime, MembersHaveNodes, KvstoreThere, StartRight, Promoting,
     PrimaryRight, BackupRight, NoneCrashed
<1>8. NoneCrashed'
  BY SMTT(20) DEF OneAtATime, MembersHaveNodes, KvstoreThere, StartRight, Promoting,
     PrimaryRight, BackupRight, NoneCrashed
<1> QED BY <1>1, <1>2, <1>3, <1>4, <1>5, <1>6, <1>7, <1>8

LEMMA CreateKvstoreRoles ==
  ASSUME TypeOK, TypeOK', WatchNeverLost, RolesRight,
         NEW s \in Servers, CreateKvstore(s)
  PROVE  RolesRight'
<1> USE MembershipAssumption DEF CreateKvstore, TypeOK, Early, Starting, Stopped, Working,
        Owner, Running, Extra, Member, AtRest, RolesRight
<1>1. OneAtATime'
  BY SMTT(20) DEF OneAtATime, MembersHaveNodes, KvstoreThere, StartRight, Promoting,
     PrimaryRight, BackupRight, NoneCrashed
<1>2. MembersHaveNodes'
  BY SMTT(20) DEF OneAtATime, MembersHaveNodes, KvstoreThere, StartRight, Promoting,
     PrimaryRight, BackupRight, NoneCrashed
<1>3. KvstoreThere'
  BY SMTT(20) DEF OneAtATime, MembersHaveNodes, KvstoreThere, StartRight, Promoting,
     PrimaryRight, BackupRight, NoneCrashed
<1>4. StartRight'
  BY SMTT(20) DEF OneAtATime, MembersHaveNodes, KvstoreThere, StartRight, Promoting,
     PrimaryRight, BackupRight, NoneCrashed
<1>5. Promoting'
  BY SMTT(20) DEF OneAtATime, MembersHaveNodes, KvstoreThere, StartRight, Promoting,
     PrimaryRight, BackupRight, NoneCrashed
<1>6. PrimaryRight'
  BY SMTT(20) DEF OneAtATime, MembersHaveNodes, KvstoreThere, StartRight, Promoting,
     PrimaryRight, BackupRight, NoneCrashed
<1>7. BackupRight'
  BY SMTT(20) DEF OneAtATime, MembersHaveNodes, KvstoreThere, StartRight, Promoting,
     PrimaryRight, BackupRight, NoneCrashed
<1>8. NoneCrashed'
  BY SMTT(20) DEF OneAtATime, MembersHaveNodes, KvstoreThere, StartRight, Promoting,
     PrimaryRight, BackupRight, NoneCrashed
<1> QED BY <1>1, <1>2, <1>3, <1>4, <1>5, <1>6, <1>7, <1>8

LEMMA ExistsPrimaryRoles ==
  ASSUME TypeOK, TypeOK', WatchNeverLost, RolesRight,
         NEW s \in Servers, ExistsPrimary(s)
  PROVE  RolesRight'
<1> USE MembershipAssumption DEF ExistsPrimary, TypeOK, Early, Starting, Stopped, Working,
        Owner, Running, Extra, Member, AtRest, RolesRight
<1>1. OneAtATime'
  BY SMTT(20) DEF OneAtATime, MembersHaveNodes, KvstoreThere, StartRight, Promoting,
     PrimaryRight, BackupRight, NoneCrashed
<1>2. MembersHaveNodes'
  BY SMTT(20) DEF OneAtATime, MembersHaveNodes, KvstoreThere, StartRight, Promoting,
     PrimaryRight, BackupRight, NoneCrashed
<1>3. KvstoreThere'
  BY SMTT(20) DEF OneAtATime, MembersHaveNodes, KvstoreThere, StartRight, Promoting,
     PrimaryRight, BackupRight, NoneCrashed
<1>4. StartRight'
  BY SMTT(20) DEF OneAtATime, MembersHaveNodes, KvstoreThere, StartRight, Promoting,
     PrimaryRight, BackupRight, NoneCrashed
<1>5. Promoting'
  BY SMTT(20) DEF OneAtATime, MembersHaveNodes, KvstoreThere, StartRight, Promoting,
     PrimaryRight, BackupRight, NoneCrashed
<1>6. PrimaryRight'
  BY SMTT(20) DEF OneAtATime, MembersHaveNodes, KvstoreThere, StartRight, Promoting,
     PrimaryRight, BackupRight, NoneCrashed
<1>7. BackupRight'
  BY SMTT(20) DEF OneAtATime, MembersHaveNodes, KvstoreThere, StartRight, Promoting,
     PrimaryRight, BackupRight, NoneCrashed
<1>8. NoneCrashed'
  BY SMTT(20) DEF OneAtATime, MembersHaveNodes, KvstoreThere, StartRight, Promoting,
     PrimaryRight, BackupRight, NoneCrashed
<1> QED BY <1>1, <1>2, <1>3, <1>4, <1>5, <1>6, <1>7, <1>8

LEMMA ExistsBackupRoles ==
  ASSUME TypeOK, TypeOK', WatchNeverLost, RolesRight,
         NEW s \in Servers, ExistsBackup(s)
  PROVE  RolesRight'
<1> USE MembershipAssumption DEF ExistsBackup, TypeOK, Early, Starting, Stopped, Working,
        Owner, Running, Extra, Member, AtRest, RolesRight
<1>1. OneAtATime'
  BY SMTT(20) DEF OneAtATime, MembersHaveNodes, KvstoreThere, StartRight, Promoting,
     PrimaryRight, BackupRight, NoneCrashed
<1>2. MembersHaveNodes'
  BY SMTT(20) DEF OneAtATime, MembersHaveNodes, KvstoreThere, StartRight, Promoting,
     PrimaryRight, BackupRight, NoneCrashed
<1>3. KvstoreThere'
  BY SMTT(20) DEF OneAtATime, MembersHaveNodes, KvstoreThere, StartRight, Promoting,
     PrimaryRight, BackupRight, NoneCrashed
<1>4. StartRight'
  BY SMTT(20) DEF OneAtATime, MembersHaveNodes, KvstoreThere, StartRight, Promoting,
     PrimaryRight, BackupRight, NoneCrashed
<1>5. Promoting'
  BY SMTT(20) DEF OneAtATime, MembersHaveNodes, KvstoreThere, StartRight, Promoting,
     PrimaryRight, BackupRight, NoneCrashed
<1>6. PrimaryRight'
  BY SMTT(20) DEF OneAtATime, MembersHaveNodes, KvstoreThere, StartRight, Promoting,
     PrimaryRight, BackupRight, NoneCrashed
<1>7. BackupRight'
  BY SMTT(20) DEF OneAtATime, MembersHaveNodes, KvstoreThere, StartRight, Promoting,
     PrimaryRight, BackupRight, NoneCrashed
<1>8. NoneCrashed'
  BY SMTT(20) DEF OneAtATime, MembersHaveNodes, KvstoreThere, StartRight, Promoting,
     PrimaryRight, BackupRight, NoneCrashed
<1> QED BY <1>1, <1>2, <1>3, <1>4, <1>5, <1>6, <1>7, <1>8

LEMMA RecheckPrimaryRoles ==
  ASSUME TypeOK, TypeOK', WatchNeverLost, RolesRight,
         NEW s \in Servers, RecheckPrimary(s)
  PROVE  RolesRight'
<1> USE MembershipAssumption DEF RecheckPrimary, TypeOK, Early, Starting, Stopped, Working,
        Owner, Running, Extra, Member, AtRest, RolesRight
<1>1. OneAtATime'
  BY SMTT(20) DEF OneAtATime, MembersHaveNodes, KvstoreThere, StartRight, Promoting,
     PrimaryRight, BackupRight, NoneCrashed
<1>2. MembersHaveNodes'
  BY SMTT(20) DEF OneAtATime, MembersHaveNodes, KvstoreThere, StartRight, Promoting,
     PrimaryRight, BackupRight, NoneCrashed
<1>3. KvstoreThere'
  BY SMTT(20) DEF OneAtATime, MembersHaveNodes, KvstoreThere, StartRight, Promoting,
     PrimaryRight, BackupRight, NoneCrashed
<1>4. StartRight'
  BY SMTT(20) DEF OneAtATime, MembersHaveNodes, KvstoreThere, StartRight, Promoting,
     PrimaryRight, BackupRight, NoneCrashed
<1>5. Promoting'
  BY SMTT(20) DEF OneAtATime, MembersHaveNodes, KvstoreThere, StartRight, Promoting,
     PrimaryRight, BackupRight, NoneCrashed
<1>6. PrimaryRight'
  BY SMTT(20) DEF OneAtATime, MembersHaveNodes, KvstoreThere, StartRight, Promoting,
     PrimaryRight, BackupRight, NoneCrashed
<1>7. BackupRight'
  BY SMTT(20) DEF OneAtATime, MembersHaveNodes, KvstoreThere, StartRight, Promoting,
     PrimaryRight, BackupRight, NoneCrashed
<1>8. NoneCrashed'
  BY SMTT(20) DEF OneAtATime, MembersHaveNodes, KvstoreThere, StartRight, Promoting,
     PrimaryRight, BackupRight, NoneCrashed
<1> QED BY <1>1, <1>2, <1>3, <1>4, <1>5, <1>6, <1>7, <1>8

LEMMA CreatePrimaryRoles ==
  ASSUME TypeOK, TypeOK', WatchNeverLost, RolesRight,
         NEW s \in Servers, CreatePrimary(s)
  PROVE  RolesRight'
<1> USE MembershipAssumption DEF CreatePrimary, CreatesPrimary, ChildrenChange, WatchNeverLost,
        TypeOK, Early, Starting, Stopped, Working, Owner, Running, Extra, Member, AtRest,
        RolesRight
<1>1. OneAtATime'
  BY SMTT(20) DEF OneAtATime, MembersHaveNodes, KvstoreThere, StartRight, Promoting,
     PrimaryRight, BackupRight, NoneCrashed
<1>2. MembersHaveNodes'
  BY SMTT(20) DEF OneAtATime, MembersHaveNodes, KvstoreThere, StartRight, Promoting,
     PrimaryRight, BackupRight, NoneCrashed
<1>3. KvstoreThere'
  BY SMTT(20) DEF OneAtATime, MembersHaveNodes, KvstoreThere, StartRight, Promoting,
     PrimaryRight, BackupRight, NoneCrashed
<1>4. StartRight'
  BY SMTT(20) DEF OneAtATime, MembersHaveNodes, KvstoreThere, StartRight, Promoting,
     PrimaryRight, BackupRight, NoneCrashed
<1>5. Promoting'
  BY SMTT(20) DEF OneAtATime, MembersHaveNodes, KvstoreThere, StartRight, Promoting,
     PrimaryRight, BackupRight, NoneCrashed
<1>6. PrimaryRight'
  BY SMTT(20) DEF OneAtATime, MembersHaveNodes, KvstoreThere, StartRight, Promoting,
     PrimaryRight, BackupRight, NoneCrashed
<1>7. BackupRight'
  BY SMTT(20) DEF OneAtATime, MembersHaveNodes, KvstoreThere, StartRight, Promoting,
     PrimaryRight, BackupRight, NoneCrashed
<1>8. NoneCrashed'
  BY SMTT(20) DEF OneAtATime, MembersHaveNodes, KvstoreThere, StartRight, Promoting,
     PrimaryRight, BackupRight, NoneCrashed
<1> QED BY <1>1, <1>2, <1>3, <1>4, <1>5, <1>6, <1>7, <1>8

LEMMA CreateBackupRoles ==
  ASSUME TypeOK, TypeOK', WatchNeverLost, RolesRight,
         NEW s \in Servers, CreateBackup(s)
  PROVE  RolesRight'
<1> USE MembershipAssumption DEF CreateBackup, ChildrenChange, WatchNeverLost, TypeOK, Early,
        Starting, Stopped, Working, Owner, Running, Extra, Member, AtRest, RolesRight
<1>1. OneAtATime'
  BY SMTT(20) DEF OneAtATime, MembersHaveNodes, KvstoreThere, StartRight, Promoting,
     PrimaryRight, BackupRight, NoneCrashed
<1>2. MembersHaveNodes'
  BY SMTT(20) DEF OneAtATime, MembersHaveNodes, KvstoreThere, StartRight, Promoting,
     PrimaryRight, BackupRight, NoneCrashed
<1>3. KvstoreThere'
  BY SMTT(20) DEF OneAtATime, MembersHaveNodes, KvstoreThere, StartRight, Promoting,
     PrimaryRight, BackupRight, NoneCrashed
<1>4. StartRight'
  BY SMTT(20) DEF OneAtATime, MembersHaveNodes, KvstoreThere, StartRight, Promoting,
     PrimaryRight, BackupRight, NoneCrashed
<1>5. Promoting'
  BY SMTT(20) DEF OneAtATime, MembersHaveNodes, KvstoreThere, StartRight, Promoting,
     PrimaryRight, BackupRight, NoneCrashed
<1>6. PrimaryRight'
  BY SMTT(20) DEF OneAtATime, MembersHaveNodes, KvstoreThere, StartRight, Promoting,
     PrimaryRight, BackupRight, NoneCrashed
<1>7. BackupRight'
  BY SMTT(20) DEF OneAtATime, MembersHaveNodes, KvstoreThere, StartRight, Promoting,
     PrimaryRight, BackupRight, NoneCrashed
<1>8. NoneCrashed'
  BY SMTT(20) DEF OneAtATime, MembersHaveNodes, KvstoreThere, StartRight, Promoting,
     PrimaryRight, BackupRight, NoneCrashed
<1> QED BY <1>1, <1>2, <1>3, <1>4, <1>5, <1>6, <1>7, <1>8

LEMMA WatchRoles ==
  ASSUME TypeOK, TypeOK', WatchNeverLost, RolesRight,
         NEW s \in Servers, Watch(s)
  PROVE  RolesRight'
<1> USE MembershipAssumption DEF Watch, TypeOK, Early, Starting, Stopped, Working, Owner,
        Running, Extra, Member, AtRest, RolesRight
<1>1. OneAtATime'
  BY SMTT(20) DEF OneAtATime, MembersHaveNodes, KvstoreThere, StartRight, Promoting,
     PrimaryRight, BackupRight, NoneCrashed
<1>2. MembersHaveNodes'
  BY SMTT(20) DEF OneAtATime, MembersHaveNodes, KvstoreThere, StartRight, Promoting,
     PrimaryRight, BackupRight, NoneCrashed
<1>3. KvstoreThere'
  BY SMTT(20) DEF OneAtATime, MembersHaveNodes, KvstoreThere, StartRight, Promoting,
     PrimaryRight, BackupRight, NoneCrashed
<1>4. StartRight'
  BY SMTT(20) DEF OneAtATime, MembersHaveNodes, KvstoreThere, StartRight, Promoting,
     PrimaryRight, BackupRight, NoneCrashed
<1>5. Promoting'
  BY SMTT(20) DEF OneAtATime, MembersHaveNodes, KvstoreThere, StartRight, Promoting,
     PrimaryRight, BackupRight, NoneCrashed
<1>6. PrimaryRight'
  BY SMTT(20) DEF OneAtATime, MembersHaveNodes, KvstoreThere, StartRight, Promoting,
     PrimaryRight, BackupRight, NoneCrashed
<1>7. BackupRight'
  BY SMTT(20) DEF OneAtATime, MembersHaveNodes, KvstoreThere, StartRight, Promoting,
     PrimaryRight, BackupRight, NoneCrashed
<1>8. NoneCrashed'
  BY SMTT(20) DEF OneAtATime, MembersHaveNodes, KvstoreThere, StartRight, Promoting,
     PrimaryRight, BackupRight, NoneCrashed
<1> QED BY <1>1, <1>2, <1>3, <1>4, <1>5, <1>6, <1>7, <1>8

LEMMA CalledRoles ==
  ASSUME TypeOK, TypeOK', WatchNeverLost, RolesRight,
         NEW s \in Servers, Called(s)
  PROVE  RolesRight'
<1> USE MembershipAssumption DEF Called, TypeOK, Early, Starting, Stopped, Working, Owner,
        Running, Extra, Member, AtRest, RolesRight
<1>1. OneAtATime'
  BY SMTT(20) DEF OneAtATime, MembersHaveNodes, KvstoreThere, StartRight, Promoting,
     PrimaryRight, BackupRight, NoneCrashed
<1>2. MembersHaveNodes'
  BY SMTT(20) DEF OneAtATime, MembersHaveNodes, KvstoreThere, StartRight, Promoting,
     PrimaryRight, BackupRight, NoneCrashed
<1>3. KvstoreThere'
  BY SMTT(20) DEF OneAtATime, MembersHaveNodes, KvstoreThere, StartRight, Promoting,
     PrimaryRight, BackupRight, NoneCrashed
<1>4. StartRight'
  BY SMTT(20) DEF OneAtATime, MembersHaveNodes, KvstoreThere, StartRight, Promoting,
     PrimaryRight, BackupRight, NoneCrashed
<1>5. Promoting'
  BY SMTT(20) DEF OneAtATime, MembersHaveNodes, KvstoreThere, StartRight, Promoting,
     PrimaryRight, BackupRight, NoneCrashed
<1>6. PrimaryRight'
  BY SMTT(20) DEF OneAtATime, MembersHaveNodes, KvstoreThere, StartRight, Promoting,
     PrimaryRight, BackupRight, NoneCrashed
<1>7. BackupRight'
  BY SMTT(20) DEF OneAtATime, MembersHaveNodes, KvstoreThere, StartRight, Promoting,
     PrimaryRight, BackupRight, NoneCrashed
<1>8. NoneCrashed'
  BY SMTT(20) DEF OneAtATime, MembersHaveNodes, KvstoreThere, StartRight, Promoting,
     PrimaryRight, BackupRight, NoneCrashed
<1> QED BY <1>1, <1>2, <1>3, <1>4, <1>5, <1>6, <1>7, <1>8

LEMMA ListRoles ==
  ASSUME TypeOK, TypeOK', WatchNeverLost, RolesRight,
         NEW s \in Servers, List(s)
  PROVE  RolesRight'
<1> USE MembershipAssumption DEF List, Decision, TypeOK, Early, Starting, Stopped, Working,
        Owner, Running, Extra, Member, AtRest, RolesRight
<1>1. OneAtATime'
  BY SMTT(20) DEF OneAtATime, MembersHaveNodes, KvstoreThere, StartRight, Promoting,
     PrimaryRight, BackupRight, NoneCrashed
<1>2. MembersHaveNodes'
  BY SMTT(20) DEF OneAtATime, MembersHaveNodes, KvstoreThere, StartRight, Promoting,
     PrimaryRight, BackupRight, NoneCrashed
<1>3. KvstoreThere'
  BY SMTT(20) DEF OneAtATime, MembersHaveNodes, KvstoreThere, StartRight, Promoting,
     PrimaryRight, BackupRight, NoneCrashed
<1>4. StartRight'
  BY SMTT(20) DEF OneAtATime, MembersHaveNodes, KvstoreThere, StartRight, Promoting,
     PrimaryRight, BackupRight, NoneCrashed
<1>5. Promoting'
  BY SMTT(20) DEF OneAtATime, MembersHaveNodes, KvstoreThere, StartRight, Promoting,
     PrimaryRight, BackupRight, NoneCrashed
<1>6. PrimaryRight'
  BY SMTT(20) DEF OneAtATime, MembersHaveNodes, KvstoreThere, StartRight, Promoting,
     PrimaryRight, BackupRight, NoneCrashed
<1>7. BackupRight'
  BY SMTT(20) DEF OneAtATime, MembersHaveNodes, KvstoreThere, StartRight, Promoting,
     PrimaryRight, BackupRight, NoneCrashed
<1>8. NoneCrashed'
  BY SMTT(20) DEF OneAtATime, MembersHaveNodes, KvstoreThere, StartRight, Promoting,
     PrimaryRight, BackupRight, NoneCrashed
<1> QED BY <1>1, <1>2, <1>3, <1>4, <1>5, <1>6, <1>7, <1>8

LEMMA ListAndCloseRoles ==
  ASSUME TypeOK, TypeOK', WatchNeverLost, RolesRight,
         NEW s \in Servers, ListAndClose(s)
  PROVE  RolesRight'
<1> USE MembershipAssumption DEF ListAndClose, Decision, NoLink, TypeOK, Early, Starting,
        Stopped, Working, Owner, Running, Extra, Member, AtRest, RolesRight
<1>1. OneAtATime'
  BY SMTT(20) DEF OneAtATime, MembersHaveNodes, KvstoreThere, StartRight, Promoting,
     PrimaryRight, BackupRight, NoneCrashed
<1>2. MembersHaveNodes'
  BY SMTT(20) DEF OneAtATime, MembersHaveNodes, KvstoreThere, StartRight, Promoting,
     PrimaryRight, BackupRight, NoneCrashed
<1>3. KvstoreThere'
  BY SMTT(20) DEF OneAtATime, MembersHaveNodes, KvstoreThere, StartRight, Promoting,
     PrimaryRight, BackupRight, NoneCrashed
<1>4. StartRight'
  BY SMTT(20) DEF OneAtATime, MembersHaveNodes, KvstoreThere, StartRight, Promoting,
     PrimaryRight, BackupRight, NoneCrashed
<1>5. Promoting'
  BY SMTT(20) DEF OneAtATime, MembersHaveNodes, KvstoreThere, StartRight, Promoting,
     PrimaryRight, BackupRight, NoneCrashed
<1>6. PrimaryRight'
  BY SMTT(20) DEF OneAtATime, MembersHaveNodes, KvstoreThere, StartRight, Promoting,
     PrimaryRight, BackupRight, NoneCrashed
<1>7. BackupRight'
  BY SMTT(20) DEF OneAtATime, MembersHaveNodes, KvstoreThere, StartRight, Promoting,
     PrimaryRight, BackupRight, NoneCrashed
<1>8. NoneCrashed'
  BY SMTT(20) DEF OneAtATime, MembersHaveNodes, KvstoreThere, StartRight, Promoting,
     PrimaryRight, BackupRight, NoneCrashed
<1> QED BY <1>1, <1>2, <1>3, <1>4, <1>5, <1>6, <1>7, <1>8

LEMMA PromoteCreateRoles ==
  ASSUME TypeOK, TypeOK', WatchNeverLost, RolesRight,
         NEW s \in Servers, PromoteCreate(s)
  PROVE  RolesRight'
<1> USE MembershipAssumption DEF PromoteCreate, CreatesPrimary, ChildrenChange, WatchNeverLost,
        TypeOK, Early, Starting, Stopped, Working, Owner, Running, Extra, Member, AtRest,
        RolesRight
<1>1. OneAtATime'
  BY SMTT(20) DEF OneAtATime, MembersHaveNodes, KvstoreThere, StartRight, Promoting,
     PrimaryRight, BackupRight, NoneCrashed
<1>2. MembersHaveNodes'
  BY SMTT(20) DEF OneAtATime, MembersHaveNodes, KvstoreThere, StartRight, Promoting,
     PrimaryRight, BackupRight, NoneCrashed
<1>3. KvstoreThere'
  BY SMTT(20) DEF OneAtATime, MembersHaveNodes, KvstoreThere, StartRight, Promoting,
     PrimaryRight, BackupRight, NoneCrashed
<1>4. StartRight'
  BY SMTT(20) DEF OneAtATime, MembersHaveNodes, KvstoreThere, StartRight, Promoting,
     PrimaryRight, BackupRight, NoneCrashed
<1>5. Promoting'
  BY SMTT(20) DEF OneAtATime, MembersHaveNodes, KvstoreThere, StartRight, Promoting,
     PrimaryRight, BackupRight, NoneCrashed
<1>6. PrimaryRight'
  BY SMTT(20) DEF OneAtATime, MembersHaveNodes, KvstoreThere, StartRight, Promoting,
     PrimaryRight, BackupRight, NoneCrashed
<1>7. BackupRight'
  BY SMTT(20) DEF OneAtATime, MembersHaveNodes, KvstoreThere, StartRight, Promoting,
     PrimaryRight, BackupRight, NoneCrashed
<1>8. NoneCrashed'
  BY SMTT(20) DEF OneAtATime, MembersHaveNodes, KvstoreThere, StartRight, Promoting,
     PrimaryRight, BackupRight, NoneCrashed
<1> QED BY <1>1, <1>2, <1>3, <1>4, <1>5, <1>6, <1>7, <1>8

LEMMA PromoteDeleteRoles ==
  ASSUME TypeOK, TypeOK', WatchNeverLost, RolesRight,
         NEW s \in Servers, PromoteDelete(s)
  PROVE  RolesRight'
<1> USE MembershipAssumption DEF PromoteDelete, ChildrenChange, WatchNeverLost, TypeOK, Early,
        Starting, Stopped, Working, Owner, Running, Extra, Member, AtRest, RolesRight
<1>1. OneAtATime'
  BY SMTT(20) DEF OneAtATime, MembersHaveNodes, KvstoreThere, StartRight, Promoting,
     PrimaryRight, BackupRight, NoneCrashed
<1>2. MembersHaveNodes'
  BY SMTT(20) DEF OneAtATime, MembersHaveNodes, KvstoreThere, StartRight, Promoting,
     PrimaryRight, BackupRight, NoneCrashed
<1>3. KvstoreThere'
  BY SMTT(20) DEF OneAtATime, MembersHaveNodes, KvstoreThere, StartRight, Promoting,
     PrimaryRight, BackupRight, NoneCrashed
<1>4. StartRight'
  BY SMTT(20) DEF OneAtATime, MembersHaveNodes, KvstoreThere, StartRight, Promoting,
     PrimaryRight, BackupRight, NoneCrashed
<1>5. Promoting'
  BY SMTT(20) DEF OneAtATime, MembersHaveNodes, KvstoreThere, StartRight, Promoting,
     PrimaryRight, BackupRight, NoneCrashed
<1>6. PrimaryRight'
  BY SMTT(20) DEF OneAtATime, MembersHaveNodes, KvstoreThere, StartRight, Promoting,
     PrimaryRight, BackupRight, NoneCrashed
<1>7. BackupRight'
  BY SMTT(20) DEF OneAtATime, MembersHaveNodes, KvstoreThere, StartRight, Promoting,
     PrimaryRight, BackupRight, NoneCrashed
<1>8. NoneCrashed'
  BY SMTT(20) DEF OneAtATime, MembersHaveNodes, KvstoreThere, StartRight, Promoting,
     PrimaryRight, BackupRight, NoneCrashed
<1> QED BY <1>1, <1>2, <1>3, <1>4, <1>5, <1>6, <1>7, <1>8

LEMMA GetBackupRoles ==
  ASSUME TypeOK, TypeOK', WatchNeverLost, RolesRight,
         NEW s \in Servers, GetBackup(s)
  PROVE  RolesRight'
<1> USE MembershipAssumption DEF GetBackup, TypeOK, Early, Starting, Stopped, Working, Owner,
        Running, Extra, Member, AtRest, RolesRight
<1>1. OneAtATime'
  BY SMTT(20) DEF OneAtATime, MembersHaveNodes, KvstoreThere, StartRight, Promoting,
     PrimaryRight, BackupRight, NoneCrashed
<1>2. MembersHaveNodes'
  BY SMTT(20) DEF OneAtATime, MembersHaveNodes, KvstoreThere, StartRight, Promoting,
     PrimaryRight, BackupRight, NoneCrashed
<1>3. KvstoreThere'
  BY SMTT(20) DEF OneAtATime, MembersHaveNodes, KvstoreThere, StartRight, Promoting,
     PrimaryRight, BackupRight, NoneCrashed
<1>4. StartRight'
  BY SMTT(20) DEF OneAtATime, MembersHaveNodes, KvstoreThere, StartRight, Promoting,
     PrimaryRight, BackupRight, NoneCrashed
<1>5. Promoting'
  BY SMTT(20) DEF OneAtATime, MembersHaveNodes, KvstoreThere, StartRight, Promoting,
     PrimaryRight, BackupRight, NoneCrashed
<1>6. PrimaryRight'
  BY SMTT(20) DEF OneAtATime, MembersHaveNodes, KvstoreThere, StartRight, Promoting,
     PrimaryRight, BackupRight, NoneCrashed
<1>7. BackupRight'
  BY SMTT(20) DEF OneAtATime, MembersHaveNodes, KvstoreThere, StartRight, Promoting,
     PrimaryRight, BackupRight, NoneCrashed
<1>8. NoneCrashed'
  BY SMTT(20) DEF OneAtATime, MembersHaveNodes, KvstoreThere, StartRight, Promoting,
     PrimaryRight, BackupRight, NoneCrashed
<1> QED BY <1>1, <1>2, <1>3, <1>4, <1>5, <1>6, <1>7, <1>8

LEMMA ConnectRoles ==
  ASSUME TypeOK, TypeOK', WatchNeverLost, RolesRight,
         NEW s \in Servers, Connect(s)
  PROVE  RolesRight'
<1> USE MembershipAssumption DEF Connect, NoLink, TypeOK, Early, Starting, Stopped, Working,
        Owner, Running, Extra, Member, AtRest, RolesRight
<1>1. OneAtATime'
  BY SMTT(20) DEF OneAtATime, MembersHaveNodes, KvstoreThere, StartRight, Promoting,
     PrimaryRight, BackupRight, NoneCrashed
<1>2. MembersHaveNodes'
  BY SMTT(20) DEF OneAtATime, MembersHaveNodes, KvstoreThere, StartRight, Promoting,
     PrimaryRight, BackupRight, NoneCrashed
<1>3. KvstoreThere'
  BY SMTT(20) DEF OneAtATime, MembersHaveNodes, KvstoreThere, StartRight, Promoting,
     PrimaryRight, BackupRight, NoneCrashed
<1>4. StartRight'
  BY SMTT(20) DEF OneAtATime, MembersHaveNodes, KvstoreThere, StartRight, Promoting,
     PrimaryRight, BackupRight, NoneCrashed
<1>5. Promoting'
  BY SMTT(20) DEF OneAtATime, MembersHaveNodes, KvstoreThere, StartRight, Promoting,
     PrimaryRight, BackupRight, NoneCrashed
<1>6. PrimaryRight'
  BY SMTT(20) DEF OneAtATime, MembersHaveNodes, KvstoreThere, StartRight, Promoting,
     PrimaryRight, BackupRight, NoneCrashed
<1>7. BackupRight'
  BY SMTT(20) DEF OneAtATime, MembersHaveNodes, KvstoreThere, StartRight, Promoting,
     PrimaryRight, BackupRight, NoneCrashed
<1>8. NoneCrashed'
  BY SMTT(20) DEF OneAtATime, MembersHaveNodes, KvstoreThere, StartRight, Promoting,
     PrimaryRight, BackupRight, NoneCrashed
<1> QED BY <1>1, <1>2, <1>3, <1>4, <1>5, <1>6, <1>7, <1>8

\* child_watcher never meets a NULL rtreeglobal, or a node gone before it
\* reads it, and process_task neither.
LEMMA NoCrashStep ==
  ASSUME TypeOK, RolesRight, NEW s \in Servers
  PROVE  ~ExecuteWrite(s) /\ ~ListAndCloseNull(s) /\ ~GetNothing(s)
  BY MembershipAssumption, SMTT(20)
     DEF ExecuteWrite, ListAndCloseNull, GetNothing, Decision, TypeOK, Member, RolesRight,
         MembersHaveNodes, Promoting, PrimaryRight, BackupRight

LEMMA InitRoles == Init => RolesRight
<1> SUFFICES ASSUME Init PROVE RolesRight
  OBVIOUS
<1>1. \A s \in Servers : ~Extra(s) /\ ~Member(s)
  BY DEF Init, Extra, Member, Early, Starting
<1>2. OneAtATime /\ MembersHaveNodes /\ KvstoreThere
  BY <1>1 DEF Init, OneAtATime, MembersHaveNodes, KvstoreThere
<1>3. StartRight
  BY MembershipAssumption DEF Init, StartRight, Early, Starting
<1>4. Promoting /\ PrimaryRight /\ BackupRight /\ NoneCrashed
  BY DEF Init, Promoting, PrimaryRight, BackupRight, NoneCrashed
<1> QED BY <1>2, <1>3, <1>4 DEF RolesRight

LEMMA MainRoles ==
  ASSUME TypeOK, TypeOK', WatchNeverLost, RolesRight, NEW s \in Servers, Main(s)
  PROVE  RolesRight'
  BY ExistsKvstoreRoles, CreateKvstoreRoles, ExistsPrimaryRoles, ExistsBackupRoles,
     RecheckPrimaryRoles, CreatePrimaryRoles, CreateBackupRoles, WatchRoles DEF Main

LEMMA WatcherRoles ==
  ASSUME TypeOK, TypeOK', WatchNeverLost, RolesRight, NEW s \in Servers, Watcher(s)
  PROVE  RolesRight'
  BY NoCrashStep, CalledRoles, ListRoles, ListAndCloseRoles, PromoteCreateRoles,
     PromoteDeleteRoles, GetBackupRoles, ConnectRoles DEF Watcher

LEMMA NextRoles ==
  ASSUME TypeOK, TypeOK', WatchNeverLost, RolesRight, orderly, Next
  PROVE  RolesRight'
<1>1. PICK s \in Servers :
         \/ Start(s) \/ StartUnconnected(s) \/ Kill(s) \/ SessionEnds(s)
         \/ Main(s) \/ ExecuteWrite(s) \/ Watcher(s)
  BY DEF Next
<1>2. ~StartUnconnected(s) /\ ~ExecuteWrite(s)
  BY NoCrashStep DEF StartUnconnected
<1> QED BY <1>1, <1>2, StartRoles, KillRoles, SessionEndsRoles, MainRoles, WatcherRoles

LEMMA OrderlyForever == Next => orderly' = orderly
  BY DEF Next, Start, StartUnconnected, Kill, Dies, SessionEnds, Main, ExistsKvstore, CreateKvstore,
         ExistsPrimary, ExistsBackup, RecheckPrimary, CreatePrimary, CreatesPrimary,
         CreateBackup, Watch, ExecuteWrite, Watcher, Called, List, ListAndClose,
         ListAndCloseNull, PromoteCreate, PromoteDelete, GetBackup, GetNothing, Connect

LEMMA NextOrderly ==
  ASSUME IInv, IInv', OrderlyInv, [Next]_vars
  PROVE  OrderlyInv'
<1>1. CASE Next
  BY <1>1, OrderlyForever, NextRoles DEF IInv, OrderlyInv
<1>2. CASE UNCHANGED vars
  BY <1>2 DEF vars, OrderlyInv, RolesRight, OneAtATime, MembersHaveNodes, KvstoreThere, StartRight,
              Promoting, PrimaryRight, BackupRight, NoneCrashed, Extra, Member, AtRest, Running
<1> QED BY <1>1, <1>2

LEMMA OrderlyInductive == Spec => []OrderlyInv
<1>1. Init => OrderlyInv BY InitRoles DEF OrderlyInv
<1> QED BY <1>1, Inductive, NextOrderly, PTL DEF Spec

\* If servers are started and killed only when the others are at rest, then
\* whenever all is calm every running server has exactly one of the
\* two roles and one of them is primary (tree_skel.c:159-187).
THEOREM OneRoleEach == Spec => []EveryServerHasRole
<1>1. IInv /\ OrderlyInv => EveryServerHasRole
  <2> SUFFICES ASSUME TypeOK, RolesRight, Calm, NEW s \in Servers, Running(s)
               PROVE  pnode # NoServer /\ (s = pnode) # (s = bnode)
    BY DEF IInv, OrderlyInv, EveryServerHasRole
  <2>1. AtRest(s) /\ Member(s)
    BY DEF Calm, AtRest, Member
  <2>2. s \in {pnode, bnode}
    BY <2>1 DEF RolesRight, MembersHaveNodes
  <2>3. pnode # NoServer
    BY <2>1, <2>2, MembershipAssumption DEF RolesRight, BackupRight
  <2>4. ~(s = pnode /\ s = bnode)
    BY <2>1, <2>3 DEF RolesRight, Promoting, AtRest
  <2> QED BY <2>2, <2>3, <2>4
<1> QED BY Inductive, OrderlyInductive, <1>1, PTL

\* There, whenever all is calm and there is a backup, the primary forwards to
\* it and it forwards to nobody (tree_skel.c:84-88).
THEOREM CalmPrimaryLinked == Spec => []PrimaryLinked
<1>1. IInv /\ OrderlyInv => PrimaryLinked
  <2> SUFFICES ASSUME TypeOK, RolesRight, Calm, bnode # NoServer
               PROVE  rtree[pnode] = bnode /\ rtree[bnode] = "none"
    BY DEF IInv, OrderlyInv, PrimaryLinked
  <2>1. \A s \in session : AtRest(s) /\ Member(s)
    BY DEF Calm, AtRest, Member, TypeOK
  <2>2. AtRest(bnode) /\ Member(bnode)
    BY <2>1 DEF TypeOK
  <2>3. pnode # NoServer /\ rtree[bnode] = "none"
    BY <2>2 DEF RolesRight, BackupRight
  <2>4. AtRest(pnode) /\ Member(pnode)
    BY <2>1, <2>3 DEF TypeOK
  <2>5. pnode # bnode
    BY <2>3, <2>4 DEF RolesRight, Promoting, AtRest
  <2> QED BY <2>3, <2>4, <2>5 DEF RolesRight, PrimaryRight
<1> QED BY Inductive, OrderlyInductive, <1>1, PTL

=============================================================================
