-------------------------- MODULE ReplicationProofs --------------------------
(***************************************************************************)
(* Replication proved for every value of its constants: both servers keep  *)
(* their types, and the writes reach the backup in the order of the        *)
(* primary; as long as no forwarded write was lost, both know the writes   *)
(* under the same numbers, and once all is quiet they hold the same tree.  *)
(* What holds of each server on its own is TreeSkelProofs'.                *)
(***************************************************************************)
EXTENDS Replication, SequenceTheorems, NaturalsInduction, WellFoundedInduction, TLAPS

-----------------------------------------------------------------------------
(* Subsequences.                                                           *)

LEMMA SubGrows ==
  ASSUME NEW C, NEW s \in Seq(C), NEW t \in Seq(C), NEW x \in C, IsSubsequence(s, t)
  PROVE  IsSubsequence(s, Append(t, x))
<1>1. PICK f \in [DOMAIN s -> DOMAIN t] :
        /\ \A i, j \in DOMAIN s : i < j => f[i] < f[j]
        /\ \A i \in DOMAIN s : s[i] = t[f[i]]
  BY DEF IsSubsequence
<1>2. /\ DOMAIN Append(t, x) = 1..Len(t) + 1 /\ DOMAIN t = 1..Len(t) /\ Len(t) \in Nat
      /\ \A i \in 1..Len(t) : Append(t, x)[i] = t[i]
  BY AppendProperties, LenProperties
<1>3. f \in [DOMAIN s -> DOMAIN Append(t, x)]
  BY <1>2
<1>4. \A i \in DOMAIN s : s[i] = Append(t, x)[f[i]]
  BY <1>1, <1>2
<1>5. QED
  BY <1>1, <1>3, <1>4 DEF IsSubsequence

LEMMA SubAppend ==
  ASSUME NEW C, NEW s \in Seq(C), NEW t \in Seq(C), NEW x \in C, IsSubsequence(s, t)
  PROVE  IsSubsequence(Append(s, x), Append(t, x))
<1>1. PICK f \in [DOMAIN s -> DOMAIN t] :
        /\ \A i, j \in DOMAIN s : i < j => f[i] < f[j]
        /\ \A i \in DOMAIN s : s[i] = t[f[i]]
  BY DEF IsSubsequence
<1>2. /\ DOMAIN Append(t, x) = 1..Len(t) + 1 /\ DOMAIN t = 1..Len(t) /\ Len(t) \in Nat
      /\ \A i \in 1..Len(t) : Append(t, x)[i] = t[i]
      /\ Append(t, x)[Len(t) + 1] = x
      /\ DOMAIN Append(s, x) = 1..Len(s) + 1 /\ DOMAIN s = 1..Len(s) /\ Len(s) \in Nat
      /\ \A i \in 1..Len(s) : Append(s, x)[i] = s[i]
      /\ Append(s, x)[Len(s) + 1] = x
  BY AppendProperties, LenProperties
<1> DEFINE g == [i \in 1..Len(s) + 1 |-> IF i \in 1..Len(s) THEN f[i] ELSE Len(t) + 1]
<1>3. \A i \in 1..Len(s) : f[i] \in 1..Len(t) /\ g[i] = f[i]
  BY <1>2
<1>4. g[Len(s) + 1] = Len(t) + 1
  BY <1>2
<1>5. \A i \in 1..Len(s) + 1 : i \in 1..Len(s) \/ i = Len(s) + 1
  BY <1>2
<1>6. g \in [DOMAIN Append(s, x) -> DOMAIN Append(t, x)]
  BY <1>2, <1>3
<1>7. ASSUME NEW i \in 1..Len(s) + 1, NEW j \in 1..Len(s) + 1, i < j
      PROVE  g[i] < g[j]
  <2>1. i \in 1..Len(s)
    BY <1>2, <1>7
  <2>2. CASE j \in 1..Len(s)
    BY <1>1, <1>2, <1>3, <1>7, <2>1, <2>2
  <2>3. CASE j = Len(s) + 1
    BY <1>2, <1>3, <1>4, <2>1, <2>3
  <2>4. QED
    BY <1>5, <2>2, <2>3
<1>8. ASSUME NEW i \in 1..Len(s) + 1
      PROVE  Append(s, x)[i] = Append(t, x)[g[i]]
  BY <1>1, <1>2, <1>3, <1>4, <1>5
<1>9. QED
  BY <1>2, <1>6, <1>7, <1>8 DEF IsSubsequence

LEMMA SubTransitive ==
  ASSUME NEW r, NEW s, NEW t, IsSubsequence(r, s), IsSubsequence(s, t)
  PROVE  IsSubsequence(r, t)
<1>1. PICK f \in [DOMAIN r -> DOMAIN s] :
        /\ \A i, j \in DOMAIN r : i < j => f[i] < f[j]
        /\ \A i \in DOMAIN r : r[i] = s[f[i]]
  BY DEF IsSubsequence
<1>2. PICK g \in [DOMAIN s -> DOMAIN t] :
        /\ \A i, j \in DOMAIN s : i < j => g[i] < g[j]
        /\ \A i \in DOMAIN s : s[i] = t[g[i]]
  BY DEF IsSubsequence
<1> DEFINE h == [i \in DOMAIN r |-> g[f[i]]]
<1>3. h \in [DOMAIN r -> DOMAIN t]
  OBVIOUS
<1>4. /\ \A i, j \in DOMAIN r : i < j => h[i] < h[j]
      /\ \A i \in DOMAIN r : r[i] = t[h[i]]
  BY <1>1, <1>2
<1>5. QED
  BY <1>3, <1>4 DEF IsSubsequence

\* What is left when a stretch in the middle is lost.
LEMMA SubDrop ==
  ASSUME NEW C, NEW a \in Seq(C), NEW b \in Seq(C), NEW c \in Seq(C)
  PROVE  IsSubsequence(a \o c, a \o (b \o c))
<1>1. /\ Len(a) \in Nat /\ Len(b) \in Nat /\ Len(c) \in Nat
      /\ a \o c \in Seq(C) /\ Len(a \o c) = Len(a) + Len(c)
      /\ b \o c \in Seq(C) /\ Len(b \o c) = Len(b) + Len(c)
      /\ a \o (b \o c) \in Seq(C) /\ Len(a \o (b \o c)) = Len(a) + (Len(b) + Len(c))
  BY ConcatProperties, LenProperties
<1>2. /\ DOMAIN (a \o c) = 1..Len(a) + Len(c)
      /\ DOMAIN (a \o (b \o c)) = 1..Len(a) + (Len(b) + Len(c))
  BY <1>1, LenProperties
<1> DEFINE f == [i \in 1..Len(a) + Len(c) |-> IF i <= Len(a) THEN i ELSE i + Len(b)]
<1>3. f \in [DOMAIN (a \o c) -> DOMAIN (a \o (b \o c))]
  BY <1>1, <1>2
<1>4. \A i, j \in DOMAIN (a \o c) : i < j => f[i] < f[j]
  BY <1>1, <1>2
<1>5. ASSUME NEW i \in 1..Len(a) + Len(c)
      PROVE  (a \o c)[i] = (a \o (b \o c))[f[i]]
  <2>1. CASE i <= Len(a)
    <3>1. f[i] = i /\ i \in 1..Len(a) + (Len(b) + Len(c))
      BY <1>1, <2>1
    <3>2. (a \o c)[i] = a[i] /\ (a \o (b \o c))[i] = a[i]
      BY <1>1, <2>1, <3>1, ConcatProperties
    <3>3. QED
      BY <3>1, <3>2
  <2>2. CASE i > Len(a)
    <3>1. f[i] = i + Len(b) /\ i + Len(b) \in 1..Len(a) + (Len(b) + Len(c))
          /\ i + Len(b) > Len(a)
      BY <1>1, <2>2
    <3>2. (a \o c)[i] = c[i - Len(a)]
      BY <1>1, <2>2, ConcatProperties
    <3>3. (a \o (b \o c))[i + Len(b)] = (b \o c)[i + Len(b) - Len(a)]
      BY <1>1, <3>1, ConcatProperties
    <3>4. /\ i + Len(b) - Len(a) \in 1..Len(b) + Len(c)
          /\ i + Len(b) - Len(a) > Len(b)
          /\ (i + Len(b) - Len(a)) - Len(b) = i - Len(a)
      BY <1>1, <2>2
    <3>5. (b \o c)[i + Len(b) - Len(a)] = c[(i + Len(b) - Len(a)) - Len(b)]
      BY <1>1, <3>4, ConcatProperties
    <3>6. QED
      BY <3>1, <3>2, <3>3, <3>4, <3>5
  <2>3. QED
    BY <1>1, <2>1, <2>2
<1>6. QED
  BY <1>2, <1>3, <1>4, <1>5 DEF IsSubsequence

-----------------------------------------------------------------------------
(* The contents of tasks and frames.                                       *)

Pairs == Keys \X Data

LEMMA SameEnd ==
  ASSUME NEW m \in Nat, NEW n \in Nat, 1..m = 1..n
  PROVE  m = n
<1>1. (m = 0 \/ m \in 1..m) /\ (n = 0 \/ n \in 1..n)
  OBVIOUS
<1>2. m <= n /\ n <= m
  BY <1>1
<1>3. QED
  BY <1>2

LEMMA ContentsType ==
  ASSUME NEW S, NEW s \in Seq(S), \A x \in S : Content(x) \in Pairs
  PROVE  /\ Contents(s) \in Seq(Pairs)
         /\ Len(Contents(s)) = Len(s)
         /\ \A i \in 1..Len(s) : Contents(s)[i] = Content(s[i])
<1>1. Len(s) \in Nat /\ DOMAIN s = 1..Len(s) /\ \A i \in 1..Len(s) : s[i] \in S
  BY LenProperties, ElementOfSeq
<1>2. /\ Contents(s) \in [1..Len(s) -> Pairs]
      /\ \A i \in 1..Len(s) : Contents(s)[i] = Content(s[i])
  BY <1>1 DEF Contents
<1>3. Contents(s) \in Seq(Pairs)
  BY <1>1, <1>2, SeqDef
<1>4. Len(Contents(s)) = Len(s)
  <2>1. Len(Contents(s)) \in Nat /\ DOMAIN Contents(s) = 1..Len(Contents(s))
    BY <1>3, LenProperties
  <2>2. 1..Len(Contents(s)) = 1..Len(s)
    BY <1>2, <2>1
  <2>3. QED
    BY <1>1, <2>1, <2>2, SameEnd
<1>5. QED
  BY <1>2, <1>3, <1>4

LEMMA ContentsConcat ==
  ASSUME NEW S, NEW s \in Seq(S), NEW t \in Seq(S), \A x \in S : Content(x) \in Pairs
  PROVE  Contents(s \o t) = Contents(s) \o Contents(t)
<1>1. /\ s \o t \in Seq(S) /\ Len(s \o t) = Len(s) + Len(t)
      /\ Len(s) \in Nat /\ Len(t) \in Nat
      /\ \A i \in 1..Len(s) + Len(t) :
            (s \o t)[i] = IF i <= Len(s) THEN s[i] ELSE t[i - Len(s)]
  BY ConcatProperties, LenProperties
<1>2. /\ Contents(s) \in Seq(Pairs) /\ Len(Contents(s)) = Len(s)
      /\ \A i \in 1..Len(s) : Contents(s)[i] = Content(s[i])
  BY ContentsType
<1>3. /\ Contents(t) \in Seq(Pairs) /\ Len(Contents(t)) = Len(t)
      /\ \A i \in 1..Len(t) : Contents(t)[i] = Content(t[i])
  BY ContentsType
<1>4. /\ Contents(s \o t) \in Seq(Pairs) /\ Len(Contents(s \o t)) = Len(s) + Len(t)
      /\ \A i \in 1..Len(s) + Len(t) : Contents(s \o t)[i] = Content((s \o t)[i])
  BY <1>1, ContentsType
<1>5. /\ Contents(s) \o Contents(t) \in Seq(Pairs)
      /\ Len(Contents(s) \o Contents(t)) = Len(s) + Len(t)
      /\ \A i \in 1..Len(s) + Len(t) : (Contents(s) \o Contents(t))[i] =
            IF i <= Len(s) THEN Contents(s)[i] ELSE Contents(t)[i - Len(s)]
  <2>1. ASSUME NEW u \in Seq(Pairs), NEW v \in Seq(Pairs), Len(u) = Len(s), Len(v) = Len(t)
        PROVE  /\ u \o v \in Seq(Pairs) /\ Len(u \o v) = Len(s) + Len(t)
               /\ \A i \in 1..Len(s) + Len(t) :
                     (u \o v)[i] = IF i <= Len(s) THEN u[i] ELSE v[i - Len(s)]
    <3>1. /\ u \o v \in Seq(Pairs) /\ Len(u \o v) = Len(u) + Len(v)
          /\ \A i \in 1..Len(u) + Len(v) :
                (u \o v)[i] = IF i <= Len(u) THEN u[i] ELSE v[i - Len(u)]
      BY ConcatProperties
    <3>2. QED
      BY <2>1, <3>1
  <2>2. QED
    BY <1>2, <1>3, <2>1
<1>6. ASSUME NEW i \in 1..Len(s) + Len(t)
      PROVE  Contents(s \o t)[i] = (Contents(s) \o Contents(t))[i]
  <2>1. CASE i <= Len(s)
    <3>1. i \in 1..Len(s)
      BY <1>1, <2>1
    <3>2. QED
      BY <1>1, <1>2, <1>4, <1>5, <2>1, <3>1
  <2>2. CASE ~(i <= Len(s))
    <3>1. i - Len(s) \in 1..Len(t)
      BY <1>1, <2>2
    <3>2. QED
      BY <1>1, <1>3, <1>4, <1>5, <2>2, <3>1
  <2>3. QED
    BY <2>1, <2>2
<1>7. QED
  BY <1>4, <1>5, <1>6, SeqEqual

LEMMA ContentsOfFew ==
  /\ Contents(<<>>) = <<>>
  /\ \A x : Contents(<<x>>) = <<Content(x)>>
  BY DEF Contents

LEMMA ContentsAppend ==
  ASSUME NEW S, NEW s \in Seq(S), NEW x \in S, \A y \in S : Content(y) \in Pairs
  PROVE  Contents(Append(s, x)) = Append(Contents(s), Content(x))
<1>1. Append(s, x) = s \o <<x>> /\ <<x>> \in Seq(S)
  BY AppendIsConcat
<1>2. Contents(s) \in Seq(Pairs) /\ Content(x) \in Pairs
  BY ContentsType
<1>3. Append(Contents(s), Content(x)) = Contents(s) \o <<Content(x)>>
  BY <1>2, AppendIsConcat
<1>4. QED
  BY <1>1, <1>3, ContentsConcat, ContentsOfFew

LEMMA ContentsHead ==
  ASSUME NEW S, NEW s \in Seq(S), s # <<>>, \A y \in S : Content(y) \in Pairs
  PROVE  Contents(s) = <<Content(Head(s))>> \o Contents(Tail(s))
<1>1. Head(s) \in S /\ Tail(s) \in Seq(S) /\ <<Head(s)>> \in Seq(S)
  BY HeadTailProperties
<1>2. s = <<Head(s)>> \o Tail(s)
  OBVIOUS
<1>3. QED
  BY <1>1, <1>2, ContentsConcat, ContentsOfFew

-----------------------------------------------------------------------------
(* What TreeSkelProofs says of each server.                                *)

PP == INSTANCE TreeSkelProofs WITH
        tree <- pTree, queue <- pQueue, last_assigned <- pLast,
        opcode <- pOpcode, main <- pMain, req <- pReq, result <- pResult,
        worker <- pWorker, sockfd <- pSockfd, executed <- pExecuted,
        Requests <- Writes

BP == INSTANCE TreeSkelProofs WITH
        tree <- bTree, queue <- bQueue, last_assigned <- bLast,
        opcode <- bOpcode, main <- bMain, req <- bReq, result <- bResult,
        worker <- bWorker, sockfd <- "none", out <- <<>>, executed <- bExecuted,
        Requests <- BackupRequests

PInv == P!TypeOK /\ P!HeadPresent /\ P!NoLostWakeup /\ P!ExecutionOrder

BInv == B!TypeOK /\ B!HeadPresent /\ B!NoLostWakeup /\ B!ExecutionOrder

Message == [opcode : Nat, key : Keys, data : Data, op_n : Nat]

LEMMA RequestsTyped == Writes \subseteq Message /\ BackupRequests \subseteq Message
<1>1. ForwardedOpcodes \subseteq Nat
  BY DEF ForwardedOpcodes, OP_PUT, OP_DEL
<1>2. \A f \in [opcode : ForwardedOpcodes, key : Keys, data : Data] : AsRequest(f) \in Message
  BY <1>1 DEF AsRequest, Message
<1>3. QED
  BY <1>2, ReplicationAssumption DEF BackupRequests, Message

(* P and PP, B and BP are the same formulas: TreeSkel's, with the same     *)
(* variables.                                                              *)

LEMMA PrimaryLifted == (PInv <=> PP!IInv) /\ (PInv' <=> PP!IInv')
BY DEF PInv, PP!IInv,
       P!Task, PP!Task, P!Frame, PP!Frame, P!QueueLocked, PP!QueueLocked,
         P!TypeOK, PP!TypeOK, P!HeadPresent, PP!HeadPresent, P!NoLostWakeup,
         PP!NoLostWakeup, P!ExecutionOrder, PP!ExecutionOrder, P!Ascending,
         PP!Ascending, P!HeadDone, PP!HeadDone, P!Tree, PP!Tree, P!Data, PP!Data,
         P!WriteOps, PP!WriteOps, P!OP_PUT, PP!OP_PUT, P!OP_DEL, PP!OP_DEL

LEMMA BackupLifted == (BInv <=> BP!IInv) /\ (BInv' <=> BP!IInv')
BY DEF BInv, BP!IInv,
       B!Task, BP!Task, B!Frame, BP!Frame, B!QueueLocked, BP!QueueLocked,
         B!TypeOK, BP!TypeOK, B!HeadPresent, BP!HeadPresent, B!NoLostWakeup,
         BP!NoLostWakeup, B!ExecutionOrder, BP!ExecutionOrder, B!Ascending,
         BP!Ascending, B!HeadDone, BP!HeadDone, B!Tree, BP!Tree, B!Data, BP!Data,
         B!WriteOps, BP!WriteOps, B!OP_PUT, BP!OP_PUT, B!OP_DEL, BP!OP_DEL

LEMMA PrimaryAssumed == PP!RootedMapAssumption /\ PP!TreeSkelAssumption
<1>1. PP!RootedMapAssumption
  BY RootedMapAssumption DEF PP!RootedMapAssumption, IsFiniteSet, PP!IsFiniteSet
<1>2. PP!TreeSkelAssumption
  BY RequestsTyped, ReplicationAssumption DEF PP!TreeSkelAssumption, Message, Data, PP!Data
<1>3. QED
  BY <1>1, <1>2

LEMMA PrimaryInit == P!Init => PInv
<1>1. P!Init => PP!Init
  BY Zenon
     DEF P!Init, PP!Init, P!tree_create, PP!tree_create, P!OP_BAD, PP!OP_BAD
<1>2. PP!Init => PP!IInv
  BY PrimaryAssumed, PP!InitInv DEF PP!InitInv
<1>3. QED
  BY <1>1, <1>2, PrimaryLifted

LEMMA PrimaryStep == PInv /\ [P!Next]_pVars => PInv'
<1>1. P!Next => PP!Next
  BY Zenon
     DEF P!QueueLocked, PP!QueueLocked, P!HeadDone, PP!HeadDone, P!Data, PP!Data,
         P!WriteOps, PP!WriteOps, P!OP_PUT, PP!OP_PUT, P!OP_DEL, PP!OP_DEL,
         P!Receive, PP!Receive, P!NewTask, PP!NewTask, P!QueueAddTask,
         PP!QueueAddTask, P!MarkReply, PP!MarkReply, P!At, PP!At, P!Verify,
         PP!Verify, P!Read, PP!Read, P!Ignore, PP!Ignore, P!Reply, PP!Reply, P!Main,
         PP!Main, P!Acquire, PP!Acquire, P!SpuriousWakeup, PP!SpuriousWakeup,
         P!Execution, PP!Execution, P!Apply, PP!Apply, P!Mark, PP!Mark, P!Forwarded,
         PP!Forwarded, P!Deliver, PP!Deliver, P!SendFails, PP!SendFails, P!SendLost,
         PP!SendLost, P!Pop, PP!Pop, P!WorkerRuns, PP!WorkerRuns, P!Worker,
         PP!Worker, P!BackupUp, PP!BackupUp, P!BackupDown, PP!BackupDown,
         P!BackupReads, PP!BackupReads, P!Next, PP!Next, P!shared, PP!shared,
         P!mainVars, PP!mainVars, P!vars, PP!vars, P!OP_BAD, PP!OP_BAD, P!OP_SIZE,
         PP!OP_SIZE, P!OP_GET, PP!OP_GET, P!OP_GETKEYS, PP!OP_GETKEYS, P!OP_HEIGHT,
         PP!OP_HEIGHT, P!OP_VERIFY, PP!OP_VERIFY, P!ReadOps, PP!ReadOps,
         P!tree_create, PP!tree_create, P!KeysOf, PP!KeysOf, P!tree_size,
         PP!tree_size, P!tree_put, PP!tree_put, P!tree_del, PP!tree_del, P!tree_get,
         PP!tree_get, P!Cardinality, PP!Cardinality
<1>2. [P!Next]_pVars => [PP!Next]_PP!vars
  BY <1>1 DEF pVars, PP!vars
<1>3. PP!IInv /\ [PP!Next]_PP!vars => PP!IInv'
  BY PrimaryAssumed, PP!Inductive DEF PP!Inductive
<1>4. QED
  BY <1>2, <1>3, PrimaryLifted

LEMMA BackupAssumed == BP!RootedMapAssumption /\ BP!TreeSkelAssumption
<1>1. BP!RootedMapAssumption
  BY RootedMapAssumption DEF BP!RootedMapAssumption, IsFiniteSet, BP!IsFiniteSet
<1>2. BP!TreeSkelAssumption
  BY RequestsTyped, ReplicationAssumption DEF BP!TreeSkelAssumption, Message, Data, BP!Data
<1>3. QED
  BY <1>1, <1>2

LEMMA BackupInit == B!Init => BInv
<1>1. B!Init => BP!Init
  BY Zenon
     DEF B!Init, BP!Init, B!tree_create, BP!tree_create, B!OP_BAD, BP!OP_BAD
<1>2. BP!Init => BP!IInv
  BY BackupAssumed, BP!InitInv DEF BP!InitInv
<1>3. QED
  BY <1>1, <1>2, BackupLifted

LEMMA BackupStep == BInv /\ [B!Next]_bVars => BInv'
<1>1. B!Next => BP!Next
  BY Zenon
     DEF B!QueueLocked, BP!QueueLocked, B!HeadDone, BP!HeadDone, B!Data, BP!Data,
         B!WriteOps, BP!WriteOps, B!OP_PUT, BP!OP_PUT, B!OP_DEL, BP!OP_DEL,
         B!Receive, BP!Receive, B!NewTask, BP!NewTask, B!QueueAddTask,
         BP!QueueAddTask, B!MarkReply, BP!MarkReply, B!At, BP!At, B!Verify,
         BP!Verify, B!Read, BP!Read, B!Ignore, BP!Ignore, B!Reply, BP!Reply, B!Main,
         BP!Main, B!Acquire, BP!Acquire, B!SpuriousWakeup, BP!SpuriousWakeup,
         B!Execution, BP!Execution, B!Apply, BP!Apply, B!Mark, BP!Mark, B!Forwarded,
         BP!Forwarded, B!Deliver, BP!Deliver, B!SendFails, BP!SendFails, B!SendLost,
         BP!SendLost, B!Pop, BP!Pop, B!WorkerRuns, BP!WorkerRuns, B!Worker,
         BP!Worker, B!BackupUp, BP!BackupUp, B!BackupDown, BP!BackupDown,
         B!BackupReads, BP!BackupReads, B!Next, BP!Next, B!shared, BP!shared,
         B!mainVars, BP!mainVars, B!vars, BP!vars, B!OP_BAD, BP!OP_BAD, B!OP_SIZE,
         BP!OP_SIZE, B!OP_GET, BP!OP_GET, B!OP_GETKEYS, BP!OP_GETKEYS, B!OP_HEIGHT,
         BP!OP_HEIGHT, B!OP_VERIFY, BP!OP_VERIFY, B!ReadOps, BP!ReadOps,
         B!tree_create, BP!tree_create, B!KeysOf, BP!KeysOf, B!tree_size,
         BP!tree_size, B!tree_put, BP!tree_put, B!tree_del, BP!tree_del, B!tree_get,
         BP!tree_get, B!Cardinality, BP!Cardinality
<1>2. [B!Next]_bVars => [BP!Next]_BP!vars
  BY <1>1 DEF bVars, BP!vars
<1>3. BP!IInv /\ [BP!Next]_BP!vars => BP!IInv'
  BY BackupAssumed, BP!Inductive DEF BP!Inductive
<1>4. QED
  BY <1>2, <1>3, BackupLifted

-----------------------------------------------------------------------------
(* The primary: what it puts on the connection.                            *)

FramesRight == \A i \in DOMAIN out : out[i].opcode \in ForwardedOpcodes

\* The message of the head is a put or an answer from Mark on.
Rewritten ==
    /\ pMain = "mark" => pReq.opcode \in WriteOps
    /\ pWorker = "send" => pOpcode[Head(pQueue).op_n] \in ForwardedOpcodes

HeadExecuted ==
    P!HeadDone => pExecuted # <<>> /\ pExecuted[Len(pExecuted)] = Head(pQueue)

PrimaryFacts == FramesRight /\ Rewritten /\ HeadExecuted

LEMMA PrimaryTypes ==
  ASSUME PInv
  PROVE  /\ pQueue \in Seq(P!Task) /\ pExecuted \in Seq(P!Task) /\ out \in Seq(P!Frame)
         /\ pOpcode \in [1..MaxOps -> Nat]
         /\ P!QueueLocked => /\ pQueue # <<>> /\ Head(pQueue) \in P!Task
                             /\ Tail(pQueue) \in Seq(P!Task)
<1>1. pQueue \in Seq(P!Task) /\ pExecuted \in Seq(P!Task) /\ out \in Seq(P!Frame)
      /\ pOpcode \in [1..MaxOps -> Nat] /\ (P!QueueLocked => pQueue # <<>>)
  BY DEF PInv, P!TypeOK, P!HeadPresent
<1>2. QED
  BY <1>1, HeadTailProperties

\* No action but the secondary thread's own moves the head from Mark to Pop.
LEMMA PrimaryFactsStep == PInv /\ PrimaryFacts /\ [P!Next]_pVars => PrimaryFacts'
<1> SUFFICES ASSUME PInv, PrimaryFacts, [P!Next]_pVars PROVE PrimaryFacts'
  OBVIOUS
<1> USE PrimaryTypes DEF PrimaryFacts
<1> USE DEF WriteOps, P!WriteOps, OP_PUT, OP_DEL, P!OP_PUT, P!OP_DEL, P!OP_VERIFY,
            P!shared, P!mainVars
<1>1. ASSUME NEW r \in Writes, P!Receive(r) PROVE PrimaryFacts'
  BY <1>1 DEF P!Receive, FramesRight, Rewritten, HeadExecuted, P!HeadDone
<1>2. CASE P!QueueAddTask
  BY <1>2 DEF P!QueueAddTask, FramesRight, Rewritten, HeadExecuted, P!HeadDone, P!QueueLocked
<1>3. CASE P!MarkReply
  <2>1. FramesRight' /\ HeadExecuted'
    BY <1>3 DEF P!MarkReply, FramesRight, HeadExecuted, P!HeadDone
  <2>2. pReq.opcode + 1 \in ForwardedOpcodes
    BY <1>3 DEF P!MarkReply, Rewritten, ForwardedOpcodes
  <2>3. pWorker' = "send" => pOpcode'[Head(pQueue).op_n] \in ForwardedOpcodes
    <3>1. P!QueueLocked => Head(pQueue).op_n \in 1..MaxOps
      BY DEF P!Task
    <3>2. QED
      BY <1>3, <2>2, <3>1 DEF P!MarkReply, Rewritten, P!QueueLocked
  <2>4. QED
    BY <1>3, <2>1, <2>3 DEF P!MarkReply, Rewritten
<1>4. CASE P!Verify
  BY <1>4 DEF P!Verify, FramesRight, Rewritten, HeadExecuted, P!HeadDone, P!QueueLocked
<1>5. CASE P!Read \/ P!Ignore \/ P!Reply
  BY <1>5 DEF P!Read, P!Ignore, P!Reply, FramesRight, Rewritten, HeadExecuted, P!HeadDone
<1>6. CASE P!Acquire \/ P!SpuriousWakeup \/ P!SendFails
  BY <1>6 DEF P!Acquire, P!SpuriousWakeup, P!SendFails, FramesRight, Rewritten,
             HeadExecuted, P!HeadDone
<1>7. CASE P!Apply
  <2>1. pQueue # <<>> /\ Head(pQueue) \in P!Task
    BY <1>7 DEF P!Apply, P!QueueLocked
  <2>2. /\ Append(pExecuted, Head(pQueue)) # <<>>
        /\ LET e == Append(pExecuted, Head(pQueue)) IN e[Len(e)] = Head(pQueue)
    BY <2>1, AppendProperties
  <2>3. QED
    BY <1>7, <2>2 DEF P!Apply, FramesRight, Rewritten, HeadExecuted, P!HeadDone
<1>8. CASE P!Mark
  <2>1. Head(pQueue).op_n \in 1..MaxOps
    BY <1>8 DEF P!Mark, P!QueueLocked, P!Task
  <2>2. QED
    BY <1>8, <2>1 DEF P!Mark, FramesRight, Rewritten, HeadExecuted, P!HeadDone,
                      ForwardedOpcodes
<1>9. CASE P!Deliver
  <2>1. Head(pQueue) \in P!Task
    BY <1>9 DEF P!Deliver, P!QueueLocked
  <2>2. P!Forwarded(Head(pQueue)) \in P!Frame
    BY <2>1 DEF P!Forwarded, P!Frame, P!Task
  <2>3. /\ DOMAIN out = 1..Len(out) /\ Len(out) \in Nat
        /\ DOMAIN Append(out, P!Forwarded(Head(pQueue))) = 1..Len(out) + 1
        /\ \A i \in 1..Len(out) : Append(out, P!Forwarded(Head(pQueue)))[i] = out[i]
        /\ Append(out, P!Forwarded(Head(pQueue)))[Len(out) + 1] = P!Forwarded(Head(pQueue))
    BY <2>2, AppendProperties, LenProperties
  <2>4. P!Forwarded(Head(pQueue)).opcode \in ForwardedOpcodes
    BY <1>9 DEF P!Deliver, P!Forwarded, Rewritten
  <2>5. FramesRight'
    <3>1. \A i \in 1..Len(out) + 1 : i \in 1..Len(out) \/ i = Len(out) + 1
      BY <2>3
    <3>2. out' = Append(out, P!Forwarded(Head(pQueue)))
      BY <1>9 DEF P!Deliver
    <3>3. QED
      BY <2>3, <2>4, <3>1, <3>2 DEF FramesRight
  <2>6. QED
    BY <1>9, <2>5 DEF P!Deliver, Rewritten, HeadExecuted, P!HeadDone
<1>10. CASE P!SendLost
  BY <1>10 DEF P!SendLost, FramesRight, Rewritten, HeadExecuted, P!HeadDone
<1>11. CASE P!Pop
  BY <1>11 DEF P!Pop, FramesRight, Rewritten, HeadExecuted, P!HeadDone
<1>12. CASE P!BackupUp \/ P!BackupDown
  <2>1. /\ out' = <<>> /\ pMain' = pMain /\ pReq' = pReq /\ pWorker' = pWorker
        /\ pOpcode' = pOpcode /\ pQueue' = pQueue /\ pExecuted' = pExecuted
    BY <1>12 DEF P!BackupUp, P!BackupDown
  <2>2. FramesRight'
    BY <2>1 DEF FramesRight
  <2>3. Rewritten' /\ HeadExecuted'
    BY <2>1 DEF Rewritten, HeadExecuted, P!HeadDone
  <2>4. QED
    BY <2>2, <2>3
<1>13. CASE P!BackupReads
  <2>1. /\ DOMAIN out = 1..Len(out) /\ Len(out) \in Nat
        /\ DOMAIN Tail(out) = 1..Len(out) - 1
        /\ \A i \in 1..Len(out) - 1 : Tail(out)[i] = out[i + 1]
    BY <1>13, HeadTailProperties, LenProperties DEF P!BackupReads
  <2>2. FramesRight'
    BY <1>13, <2>1 DEF P!BackupReads, FramesRight
  <2>3. QED
    BY <1>13, <2>2 DEF P!BackupReads, Rewritten, HeadExecuted, P!HeadDone
<1>14. CASE UNCHANGED pVars
  BY <1>14 DEF pVars, FramesRight, Rewritten, HeadExecuted, P!HeadDone
<1>15. QED
  BY <1>1, <1>2, <1>3, <1>4, <1>5, <1>6, <1>7, <1>8, <1>9, <1>10, <1>11, <1>12, <1>13, <1>14
     DEF P!Next, P!Main, P!Worker, P!WorkerRuns

-----------------------------------------------------------------------------
(* The two together.                                                       *)

\* A write in the hands of the backup's main thread came over the connection.
BackupTakesPuts ==
    bMain = "invoke" /\ bReq.opcode \in WriteOps => from = "primary" /\ bReq.opcode = OP_PUT

LinkRight ==
    /\ from \in {"client", "primary"} /\ acks \in 0..AckBuf
    /\ BackupTakesPuts

Joint == PInv /\ BInv /\ PrimaryFacts /\ LinkRight

LEMMA HeadIsRequest ==
  ASSUME PInv, PrimaryFacts, out # <<>>
  PROVE  /\ AsRequest(Head(out)) \in BackupRequests
         /\ Head(out) \in P!Frame /\ Tail(out) \in Seq(P!Frame)
         /\ Head(out).opcode \in ForwardedOpcodes
<1>1. Head(out) \in P!Frame /\ Tail(out) \in Seq(P!Frame) /\ out = <<Head(out)>> \o Tail(out)
  BY PrimaryTypes, HeadTailProperties
<1>2. 1 \in DOMAIN out /\ Head(out) = out[1]
  BY PrimaryTypes
<1>3. Head(out).opcode \in ForwardedOpcodes
  BY <1>2 DEF PrimaryFacts, FramesRight
<1>4. Head(out) \in [opcode : ForwardedOpcodes, key : Keys, data : Data]
  BY <1>1, <1>3 DEF P!Frame, P!Data, Data
<1>5. QED
  BY <1>1, <1>3, <1>4 DEF BackupRequests

\* A step of the two is a step, or none, of each.
LEMMA StepOfEach ==
  ASSUME PInv, PrimaryFacts, Next
  PROVE  [P!Next]_pVars /\ [B!Next]_bVars
<1>1. CASE Connect
  BY <1>1 DEF Connect, P!Next
<1>2. ASSUME NEW r \in Writes, PrimaryReceives(r) PROVE [P!Next]_pVars /\ [B!Next]_bVars
  BY <1>2 DEF PrimaryReceives, P!Next
<1>3. CASE PrimaryMain \/ PrimaryWorker
  BY <1>3 DEF PrimaryMain, PrimaryWorker, P!Next, P!Worker
<1>4. CASE Transfer
  <2>1. AsRequest(Head(out)) \in BackupRequests
    BY <1>4, HeadIsRequest DEF Transfer, P!BackupReads
  <2>2. QED
    BY <1>4, <2>1 DEF Transfer, P!Next, B!Next
<1>5. ASSUME NEW r \in Reads, BackupReceives(r) PROVE [P!Next]_pVars /\ [B!Next]_bVars
  BY <1>5 DEF BackupReceives, B!Next, BackupRequests
<1>6. CASE BackupMain
  BY <1>6 DEF BackupMain, BackupInvokes, BackupReplies, B!Main, B!Next
<1>7. CASE BackupWorker
  BY <1>7 DEF BackupWorker, B!Next, B!Worker
<1>8. QED
  BY <1>1, <1>2, <1>3, <1>4, <1>5, <1>6, <1>7 DEF Next

LEMMA LinkStep == Joint /\ [Next]_vars => LinkRight'
<1> SUFFICES ASSUME Joint, [Next]_vars PROVE LinkRight'
  OBVIOUS
<1> USE ReplicationAssumption DEF Joint, LinkRight, BackupTakesPuts
<1> USE DEF WriteOps, OP_PUT, OP_DEL, B!WriteOps, B!OP_PUT, B!OP_DEL
<1>1. CASE Connect
  BY <1>1 DEF Connect, bVars, link
<1>2. ASSUME NEW r \in Writes, PrimaryReceives(r) PROVE LinkRight'
  BY <1>2 DEF PrimaryReceives, bVars, link
<1>3. CASE PrimaryMain \/ PrimaryWorker
  BY <1>3 DEF PrimaryMain, PrimaryWorker, bVars, link
<1>4. CASE Transfer
  <2>1. AsRequest(Head(out)).opcode \in ForwardedOpcodes
    BY <1>4, HeadIsRequest DEF Transfer, P!BackupReads, AsRequest
  <2>2. QED
    BY <1>4, <2>1 DEF Transfer, B!Receive, ForwardedOpcodes
<1>5. ASSUME NEW r \in Reads, BackupReceives(r) PROVE LinkRight'
  BY <1>5 DEF BackupReceives, B!Receive
<1>6. CASE BackupInvokes
  BY <1>6 DEF BackupInvokes, link, B!QueueAddTask, B!MarkReply, B!Verify, B!Read, B!Ignore
<1>7. CASE BackupReplies
  BY <1>7 DEF BackupReplies, B!Reply
<1>8. CASE BackupWorker
  BY <1>8 DEF BackupWorker, link, B!WorkerRuns, B!Acquire, B!Apply, B!Mark, B!Deliver,
              B!SendFails, B!Pop, B!mainVars
<1>9. CASE UNCHANGED vars
  BY <1>9 DEF vars, bVars, link
<1>10. QED
  BY <1>1, <1>2, <1>3, <1>4, <1>5, <1>6, <1>7, <1>8, <1>9 DEF Next, BackupMain

LEMMA JointStep == Joint /\ [Next]_vars => Joint'
<1> SUFFICES ASSUME Joint, [Next]_vars PROVE Joint'
  OBVIOUS
<1>1. [P!Next]_pVars /\ [B!Next]_bVars
  <2>1. CASE Next
    BY <2>1, StepOfEach DEF Joint
  <2>2. CASE UNCHANGED vars
    BY <2>2 DEF vars
  <2>3. QED
    BY <2>1, <2>2
<1>2. PInv' /\ BInv' /\ PrimaryFacts'
  BY <1>1, PrimaryStep, BackupStep, PrimaryFactsStep DEF Joint
<1>3. QED
  BY <1>2, LinkStep DEF Joint

LEMMA JointInit == Init => Joint
<1> SUFFICES ASSUME Init PROVE Joint
  OBVIOUS
<1>1. PInv /\ BInv
  BY PrimaryInit, BackupInit DEF Init
<1>2. PrimaryFacts
  BY DEF Init, P!Init, PrimaryFacts, FramesRight, Rewritten, HeadExecuted, P!HeadDone
<1>3. LinkRight
  BY ReplicationAssumption DEF Init, B!Init, LinkRight, BackupTakesPuts
<1>4. QED
  BY <1>1, <1>2, <1>3 DEF Joint

\* Both servers keep their types, and no frame carries an opcode but a put's
\* or that of an answer to a write (tree_skel.c:137-138, 296, 341).
THEOREM ReplicationTypeCorrect == Spec => []TypeOK
<1>1. Joint => TypeOK
  BY DEF Joint, PInv, BInv, LinkRight, PrimaryFacts, FramesRight, TypeOK
<1>2. QED
  BY <1>1, JointInit, JointStep, PTL DEF Spec

-----------------------------------------------------------------------------
(* The order of the writes.                                                *)

\* The executed writes the connection has had its chance to take: from Apply
\* to Deliver the last one is on its way.
Sent ==
    IF pWorker \in {"mark", "send"}
    THEN SubSeq(pExecuted, 1, Len(pExecuted) - 1)
    ELSE pExecuted

Follows == IsSubsequence(Stream, Contents(Sent))

LEMMA WriteContents ==
  /\ \A w \in P!Task : Content(w) \in Pairs
  /\ \A w \in B!Task : Content(w) \in Pairs
  /\ \A f \in P!Frame : Content(f) \in Pairs
  /\ \A r \in Message : Content(r) \in Pairs
BY DEF P!Task, B!Task, P!Frame, P!Data, B!Data, Data, Message, Content, Pairs

LEMMA SentType ==
  ASSUME Joint
  PROVE  /\ Sent \in Seq(P!Task)
         /\ pWorker \in {"mark", "send"} => pExecuted = Append(Sent, Head(pQueue))
<1>1. pExecuted \in Seq(P!Task) /\ Len(pExecuted) \in Nat
  BY PrimaryTypes, LenProperties DEF Joint
<1>2. CASE pWorker \in {"mark", "send"}
  <2>1. pExecuted # <<>> /\ pExecuted[Len(pExecuted)] = Head(pQueue)
    BY <1>2 DEF Joint, PrimaryFacts, HeadExecuted, P!HeadDone
  <2>2. Len(pExecuted) \in 1..Len(pExecuted) /\ 1 \in 1..Len(pExecuted)
    BY <1>1, <2>1, EmptySeq
  <2>3. \A i \in 1..Len(pExecuted) - 1 : pExecuted[i] \in P!Task
    BY <1>1, ElementOfSeq
  <2>4. Sent \in Seq(P!Task)
    BY <1>1, <1>2, <2>3, SubSeqProperties DEF Sent
  <2>5. pExecuted = Sent \o <<pExecuted[Len(pExecuted)]>>
    BY <1>1, <1>2, <2>2, SubSeqFull, SubSeqRecursiveSecond DEF Sent
  <2>6. Head(pQueue) \in P!Task
    BY <1>2, PrimaryTypes DEF Joint, P!QueueLocked
  <2>7. QED
    BY <2>1, <2>4, <2>5, <2>6, AppendIsConcat
<1>3. CASE pWorker \notin {"mark", "send"}
  BY <1>1, <1>3 DEF Sent
<1>4. QED
  BY <1>2, <1>3

LEMMA BackupTypes ==
  ASSUME BInv
  PROVE  /\ bExecuted \in Seq(B!Task) /\ bQueue \in Seq(B!Task) /\ B!Pending \in Seq(B!Task)
         /\ B!QueueLocked => /\ bQueue # <<>> /\ Head(bQueue) \in B!Task
                             /\ Tail(bQueue) \in Seq(B!Task)
         /\ bMain # "poll" => bReq \in Message
<1>1. /\ bExecuted \in Seq(B!Task) /\ bQueue \in Seq(B!Task)
      /\ B!QueueLocked => bQueue # <<>>
      /\ bMain # "poll" => bReq \in BackupRequests
  BY DEF BInv, B!TypeOK, B!HeadPresent
<1>2. bQueue # <<>> => Head(bQueue) \in B!Task /\ Tail(bQueue) \in Seq(B!Task)
  BY <1>1, HeadTailProperties
<1>3. B!Pending \in Seq(B!Task)
  BY <1>1, <1>2 DEF B!Pending, B!HeadDone, B!QueueLocked
<1>4. QED
  BY <1>1, <1>2, <1>3, RequestsTyped

LEMMA StreamType ==
  ASSUME Joint
  PROVE  /\ Contents(bExecuted) \in Seq(Pairs)
         /\ Contents(B!Pending) \in Seq(Pairs)
         /\ Arriving \in Seq(Pairs)
         /\ Contents(out) \in Seq(Pairs)
         /\ Stream \in Seq(Pairs)
         /\ Contents(Sent) \in Seq(Pairs)
<1>1. /\ Contents(bExecuted) \in Seq(Pairs) /\ Contents(B!Pending) \in Seq(Pairs)
      /\ Contents(out) \in Seq(Pairs) /\ Contents(Sent) \in Seq(Pairs)
  BY PrimaryTypes, BackupTypes, SentType, WriteContents, ContentsType DEF Joint
<1>2. Arriving \in Seq(Pairs)
  <2>1. bMain = "invoke" => Content(bReq) \in Pairs
    BY BackupTypes, WriteContents DEF Joint
  <2>2. QED
    BY <2>1 DEF Arriving
<1>3. Stream \in Seq(Pairs)
  BY <1>1, <1>2, ConcatProperties DEF Stream
<1>4. QED
  BY <1>1, <1>2, <1>3

\* The three ways in which a step may move the two.
LEMMA StreamShrinks ==
  ASSUME Follows, IsSubsequence(Stream', Stream), Sent' = Sent
  PROVE  Follows'
<1>1. Contents(Sent)' = Contents(Sent)
  BY DEF Contents
<1>2. QED
  BY <1>1, SubTransitive DEF Follows

LEMMA SentGrows ==
  ASSUME Joint, Follows, Stream' = Stream, NEW w \in P!Task, Sent' = Append(Sent, w)
  PROVE  Follows'
<1>1. Contents(Sent)' = Append(Contents(Sent), Content(w))
  BY SentType, WriteContents, ContentsAppend
<1>2. Content(w) \in Pairs
  BY WriteContents
<1>3. QED
  BY <1>1, <1>2, StreamType, SubGrows DEF Follows

LEMMA BothGrow ==
  ASSUME Joint, Follows, NEW w \in P!Task, Sent' = Append(Sent, w),
         Stream' = Append(Stream, Content(w))
  PROVE  Follows'
<1>1. Contents(Sent)' = Append(Contents(Sent), Content(w))
  BY SentType, WriteContents, ContentsAppend
<1>2. Content(w) \in Pairs
  BY WriteContents
<1>3. QED
  BY <1>1, <1>2, StreamType, SubAppend DEF Follows

LEMMA SubSame ==
  ASSUME NEW s
  PROVE  IsSubsequence(s, s)
<1> DEFINE f == [i \in DOMAIN s |-> i]
<1>1. f \in [DOMAIN s -> DOMAIN s]
  OBVIOUS
<1>2. QED
  BY <1>1 DEF IsSubsequence

-----------------------------------------------------------------------------
(* Steps of the primary.                                                   *)

BackupSide == <<bVars, link>>

LEMMA StreamOfOut ==
  ASSUME UNCHANGED BackupSide
  PROVE  /\ Contents(bExecuted)' = Contents(bExecuted)
         /\ Contents(B!Pending)' = Contents(B!Pending)
         /\ Arriving' = Arriving
BY DEF BackupSide, bVars, link, Contents, B!Pending, B!HeadDone, Arriving

LEMMA StreamSame ==
  ASSUME UNCHANGED <<BackupSide, out>>
  PROVE  Stream' = Stream
<1>1. UNCHANGED BackupSide /\ Contents(out)' = Contents(out)
  BY DEF BackupSide, Contents
<1>2. QED
  BY <1>1, StreamOfOut DEF Stream

\* The connection is made anew: what was on the old one is lost.
LEMMA ConnectFollows == ASSUME Joint, Follows, Connect PROVE Follows'
<1>1. UNCHANGED BackupSide /\ out' = <<>> /\ Sent' = Sent
  BY DEF Connect, P!BackupUp, P!mainVars, BackupSide, Sent
<1> DEFINE a == Contents(bExecuted) \o Contents(B!Pending) \o Arriving
<1>2. Stream' = a \o <<>> /\ Stream = a \o Contents(out)
  BY <1>1, StreamOfOut, ContentsOfFew DEF Stream
<1>3. a \in Seq(Pairs) /\ Contents(out) \in Seq(Pairs) /\ <<>> \in Seq(Pairs)
  BY StreamType, ConcatProperties, EmptySeq
<1>4. Contents(out) \o <<>> = Contents(out)
  BY <1>3, ConcatEmptySeq
<1> HIDE DEF a
<1>5. IsSubsequence(a \o <<>>, a \o (Contents(out) \o <<>>))
  BY <1>3, SubDrop
<1>6. QED
  BY <1>1, <1>2, <1>4, <1>5, StreamShrinks

LEMMA PrimaryReceivesFollows ==
  ASSUME Joint, Follows, NEW r \in Writes, PrimaryReceives(r) PROVE Follows'
<1>1. UNCHANGED <<BackupSide, out>> /\ Sent' = Sent
  BY DEF PrimaryReceives, P!Receive, P!shared, BackupSide, Sent
<1>2. QED
  BY <1>1, StreamSame, StreamShrinks, SubSame

LEMMA PrimaryMainFollows == ASSUME Joint, Follows, PrimaryMain PROVE Follows'
<1>1. UNCHANGED <<BackupSide, out>> /\ Sent' = Sent
  BY DEF PrimaryMain, P!Main, P!QueueAddTask, P!MarkReply, P!Verify, P!Read, P!Ignore,
         P!Reply, P!shared, BackupSide, Sent
<1>2. QED
  BY <1>1, StreamSame, StreamShrinks, SubSame

LEMMA PrimaryWorkerFollows == ASSUME Joint, Follows, PrimaryWorker PROVE Follows'
<1> USE DEF PrimaryWorker, BackupSide, P!mainVars, P!shared
<1>1. CASE P!Acquire \/ P!Mark \/ P!Pop
  <2>1. UNCHANGED <<BackupSide, out>> /\ Sent' = Sent
    BY <1>1 DEF P!Acquire, P!Mark, P!Pop, Sent
  <2>2. QED
    BY <2>1, StreamSame, StreamShrinks, SubSame
<1>2. CASE P!Apply
  <2>1. Head(pQueue) \in P!Task /\ pExecuted \in Seq(P!Task)
    BY <1>2, PrimaryTypes DEF P!Apply, P!QueueLocked, Joint
  <2>2. Stream' = Stream /\ Sent = pExecuted
    BY <1>2, StreamSame DEF P!Apply, Sent
  <2>3. CASE pSockfd = "none"
    <3>1. Sent' = Append(Sent, Head(pQueue))
      BY <1>2, <2>2, <2>3 DEF P!Apply, Sent
    <3>2. QED
      BY <2>1, <2>2, <3>1, SentGrows
  <2>4. CASE pSockfd # "none"
    <3>1. /\ Append(pExecuted, Head(pQueue)) \in Seq(P!Task)
          /\ Len(Append(pExecuted, Head(pQueue))) = Len(pExecuted) + 1
          /\ Len(pExecuted) \in Nat
      BY <2>1, AppendProperties, LenProperties
    <3>2. SubSeq(Append(pExecuted, Head(pQueue)), 1, Len(pExecuted)) = pExecuted
      BY <2>1
    <3>3. Sent' = Sent
      BY <1>2, <2>2, <2>4, <3>1, <3>2 DEF P!Apply, Sent
    <3>4. QED
      BY <2>2, <3>3, StreamShrinks, SubSame
  <2>5. QED
    BY <2>3, <2>4
<1>3. CASE P!Deliver
  <2>1. Head(pQueue) \in P!Task
    BY <1>3, PrimaryTypes DEF P!Deliver, P!QueueLocked, Joint
  <2>2. Sent' = Append(Sent, Head(pQueue))
    BY <1>3, SentType DEF P!Deliver, Sent
  <2>3. P!Forwarded(Head(pQueue)) \in P!Frame
        /\ Content(P!Forwarded(Head(pQueue))) = Content(Head(pQueue))
    BY <1>3, <2>1, PrimaryTypes DEF P!Forwarded, P!Frame, P!Task, Content, Joint
  <2>4. Contents(out)' = Append(Contents(out), Content(Head(pQueue)))
    BY <1>3, <2>3, PrimaryTypes, WriteContents, ContentsAppend DEF P!Deliver, Joint
  <2> DEFINE a == Contents(bExecuted) \o Contents(B!Pending) \o Arriving
             x == Content(Head(pQueue))
  <2>5. Stream' = a \o Append(Contents(out), x) /\ Stream = a \o Contents(out)
    BY <1>3, <2>4, StreamOfOut DEF Stream
  <2>6. a \in Seq(Pairs) /\ Contents(out) \in Seq(Pairs) /\ x \in Pairs
    BY <2>1, StreamType, WriteContents, ConcatProperties
  <2> HIDE DEF a, x
  <2>7. a \o Append(Contents(out), x) = Append(a \o Contents(out), x)
    <3>1. /\ <<x>> \in Seq(Pairs) /\ a \o Contents(out) \in Seq(Pairs)
          /\ Append(Contents(out), x) = Contents(out) \o <<x>>
      BY <2>6, AppendIsConcat, ConcatProperties
    <3>2. Append(a \o Contents(out), x) = (a \o Contents(out)) \o <<x>>
      BY <2>6, <3>1, AppendIsConcat
    <3>3. QED
      BY <2>6, <3>1, <3>2, ConcatAssociative
  <2>8. QED
    BY <2>1, <2>2, <2>5, <2>7, BothGrow DEF x
<1>4. CASE P!SendFails
  <2>1. Head(pQueue) \in P!Task
    BY <1>4, PrimaryTypes DEF P!SendFails, P!QueueLocked, Joint
  <2>2. Sent' = Append(Sent, Head(pQueue))
    BY <1>4, SentType DEF P!SendFails, Sent
  <2>3. Stream' = Stream
    BY <1>4, StreamSame DEF P!SendFails
  <2>4. QED
    BY <2>1, <2>2, <2>3, SentGrows
<1>5. QED
  BY <1>1, <1>2, <1>3, <1>4 DEF P!WorkerRuns

-----------------------------------------------------------------------------
(* Steps of the backup.                                                    *)

PrimarySame == pWorker' = pWorker /\ pExecuted' = pExecuted

LEMMA SentSame == ASSUME PrimarySame PROVE Sent' = Sent
BY DEF PrimarySame, Sent

\* A put goes into the hands of invoke; anything else is dropped there.
LEMMA TransferFollows == ASSUME Joint, Follows, Transfer PROVE Follows'
<1>1. /\ out # <<>> /\ out' = Tail(out)
      /\ bMain = "poll" /\ bMain' = "invoke" /\ from' = "primary"
      /\ bReq' = AsRequest(Head(out))
      /\ UNCHANGED <<bExecuted, bQueue, bWorker>> /\ PrimarySame
  BY DEF Transfer, P!BackupReads, P!mainVars, B!Receive, B!shared, PrimarySame
<1> DEFINE a == Contents(bExecuted) \o Contents(B!Pending)
           x == <<Content(Head(out))>>
           o == Contents(Tail(out))
<1>2. a' = a /\ a \in Seq(Pairs)
  BY <1>1, StreamType, ConcatProperties DEF Contents, B!Pending, B!HeadDone
<1>3. Head(out) \in P!Frame /\ Tail(out) \in Seq(P!Frame)
  BY <1>1, HeadIsRequest DEF Joint
<1>4. x \in Seq(Pairs) /\ o \in Seq(Pairs)
  <2>1. Content(Head(out)) \in Pairs
    BY <1>3, WriteContents
  <2>2. o \in Seq(Pairs)
    BY <1>3, WriteContents, ContentsType
  <2>3. QED
    BY <2>1, <2>2
<1>5. Contents(out) = x \o o /\ Contents(out)' = o
  BY <1>1, PrimaryTypes, WriteContents, ContentsHead DEF Joint, Contents
<1>6. Arriving = <<>> /\ Arriving' \in {x, <<>>}
  BY <1>1 DEF Arriving, AsRequest, Content
<1>7. Stream = (a \o <<>>) \o (x \o o) /\ Stream' = (a \o Arriving') \o o
  BY <1>2, <1>5, <1>6 DEF Stream
<1> HIDE DEF a, x, o
<1>8. Stream = a \o (x \o o)
  BY <1>2, <1>7, ConcatEmptySeq
<1>9. CASE Arriving' = x
  <2>1. Stream' = Stream
    BY <1>2, <1>4, <1>7, <1>8, <1>9, ConcatAssociative
  <2>2. QED
    BY <1>1, <2>1, SentSame, StreamShrinks, SubSame
<1>10. CASE Arriving' = <<>>
  <2>1. Stream' = a \o o
    BY <1>2, <1>7, <1>10, ConcatEmptySeq
  <2>2. IsSubsequence(a \o o, a \o (x \o o))
    BY <1>2, <1>4, SubDrop
  <2>3. QED
    BY <1>1, <1>8, <2>1, <2>2, SentSame, StreamShrinks
<1>11. QED
  BY <1>6, <1>9, <1>10

\* A request of a client, and an answer, change nothing in the stream.
LEMMA AsideFollows ==
  ASSUME Joint, Follows, UNCHANGED <<bExecuted, B!Pending, out, Arriving>>, PrimarySame
  PROVE  Follows'
<1>1. Stream' = Stream
  BY DEF Stream, Contents
<1>2. QED
  BY <1>1, SentSame, StreamShrinks, SubSame

\* The put becomes the last of the pending ones.
LEMMA AddFollows ==
  ASSUME Joint, Follows, B!QueueAddTask, UNCHANGED <<pVars, link>> PROVE Follows'
<1>1. from = "primary" /\ bReq.opcode = OP_PUT /\ bReq \in Message
  BY BackupTypes
     DEF B!QueueAddTask, Joint, LinkRight, BackupTakesPuts, WriteOps, B!WriteOps, OP_PUT,
         OP_DEL, B!OP_PUT, B!OP_DEL
<1>2. /\ UNCHANGED <<bExecuted, out>> /\ PrimarySame
      /\ bQueue' = Append(bQueue, B!NewTask) /\ ~B!QueueLocked
      /\ bMain = "invoke" /\ bMain' = "mark"
      /\ bWorker' \in {bWorker, "acquire"}
  BY DEF B!QueueAddTask, pVars, PrimarySame
<1>3. B!NewTask \in [op_n : {bLast + 1}, op : {1}, key : Keys, data : Data]
      /\ Content(B!NewTask) = Content(bReq)
  BY <1>1 DEF B!NewTask, Content, Message, OP_PUT, B!OP_DEL
<1>4. B!NewTask \in B!Task
  <2>1. bLast \in 0..MaxOps /\ bLast < MaxOps
    BY <1>2, <1>1 DEF Joint, BInv, B!TypeOK, B!QueueAddTask, B!WriteOps, OP_PUT, B!OP_PUT
  <2>2. QED
    BY <1>3, <2>1, ReplicationAssumption DEF B!Task, B!Data, Data
<1>5. B!Pending = bQueue /\ B!Pending' = Append(bQueue, B!NewTask)
  BY <1>2 DEF B!Pending, B!HeadDone, B!QueueLocked
<1> DEFINE e == Contents(bExecuted)
           q == Contents(bQueue)
           x == <<Content(bReq)>>
           o == Contents(out)
<1>6. e \in Seq(Pairs) /\ q \in Seq(Pairs) /\ x \in Seq(Pairs) /\ o \in Seq(Pairs)
  BY <1>1, <1>5, StreamType, WriteContents
<1>7. Contents(B!Pending)' = q \o x
  <2>1. Contents(Append(bQueue, B!NewTask)) = Append(q, Content(B!NewTask))
    BY <1>4, BackupTypes, WriteContents, ContentsAppend DEF Joint
  <2>2. Append(q, Content(bReq)) = q \o x
    BY <1>1, <1>6, WriteContents, AppendIsConcat
  <2>3. QED
    BY <1>3, <1>5, <2>1, <2>2 DEF Contents
<1>8. Arriving = x /\ Arriving' = <<>>
  BY <1>1, <1>2 DEF Arriving
<1>9. Stream = ((e \o q) \o x) \o o /\ Stream' = ((e \o (q \o x)) \o <<>>) \o o
  BY <1>2, <1>5, <1>7, <1>8 DEF Stream, Contents
<1> HIDE DEF e, q, x, o
<1>10. Stream' = Stream
  <2>1. e \o (q \o x) \in Seq(Pairs)
    BY <1>6, ConcatProperties
  <2>2. (e \o (q \o x)) \o <<>> = e \o (q \o x)
    BY <2>1, ConcatEmptySeq
  <2>3. (e \o q) \o x = e \o (q \o x)
    BY <1>6, ConcatAssociative
  <2>4. QED
    BY <1>9, <2>2, <2>3
<1>11. QED
  BY <1>2, <1>10, SentSame, StreamShrinks, SubSame

LEMMA ReplyFollows ==
  ASSUME Joint, Follows,
         B!MarkReply \/ B!Read \/ B!Ignore \/ B!Reply, UNCHANGED <<pVars, from>>
  PROVE  Follows'
<1>1. UNCHANGED <<bExecuted, bQueue, bWorker, out>> /\ PrimarySame
  BY DEF B!MarkReply, B!Read, B!Ignore, B!Reply, B!shared, pVars, PrimarySame
<1>2. Arriving = <<>> /\ Arriving' = <<>>
  BY DEF Arriving, B!MarkReply, B!Read, B!Ignore, B!Reply, OP_PUT, B!OP_PUT, B!OP_DEL,
         B!WriteOps, B!ReadOps, B!OP_SIZE, B!OP_GET, B!OP_GETKEYS, B!OP_HEIGHT
<1>3. UNCHANGED B!Pending
  BY <1>1 DEF B!Pending, B!HeadDone
<1>4. QED
  BY <1>1, <1>2, <1>3, AsideFollows

\* VERIFY loses a stretch at the head of the queue.
LEMMA VerifyFollows ==
  ASSUME Joint, Follows, B!Verify, UNCHANGED <<pVars, link>> PROVE Follows'
<1>1. /\ UNCHANGED <<bExecuted, out, bWorker>> /\ PrimarySame
      /\ ~B!QueueLocked
  BY DEF B!Verify, pVars, PrimarySame
<1>2. Arriving = <<>> /\ Arriving' = <<>>
  BY DEF Arriving, B!Verify, OP_PUT, B!OP_VERIFY
<1>3. B!Pending = bQueue /\ B!Pending' = bQueue' /\ bQueue \in Seq(B!Task)
  BY <1>1, BackupTypes DEF B!Pending, B!HeadDone, B!QueueLocked, Joint
<1>4. PICK p \in Seq(B!Task), s \in Seq(B!Task) : bQueue = p \o s /\ bQueue' = s
  <2>1. CASE bQueue' = bQueue
    <3>1. bQueue = <<>> \o bQueue /\ <<>> \in Seq(B!Task)
      BY <1>3, ConcatEmptySeq
    <3>2. QED
      BY <1>3, <2>1, <3>1
  <2>2. CASE bQueue' = <<>>
    <3>1. bQueue = bQueue \o <<>> /\ <<>> \in Seq(B!Task)
      BY <1>3, ConcatEmptySeq
    <3>2. QED
      BY <1>3, <2>2, <3>1
  <2>3. ASSUME NEW i \in DOMAIN bQueue, bQueue' = SubSeq(bQueue, i, Len(bQueue))
        PROVE  \E p, s \in Seq(B!Task) : bQueue = p \o s /\ bQueue' = s
    <3>1. /\ i \in 1..Len(bQueue) /\ Len(bQueue) \in Nat
          /\ \A j \in 1..Len(bQueue) : bQueue[j] \in B!Task
      BY <1>3, LenProperties, ElementOfSeq
    <3>2. /\ i - 1 \in 0..Len(bQueue) /\ 1 \in 1..Len(bQueue) + 1
          /\ Len(bQueue) \in i - 1..Len(bQueue) /\ (i - 1) + 1 = i
      BY <3>1
    <3>3. SubSeq(bQueue, 1, i - 1) \in Seq(B!Task)
      BY <3>1, <3>2, SubSeqProperties
    <3>4. SubSeq(bQueue, i, Len(bQueue)) \in Seq(B!Task)
      BY <3>1, SubSeqProperties
    <3>5. bQueue = SubSeq(bQueue, 1, i - 1) \o SubSeq(bQueue, i, Len(bQueue))
      <4>1. i - 1 \in 1 - 1..Len(bQueue) /\ Len(bQueue) \in i - 1..Len(bQueue)
        BY <3>2
      <4>2. SubSeq(bQueue, 1, i - 1) \o SubSeq(bQueue, (i - 1) + 1, Len(bQueue))
                = SubSeq(bQueue, 1, Len(bQueue))
        BY <1>3, <3>2, <4>1, ConcatAdjacentSubSeq
      <4>3. SubSeq(bQueue, 1, Len(bQueue)) = bQueue
        BY <1>3, SubSeqFull
      <4>4. QED
        BY <3>2, <4>2, <4>3
    <3>6. QED
      BY <2>3, <3>3, <3>4, <3>5
  <2>4. QED
    BY <2>1, <2>2, <2>3 DEF B!Verify, B!At
<1> DEFINE e == Contents(bExecuted)
           b == Contents(p)
           q == Contents(s)
           o == Contents(out)
<1>5. e \in Seq(Pairs) /\ b \in Seq(Pairs) /\ q \in Seq(Pairs) /\ o \in Seq(Pairs)
  BY StreamType, WriteContents, ContentsType
<1>6. Contents(bQueue) = b \o q /\ Contents(bQueue)' = q
  <2>1. Contents(p \o s) = b \o q
    BY WriteContents, ContentsConcat
  <2>2. Contents(bQueue)' = Contents(bQueue')
    BY DEF Contents
  <2>3. QED
    BY <1>4, <2>1, <2>2
<1>7. Stream = ((e \o (b \o q)) \o <<>>) \o o /\ Stream' = ((e \o q) \o <<>>) \o o
  BY <1>1, <1>2, <1>3, <1>6 DEF Stream, Contents
<1> HIDE DEF e, b, q, o
<1>8. Stream' = e \o (q \o o)
  <2>1. e \o q \in Seq(Pairs)
    BY <1>5, ConcatProperties
  <2>2. (e \o q) \o <<>> = e \o q
    BY <2>1, ConcatEmptySeq
  <2>3. QED
    BY SMTT(20), <1>5, <1>7, <2>2, ConcatAssociative
<1>9. Stream = e \o (b \o (q \o o))
  <2>1. b \o q \in Seq(Pairs) /\ e \o (b \o q) \in Seq(Pairs)
    BY <1>5, ConcatProperties
  <2>2. (e \o (b \o q)) \o <<>> = e \o (b \o q)
    BY <2>1, ConcatEmptySeq
  <2>3. (e \o (b \o q)) \o o = e \o ((b \o q) \o o)
    <3>1. ASSUME NEW t \in Seq(Pairs) PROVE (e \o t) \o o = e \o (t \o o)
      BY SMTT(20), <1>5, ConcatAssociative
    <3>2. QED
      BY <2>1, <3>1
  <2>4. (b \o q) \o o = b \o (q \o o)
    BY SMTT(20), <1>5, ConcatAssociative
  <2>5. QED
    BY <1>7, <2>2, <2>3, <2>4
<1>10. IsSubsequence(e \o (q \o o), e \o (b \o (q \o o)))
  <2>1. q \o o \in Seq(Pairs)
    BY <1>5, ConcatProperties
  <2>2. QED
    BY <1>5, <2>1, SubDrop
<1>11. QED
  BY <1>1, <1>8, <1>9, <1>10, SentSame, StreamShrinks

LEMMA BackupReceivesFollows ==
  ASSUME Joint, Follows, NEW r \in Reads, BackupReceives(r) PROVE Follows'
<1>1. UNCHANGED <<bExecuted, bQueue, bWorker, out>> /\ PrimarySame
  BY DEF BackupReceives, B!Receive, B!shared, pVars, PrimarySame
<1>2. Arriving = <<>> /\ Arriving' = <<>>
  BY DEF Arriving, BackupReceives, B!Receive
<1>3. UNCHANGED B!Pending
  BY <1>1 DEF B!Pending, B!HeadDone
<1>4. QED
  BY <1>1, <1>2, <1>3, AsideFollows

LEMMA BackupMainFollows == ASSUME Joint, Follows, BackupMain PROVE Follows'
<1>1. CASE BackupInvokes
  <2>1. UNCHANGED <<pVars, link>> /\ UNCHANGED <<pVars, from>>
    BY <1>1 DEF BackupInvokes, link
  <2>2. QED
    BY <1>1, <2>1, AddFollows, VerifyFollows, ReplyFollows DEF BackupInvokes
<1>2. CASE BackupReplies
  BY <1>2, ReplyFollows DEF BackupReplies
<1>3. QED
  BY <1>1, <1>2 DEF BackupMain

\* An executed write moves from the pending ones to the executed ones.
LEMMA BackupWorkerFollows == ASSUME Joint, Follows, BackupWorker PROVE Follows'
<1>1. UNCHANGED <<out, from, bMain, bReq>> /\ PrimarySame /\ UNCHANGED Arriving
  BY DEF BackupWorker, pVars, link, PrimarySame, Arriving, B!WorkerRuns, B!Acquire, B!Apply,
         B!Mark, B!Deliver, B!SendFails, B!Pop, B!mainVars
<1>2. CASE B!Acquire \/ B!Mark \/ B!Deliver \/ B!SendFails \/ B!Pop
  <2>1. UNCHANGED <<bExecuted, B!Pending>>
    BY <1>2 DEF B!Pending, B!HeadDone, B!Acquire, B!Mark, B!Deliver, B!SendFails, B!Pop,
                B!shared
  <2>2. QED
    BY <1>1, <2>1, AsideFollows
<1>3. CASE B!Apply
  <2>1. /\ B!Pending = bQueue /\ B!Pending' = Tail(bQueue)
        /\ bExecuted' = Append(bExecuted, Head(bQueue))
    BY <1>3 DEF B!Apply, B!Pending, B!HeadDone
  <2>2. /\ bQueue \in Seq(B!Task) /\ bQueue # <<>> /\ bExecuted \in Seq(B!Task)
        /\ Head(bQueue) \in B!Task /\ Tail(bQueue) \in Seq(B!Task)
    BY <1>3, BackupTypes DEF B!Apply, B!QueueLocked, Joint
  <2> DEFINE e == Contents(bExecuted)
             x == <<Content(Head(bQueue))>>
             q == Contents(Tail(bQueue))
  <2>3. Content(Head(bQueue)) \in Pairs
    BY <2>2, WriteContents
  <2>4. e \in Seq(Pairs) /\ q \in Seq(Pairs) /\ x \in Seq(Pairs)
    <3>1. q \in Seq(Pairs)
      BY <2>2, WriteContents, ContentsType
    <3>2. QED
      BY <2>3, <3>1, StreamType
  <2>5. Contents(bQueue) = x \o q
    BY <2>2, WriteContents, ContentsHead
  <2>6. Contents(bExecuted)' = e \o x
    <3>1. Contents(Append(bExecuted, Head(bQueue))) = Append(e, Content(Head(bQueue)))
      BY <2>2, WriteContents, ContentsAppend
    <3>2. Append(e, Content(Head(bQueue))) = e \o x
      BY <2>3, <2>4, AppendIsConcat
    <3>3. QED
      BY <2>1, <3>1, <3>2 DEF Contents
  <2>7. Contents(B!Pending)' = q
    BY <2>1 DEF Contents
  <2>8. (e \o x) \o q = e \o (x \o q)
    <3> HIDE DEF e, x, q
    <3>1. QED
      BY <2>4, ConcatAssociative
  <2>9. Stream' = Stream
    BY <1>1, <2>1, <2>5, <2>6, <2>7, <2>8 DEF Stream, Contents
  <2>10. QED
    BY <1>1, <2>9, SentSame, StreamShrinks, SubSame
<1>4. QED
  BY <1>2, <1>3 DEF BackupWorker, B!WorkerRuns

LEMMA FollowsStep == Joint /\ Follows /\ [Next]_vars => Follows'
<1> SUFFICES ASSUME Joint, Follows, [Next]_vars PROVE Follows'
  OBVIOUS
<1>1. CASE UNCHANGED vars
  <2>1. UNCHANGED <<bExecuted, B!Pending, out, Arriving>> /\ PrimarySame
    BY <1>1 DEF vars, pVars, bVars, link, B!Pending, B!HeadDone, Arriving, PrimarySame
  <2>2. QED
    BY <2>1, AsideFollows
<1>2. QED
  BY <1>1, ConnectFollows, PrimaryReceivesFollows, PrimaryMainFollows, PrimaryWorkerFollows,
     TransferFollows, BackupReceivesFollows, BackupMainFollows, BackupWorkerFollows DEF Next

LEMMA FollowsInit == Init => Follows
<1> SUFFICES ASSUME Init PROVE Follows
  OBVIOUS
<1>1. /\ bExecuted = <<>> /\ B!Pending = <<>> /\ Arriving = <<>> /\ out = <<>>
      /\ Sent = <<>>
  BY DEF Init, P!Init, B!Init, B!Pending, B!HeadDone, Arriving, Sent
<1>2. Stream = <<>> /\ Contents(Sent) = <<>>
  BY <1>1, ContentsOfFew DEF Stream
<1>3. QED
  BY <1>2, SubSame DEF Follows

LEMMA FollowsIsEnough == ASSUME Joint, Follows PROVE BackupFollows
<1>1. CASE pWorker \in {"mark", "send"}
  <2>1. Sent \in Seq(P!Task) /\ pExecuted = Append(Sent, Head(pQueue))
    BY <1>1, SentType
  <2>2. Head(pQueue) \in P!Task
    BY <1>1, PrimaryTypes DEF Joint, P!QueueLocked
  <2>3. /\ Contents(pExecuted) = Append(Contents(Sent), Content(Head(pQueue)))
        /\ Content(Head(pQueue)) \in Pairs
    BY <2>1, <2>2, WriteContents, ContentsAppend
  <2>4. QED
    BY <2>3, StreamType, SubGrows DEF Follows, BackupFollows
<1>2. CASE pWorker \notin {"mark", "send"}
  BY <1>2 DEF Follows, BackupFollows, Sent
<1>3. QED
  BY <1>1, <1>2

\* However the threads of the two servers meet, and whenever the primary
\* connects, what the backup has executed, queued or not read yet is a
\* subsequence of what the primary executed (tree_skel.c:128-141): no write
\* overtakes another, arrives twice or is made up.
THEOREM BackupNeverOvertakes == Spec => []BackupFollows
<1>1. Joint /\ Follows => BackupFollows
  BY FollowsIsEnough
<1>2. Init => Joint /\ Follows
  BY JointInit, FollowsInit
<1>3. Joint /\ Follows /\ [Next]_vars => (Joint /\ Follows)'
  BY JointStep, FollowsStep
<1>4. QED
  BY <1>1, <1>2, <1>3, PTL DEF Spec

-----------------------------------------------------------------------------
(* Agreement.  It follows from BackupNeverOvertakes by counting: a         *)
(* subsequence that is no shorter than the sequence is the sequence.       *)

(* Counting.                                                               *)

LEMMA LeastExists ==
  ASSUME NEW S \in SUBSET Nat, S # {}
  PROVE  \E n \in S : \A m \in S : n <= m
<1> DEFINE Less == {p \in Nat \X Nat : p[1] < p[2]}
<1>1. IsWellFoundedOn(Less, Nat)
  BY NatLessThanWellFounded, Zenon DEF OpToRel
<1>2. PICK n \in S : \A m \in S : ~(<<m, n>> \in Less)
  BY <1>1, WFMin
<1>3. ASSUME NEW m \in S PROVE n <= m
  <2>1. m \in Nat /\ n \in Nat /\ ~(<<m, n>> \in Less)
    BY <1>2
  <2> QED
    BY <2>1
<1> QED
  BY <1>3

Climbs(m, n, f) ==
    /\ f \in [1..m -> 1..n]
    /\ \A i, j \in 1..m : i < j => f[i] < f[j]

\* Climbing from 1 on, f is never below its place.
LEMMA NeverBelow ==
  ASSUME NEW m \in Nat, NEW n \in Nat, NEW f, Climbs(m, n, f), NEW i \in 1..m
  PROVE  f[i] >= i
<1> SUFFICES ASSUME ~(f[i] >= i) PROVE FALSE
  OBVIOUS
<1> DEFINE Low == {j \in 1..m : ~(f[j] >= j)}
<1>1. Low \in SUBSET Nat /\ i \in Low
  OBVIOUS
<1>2. PICK k \in Low : \A j \in Low : k <= j
  BY <1>1, LeastExists
<1>3. k \in 1..m /\ f[k] \in 1..n /\ f[k] < k
  BY DEF Climbs
<1>4. k - 1 \in 1..m /\ ~(k - 1 \in Low)
  BY <1>2, <1>3
<1>5. f[k - 1] \in 1..n /\ f[k - 1] >= k - 1 /\ f[k - 1] < f[k]
  BY <1>3, <1>4 DEF Climbs
<1>6. QED
  BY <1>3, <1>5

\* And if it climbs to the last place at most, it is never above either.
LEMMA ClimbsInPlace ==
  ASSUME NEW m \in Nat, NEW n \in Nat, n <= m, NEW f, Climbs(m, n, f)
  PROVE  m = n /\ \A i \in 1..m : f[i] = i
<1>1. m = n
  <2>1. CASE m = 0
    BY <2>1
  <2>2. CASE m # 0
    <3>1. m \in 1..m
      BY <2>2
    <3>2. f[m] >= m /\ f[m] \in 1..n
      BY <3>1, NeverBelow DEF Climbs
    <3>3. QED
      BY <3>2
  <2>3. QED
    BY <2>1, <2>2
<1>2. ASSUME NEW i \in 1..m, f[i] # i PROVE FALSE
  <2> DEFINE Up(j) == m - j
             High == {d \in 0..m - 1 : f[m - d] # m - d}
  <2>1. High \in SUBSET Nat /\ m - i \in High
    BY <1>2
  <2>2. PICK d \in High : \A e \in High : d <= e
    BY <2>1, LeastExists
  <2>3. m - d \in 1..m /\ f[m - d] \in 1..m /\ f[m - d] > m - d
    <3>1. m - d \in 1..m
      OBVIOUS
    <3>2. f[m - d] \in 1..m /\ f[m - d] >= m - d
      BY <1>1, <3>1, NeverBelow DEF Climbs
    <3>3. QED
      BY <3>1, <3>2
  <2>4. d - 1 \in 0..m - 1 /\ ~(d - 1 \in High) /\ m - (d - 1) \in 1..m
    BY <2>2, <2>3
  <2>5. f[m - (d - 1)] = m - (d - 1)
    BY <2>4
  <2>6. f[m - d] < f[m - (d - 1)]
    BY <2>3, <2>4 DEF Climbs
  <2>7. QED
    BY <2>3, <2>4, <2>5, <2>6
<1>3. QED
  BY <1>1, <1>2

\* A subsequence that is no shorter is the whole.
LEMMA SubAsLong ==
  ASSUME NEW C, NEW s \in Seq(C), NEW t \in Seq(C), IsSubsequence(s, t),
         Len(t) <= Len(s)
  PROVE  s = t
<1>1. PICK f \in [DOMAIN s -> DOMAIN t] :
        /\ \A i, j \in DOMAIN s : i < j => f[i] < f[j]
        /\ \A i \in DOMAIN s : s[i] = t[f[i]]
  BY DEF IsSubsequence
<1>2. /\ DOMAIN s = 1..Len(s) /\ Len(s) \in Nat
      /\ DOMAIN t = 1..Len(t) /\ Len(t) \in Nat
  BY LenProperties
<1>3. Climbs(Len(s), Len(t), f)
  BY <1>1, <1>2 DEF Climbs
<1>4. Len(s) = Len(t) /\ \A i \in 1..Len(s) : f[i] = i
  BY <1>2, <1>3, ClimbsInPlace
<1>5. \A i \in 1..Len(s) : s[i] = t[i]
  BY <1>1, <1>2, <1>4
<1>6. QED
  BY <1>4, <1>5, SeqEqual

-----------------------------------------------------------------------------
(* The numbers of the primary, which is sent no VERIFY.                    *)

NumberedFrom(n, s) == \A i \in 1..Len(s) : s[i].op_n = n + i

\* The executed writes and the pending ones have the numbers 1 to pLast.
Numbered ==
    /\ NumberedFrom(0, pExecuted)
    /\ NumberedFrom(Len(pExecuted), P!Pending)
    /\ pLast = Len(pExecuted) + Len(P!Pending)

LEMMA NumberedAppend ==
  ASSUME NEW S, NEW s \in Seq(S), NEW t \in S, NEW n \in Nat, NumberedFrom(n, s),
         t.op_n = n + (Len(s) + 1)
  PROVE  NumberedFrom(n, Append(s, t)) /\ Len(Append(s, t)) = Len(s) + 1
<1>1. /\ Len(Append(s, t)) = Len(s) + 1 /\ Len(s) \in Nat
      /\ \A i \in 1..Len(s) : Append(s, t)[i] = s[i]
      /\ Append(s, t)[Len(s) + 1] = t
  BY AppendProperties, LenProperties
<1>2. \A i \in 1..Len(s) + 1 : i \in 1..Len(s) \/ i = Len(s) + 1
  BY <1>1
<1>3. QED
  BY <1>1, <1>2 DEF NumberedFrom

LEMMA NumberedTail ==
  ASSUME NEW S, NEW s \in Seq(S), s # <<>>, NEW n \in Nat, NumberedFrom(n, s)
  PROVE  /\ Head(s).op_n = n + 1 /\ NumberedFrom(n + 1, Tail(s))
         /\ Len(Tail(s)) = Len(s) - 1
<1>1. /\ Len(Tail(s)) = Len(s) - 1 /\ Len(s) \in Nat /\ Len(s) # 0
      /\ \A i \in 1..Len(s) - 1 : Tail(s)[i] = s[i + 1]
      /\ Head(s) = s[1]
  BY HeadTailProperties, LenProperties, EmptySeq
<1>2. 1 \in 1..Len(s) /\ \A i \in 1..Len(s) - 1 : i + 1 \in 1..Len(s)
  BY <1>1
<1>3. ASSUME NEW i \in 1..Len(s) - 1 PROVE Tail(s)[i].op_n = (n + 1) + i
  <2>1. s[i + 1].op_n = n + (i + 1)
    BY <1>2 DEF NumberedFrom
  <2>2. QED
    BY <1>1, <2>1
<1>4. Head(s).op_n = n + 1
  BY <1>1, <1>2 DEF NumberedFrom
<1>5. QED
  BY <1>1, <1>3, <1>4 DEF NumberedFrom

LEMMA PendingTypes ==
  ASSUME PInv
  PROVE  P!Pending \in Seq(P!Task)
<1>1. CASE P!HeadDone
  BY <1>1, PrimaryTypes DEF P!Pending, P!HeadDone, P!QueueLocked
<1>2. CASE ~P!HeadDone
  BY <1>2, PrimaryTypes DEF P!Pending
<1>3. QED
  BY <1>1, <1>2

LEMMA NumberedStep == PInv /\ Numbered /\ [P!Next]_pVars => Numbered'
<1> SUFFICES ASSUME PInv, Numbered, [P!Next]_pVars PROVE Numbered'
  OBVIOUS
<1>1. ASSUME UNCHANGED <<P!Pending, pExecuted, pLast>> PROVE Numbered'
  BY <1>1 DEF Numbered, NumberedFrom
<1>2. CASE P!QueueAddTask
  <2>1. /\ pQueue' = Append(pQueue, P!NewTask) /\ pLast' = pLast + 1 /\ pExecuted' = pExecuted
        /\ P!Pending = pQueue /\ P!Pending' = Append(pQueue, P!NewTask)
        /\ P!NewTask.op_n = pLast + 1
    BY <1>2 DEF P!QueueAddTask, P!Pending, P!HeadDone, P!QueueLocked, P!NewTask
  <2>2. P!NewTask \in P!Task
    <3>1. /\ pReq \in Message /\ pLast \in 0..MaxOps /\ pLast < MaxOps
      BY <1>2, RequestsTyped, ReplicationAssumption
         DEF PInv, P!TypeOK, P!QueueAddTask, Message
    <3>2. QED
      BY <3>1, ReplicationAssumption DEF P!NewTask, P!Task, P!Data, Data, Message
  <2>3. Len(pExecuted) \in Nat /\ pQueue \in Seq(P!Task) /\ Len(pQueue) \in Nat
    BY PrimaryTypes, LenProperties
  <2>4. /\ NumberedFrom(Len(pExecuted), pQueue) /\ pLast = Len(pExecuted) + Len(pQueue)
    BY <2>1 DEF Numbered
  <2>5. P!NewTask.op_n = Len(pExecuted) + (Len(pQueue) + 1)
    BY <2>1, <2>3, <2>4
  <2>6. /\ NumberedFrom(Len(pExecuted), Append(pQueue, P!NewTask))
        /\ Len(Append(pQueue, P!NewTask)) = Len(pQueue) + 1
    BY <2>2, <2>3, <2>4, <2>5, NumberedAppend
  <2>7. pLast' = Len(pExecuted) + (Len(pQueue) + 1)
    BY <2>1, <2>3, <2>4
  <2>8. NumberedFrom(0, pExecuted)
    BY DEF Numbered
  <2>9. QED
    BY <2>1, <2>6, <2>7, <2>8 DEF Numbered, NumberedFrom
<1>3. CASE P!Verify
  BY <1>3, ReplicationAssumption
     DEF P!Verify, PInv, P!TypeOK, OP_VERIFY, P!OP_VERIFY
<1>4. CASE P!Apply
  <2>1. /\ P!Pending = pQueue /\ P!Pending' = Tail(pQueue)
        /\ pExecuted' = Append(pExecuted, Head(pQueue)) /\ pLast' = pLast
    BY <1>4 DEF P!Apply, P!Pending, P!HeadDone, P!mainVars
  <2>2. /\ pQueue \in Seq(P!Task) /\ pQueue # <<>> /\ Head(pQueue) \in P!Task
        /\ Len(pExecuted) \in Nat /\ Len(pQueue) \in Nat /\ pExecuted \in Seq(P!Task)
    BY <1>4, PrimaryTypes, LenProperties DEF P!Apply, P!QueueLocked
  <2>3. NumberedFrom(Len(pExecuted), pQueue) /\ pLast = Len(pExecuted) + Len(pQueue)
        /\ NumberedFrom(0, pExecuted)
    BY <2>1 DEF Numbered
  <2>4. /\ Head(pQueue).op_n = Len(pExecuted) + 1
        /\ NumberedFrom(Len(pExecuted) + 1, Tail(pQueue))
        /\ Len(Tail(pQueue)) = Len(pQueue) - 1
    BY <2>2, <2>3, NumberedTail
  <2>5. /\ NumberedFrom(0, Append(pExecuted, Head(pQueue)))
        /\ Len(Append(pExecuted, Head(pQueue))) = Len(pExecuted) + 1
    <3>1. Head(pQueue).op_n = 0 + (Len(pExecuted) + 1)
      BY <2>2, <2>4
    <3>2. QED
      BY <2>2, <2>3, <3>1, NumberedAppend
  <2>6. pLast = (Len(pExecuted) + 1) + (Len(pQueue) - 1)
    BY <2>2, <2>3
  <2>7. QED
    BY <2>1, <2>4, <2>5, <2>6 DEF Numbered, NumberedFrom
<1>5. CASE P!Pop
  BY <1>1, <1>5 DEF P!Pop, P!Pending, P!HeadDone, P!mainVars
<1>6. CASE (\E r \in Writes : P!Receive(r)) \/ P!MarkReply \/ P!Read \/ P!Ignore \/ P!Reply
  BY <1>1, <1>6 DEF P!Receive, P!MarkReply, P!Read, P!Ignore, P!Reply, P!shared,
                    P!Pending, P!HeadDone
<1>7. CASE P!Acquire \/ P!SpuriousWakeup \/ P!Mark \/ P!Deliver \/ P!SendFails \/ P!SendLost
  BY <1>1, <1>7 DEF P!Acquire, P!SpuriousWakeup, P!Mark, P!Deliver, P!SendFails, P!SendLost,
                    P!shared, P!mainVars, P!Pending, P!HeadDone
<1>8. CASE P!BackupUp \/ P!BackupDown \/ P!BackupReads \/ UNCHANGED pVars
  BY <1>1, <1>8 DEF P!BackupUp, P!BackupDown, P!BackupReads, pVars, P!mainVars,
                    P!Pending, P!HeadDone
<1>9. QED
  BY <1>2, <1>3, <1>4, <1>5, <1>6, <1>7, <1>8 DEF P!Next, P!Main, P!Worker, P!WorkerRuns

-----------------------------------------------------------------------------
(* The numbers of the backup.                                              *)

\* Between Apply and Deliver the last executed write is not sent yet.
Underway == IF pWorker \in {"mark", "send"} THEN 1 ELSE 0

InHands == IF from = "primary" /\ bMain = "invoke" /\ bReq.opcode = OP_PUT THEN 1 ELSE 0

\* The backup has numbered no more writes than the primary executed, less
\* those on the way.
Counted == bLast + InHands + Len(out) + Underway <= Len(pExecuted)

LEMMA CountTypes ==
  ASSUME Joint
  PROVE  /\ bLast \in Nat /\ Len(out) \in Nat /\ Len(pExecuted) \in Nat
         /\ InHands \in {0, 1} /\ Underway \in {0, 1}
<1>1. bLast \in Nat
  BY ReplicationAssumption DEF Joint, BInv, B!TypeOK
<1>2. QED
  BY <1>1, PrimaryTypes, LenProperties DEF Joint, InHands, Underway

LEMMA CountedStep == Joint /\ Counted /\ [Next]_vars => Counted'
<1> SUFFICES ASSUME Joint, Counted, [Next]_vars PROVE Counted'
  OBVIOUS
<1> USE CountTypes DEF Counted
<1>1. ASSUME UNCHANGED <<bLast, InHands, out, Underway, pExecuted>> PROVE Counted'
  BY <1>1
<1>2. CASE Connect
  <2>1. UNCHANGED <<bLast, InHands, Underway, pExecuted>> /\ out' = <<>>
    BY <1>2 DEF Connect, P!BackupUp, P!mainVars, bVars, link, InHands, Underway
  <2>2. Len(out') = 0
    BY <2>1
  <2>3. QED
    BY <2>1, <2>2
<1>3. ASSUME NEW r \in Writes, PrimaryReceives(r) PROVE Counted'
  BY <1>1, <1>3 DEF PrimaryReceives, P!Receive, P!shared, bVars, link, InHands, Underway
<1>4. CASE PrimaryMain
  BY <1>1, <1>4 DEF PrimaryMain, P!Main, P!QueueAddTask, P!MarkReply, P!Verify, P!Read,
                    P!Ignore, P!Reply, P!shared, bVars, link, InHands, Underway
<1>5. CASE PrimaryWorker
  <2>1. UNCHANGED <<bLast, InHands>>
    BY <1>5 DEF PrimaryWorker, bVars, link, InHands
  <2>2. CASE P!Acquire \/ P!Mark \/ P!Pop
    BY <1>1, <2>1, <2>2 DEF P!Acquire, P!Mark, P!Pop, P!shared, P!mainVars, Underway
  <2>3. CASE P!Apply
    <3>1. Head(pQueue) \in P!Task /\ pExecuted \in Seq(P!Task)
      BY <2>3, PrimaryTypes DEF P!Apply, P!QueueLocked, Joint
    <3>2. Len(pExecuted') = Len(pExecuted) + 1
      BY <2>3, <3>1, AppendProperties DEF P!Apply
    <3>3. out' = out /\ Underway = 0 /\ Underway' \in {0, 1}
      BY <2>3 DEF P!Apply, Underway
    <3>4. QED
      BY <2>1, <3>2, <3>3
  <2>4. CASE P!Deliver
    <3>1. Head(pQueue) \in P!Task /\ out \in Seq(P!Frame)
      BY <2>4, PrimaryTypes DEF P!Deliver, P!QueueLocked, Joint
    <3>2. P!Forwarded(Head(pQueue)) \in P!Frame
      <4>1. pOpcode \in [1..MaxOps -> Nat]
        BY PrimaryTypes DEF Joint
      <4>2. QED
        BY <3>1, <4>1 DEF P!Forwarded, P!Frame, P!Task
    <3>3. Len(out') = Len(out) + 1
      BY <2>4, <3>1, <3>2, AppendProperties DEF P!Deliver
    <3>4. pExecuted' = pExecuted /\ Underway = 1 /\ Underway' = 0
      BY <2>4 DEF P!Deliver, Underway
    <3>5. QED
      BY <2>1, <3>3, <3>4
  <2>5. CASE P!SendFails
    <3>1. UNCHANGED <<out, pExecuted>> /\ Underway = 1 /\ Underway' = 0
      BY <2>5 DEF P!SendFails, P!shared, Underway
    <3>2. QED
      BY <2>1, <3>1
  <2>6. QED
    BY <1>5, <2>2, <2>3, <2>4, <2>5 DEF PrimaryWorker, P!WorkerRuns
<1>6. CASE Transfer
  <2>1. /\ UNCHANGED <<bLast, Underway, pExecuted>> /\ out # <<>> /\ out' = Tail(out)
        /\ InHands = 0 /\ InHands' \in {0, 1}
    BY <1>6 DEF Transfer, P!BackupReads, P!mainVars, B!Receive, InHands, Underway
  <2>2. Len(out') = Len(out) - 1
    BY <2>1, PrimaryTypes, HeadTailProperties DEF Joint
  <2>3. QED
    BY <2>1, <2>2
<1>7. ASSUME NEW r \in Reads, BackupReceives(r) PROVE Counted'
  <2>1. UNCHANGED <<bLast, out, Underway, pExecuted>> /\ InHands' = 0
    BY <1>7 DEF BackupReceives, B!Receive, pVars, InHands, Underway
  <2>2. QED
    BY <2>1
<1>8. CASE BackupMain
  <2>1. UNCHANGED <<out, Underway, pExecuted>>
    BY <1>8 DEF BackupMain, BackupInvokes, BackupReplies, pVars, Underway
  <2>2. CASE B!QueueAddTask
    <3>1. from = "primary" /\ bReq.opcode = OP_PUT /\ bMain = "invoke"
      BY <2>2 DEF B!QueueAddTask, Joint, LinkRight, BackupTakesPuts, WriteOps, B!WriteOps,
                  OP_PUT, OP_DEL, B!OP_PUT, B!OP_DEL
    <3>2. InHands = 1 /\ InHands' = 0 /\ bLast' = bLast + 1
      BY <2>2, <3>1 DEF B!QueueAddTask, InHands
    <3>3. QED
      BY <2>1, <3>2
  <2>3. CASE B!MarkReply \/ B!Verify \/ B!Read \/ B!Ignore \/ B!Reply
    <3>1. bLast' = bLast /\ InHands' = 0
      BY <2>3 DEF B!MarkReply, B!Verify, B!Read, B!Ignore, B!Reply, InHands
    <3>2. QED
      BY <2>1, <3>1
  <2>4. QED
    BY <1>8, <2>2, <2>3 DEF BackupMain, BackupInvokes, BackupReplies
<1>9. CASE BackupWorker
  BY <1>1, <1>9 DEF BackupWorker, pVars, link, B!WorkerRuns, B!Acquire, B!Apply, B!Mark,
                    B!Deliver, B!SendFails, B!Pop, B!mainVars, InHands, Underway
<1>10. CASE UNCHANGED vars
  BY <1>1, <1>10 DEF vars, pVars, bVars, link, InHands, Underway
<1>11. QED
  BY <1>2, <1>3, <1>4, <1>5, <1>6, <1>7, <1>8, <1>9, <1>10 DEF Next

-----------------------------------------------------------------------------
(* The writes the backup accepted.                                         *)

Accepted == bExecuted \o B!Pending

Shift == IF B!HeadDone THEN 1 ELSE 0

LEMMA PendingAt ==
  ASSUME BInv
  PROVE  /\ Len(B!Pending) + Shift = Len(bQueue)
         /\ Shift \in {0, 1} /\ Len(B!Pending) \in Nat
         /\ \A j \in 1..Len(B!Pending) : B!Pending[j] = bQueue[j + Shift]
<1>1. bQueue \in Seq(B!Task) /\ Len(bQueue) \in Nat
      /\ B!Pending \in Seq(B!Task) /\ Len(B!Pending) \in Nat
  BY BackupTypes, LenProperties
<1>2. CASE B!HeadDone
  <2>1. B!Pending = Tail(bQueue) /\ Shift = 1 /\ bQueue # <<>>
    BY <1>2, BackupTypes DEF B!Pending, Shift, B!HeadDone, B!QueueLocked
  <2>2. /\ Len(Tail(bQueue)) = Len(bQueue) - 1
        /\ \A j \in 1..Len(bQueue) - 1 : Tail(bQueue)[j] = bQueue[j + 1]
    BY <1>1, <2>1, HeadTailProperties
  <2>3. QED
    BY <1>1, <2>1, <2>2
<1>3. CASE ~B!HeadDone
  <2>1. B!Pending = bQueue /\ Shift = 0
    BY <1>3 DEF B!Pending, Shift
  <2>2. QED
    BY <1>1, <2>1
<1>4. QED
  BY <1>2, <1>3

LEMMA AcceptedType ==
  ASSUME BInv
  PROVE  /\ Accepted \in Seq(B!Task) /\ Len(Accepted) \in Nat
         /\ Len(Accepted) = Len(bExecuted) + Len(B!Pending)
         /\ Len(bExecuted) \in Nat /\ Len(B!Pending) \in Nat
         /\ DOMAIN Accepted = 1..Len(Accepted)
         /\ \A i \in 1..Len(bExecuted) + Len(B!Pending) : Accepted[i] =
               IF i <= Len(bExecuted) THEN bExecuted[i] ELSE B!Pending[i - Len(bExecuted)]
<1>1. bExecuted \in Seq(B!Task) /\ B!Pending \in Seq(B!Task)
  BY BackupTypes
<1>2. QED
  BY <1>1, ConcatProperties, LenProperties DEF Accepted

\* Their numbers climb from 1 on and end with bLast at most.
LEMMA AcceptedClimbs ==
  ASSUME BInv, bLast \in Nat
  PROVE  Climbs(Len(Accepted), bLast, [i \in 1..Len(Accepted) |-> Accepted[i].op_n])
<1> DEFINE e == Len(bExecuted)
           p == Len(B!Pending)
           f == [i \in 1..Len(Accepted) |-> Accepted[i].op_n]
<1>1. /\ e \in Nat /\ p \in Nat /\ Len(Accepted) = e + p
      /\ \A i \in 1..e + p :
            Accepted[i] = IF i <= e THEN bExecuted[i] ELSE B!Pending[i - e]
  BY AcceptedType
<1>2. /\ DOMAIN bExecuted = 1..e /\ DOMAIN bQueue = 1..p + Shift
      /\ \A i \in 1..e : bExecuted[i].op_n \in Nat /\ bExecuted[i].op_n >= 1
      /\ \A i \in 1..p + Shift : bQueue[i].op_n \in Nat /\ bQueue[i].op_n >= 1
  <2>1. \A w \in B!Task : w.op_n \in Nat /\ w.op_n >= 1
    BY ReplicationAssumption DEF B!Task
  <2>2. /\ DOMAIN bExecuted = 1..e /\ DOMAIN bQueue = 1..p + Shift
        /\ \A i \in 1..e : bExecuted[i] \in B!Task
        /\ \A i \in 1..Len(bQueue) : bQueue[i] \in B!Task
    BY BackupTypes, PendingAt, LenProperties, ElementOfSeq
  <2>3. QED
    BY <2>1, <2>2, PendingAt
<1>3. /\ \A i, j \in 1..e : i < j => bExecuted[i].op_n < bExecuted[j].op_n
      /\ \A i, j \in 1..p + Shift : i < j => bQueue[i].op_n < bQueue[j].op_n
      /\ \A i \in 1..e : bExecuted[i].op_n <= bLast
      /\ \A i \in 1..p + Shift : bQueue[i].op_n <= bLast
      /\ \A i \in 1..e, j \in 1..p + Shift :
            /\ bExecuted[i].op_n <= bQueue[j].op_n
            /\ bExecuted[i].op_n = bQueue[j].op_n => j = 1 /\ B!HeadDone
  <2>1. B!ExecutionOrder
    BY DEF BInv
  <2>2. QED
    BY <1>2, <2>1, Zenon DEF B!ExecutionOrder, B!Ascending
<1>4. /\ Shift \in {0, 1} /\ (B!HeadDone => Shift = 1)
      /\ \A j \in 1..p : B!Pending[j] = bQueue[j + Shift]
  BY PendingAt DEF Shift
<1> HIDE DEF e, p
<1>5. ASSUME NEW i \in 1..e + p
      PROVE  \/ i \in 1..e /\ f[i] = bExecuted[i].op_n
             \/ /\ i > e /\ (i - e) + Shift \in 1..p + Shift
                /\ f[i] = bQueue[(i - e) + Shift].op_n
  <2>1. CASE i <= e
    BY <1>1, <2>1
  <2>2. CASE i > e
    <3>1. i - e \in 1..p /\ (i - e) + Shift \in 1..p + Shift
      BY <1>1, <1>4, <2>2
    <3>2. f[i] = B!Pending[i - e].op_n
      BY <1>1, <2>2
    <3>3. QED
      BY <1>4, <2>2, <3>1, <3>2
  <2>3. QED
    BY <1>1, <2>1, <2>2
<1>6. ASSUME NEW i \in 1..e + p PROVE f[i] \in 1..bLast
  <2>1. CASE i \in 1..e /\ f[i] = bExecuted[i].op_n
    BY <1>2, <1>3, <2>1
  <2>2. CASE (i - e) + Shift \in 1..p + Shift /\ f[i] = bQueue[(i - e) + Shift].op_n
    BY <1>2, <1>3, <2>2
  <2>3. QED
    BY <1>5, <2>1, <2>2
<1>7. ASSUME NEW i \in 1..e + p, NEW j \in 1..e + p, i < j PROVE f[i] < f[j]
  <2>1. CASE j \in 1..e /\ f[j] = bExecuted[j].op_n
    <3>1. i \in 1..e /\ f[i] = bExecuted[i].op_n
      BY <1>1, <1>5, <1>7, <2>1
    <3>2. QED
      BY <1>3, <1>7, <2>1, <3>1
  <2>2. CASE j > e
    <3> DEFINE k == (j - e) + Shift
    <3>1. k \in 1..p + Shift /\ f[j] = bQueue[k].op_n
      BY <1>1, <1>5, <2>2
    <3>2. CASE i \in 1..e /\ f[i] = bExecuted[i].op_n
      <4>1. ~(k = 1 /\ B!HeadDone)
        BY <1>1, <1>4, <2>2
      <4>2. bExecuted[i].op_n <= bQueue[k].op_n /\ bExecuted[i].op_n # bQueue[k].op_n
        <5> HIDE DEF k
        <5>1. QED
          BY <1>3, <3>1, <3>2, <4>1
      <4>3. bExecuted[i].op_n \in Nat /\ bQueue[k].op_n \in Nat
        <5> HIDE DEF k
        <5>1. QED
          BY <1>2, <3>1, <3>2
      <4>4. QED
        <5> HIDE DEF k, f
        <5>1. QED
          BY <3>1, <3>2, <4>2, <4>3
    <3>3. CASE i > e
      <4> DEFINE l == (i - e) + Shift
      <4>1. l \in 1..p + Shift /\ f[i] = bQueue[l].op_n
        BY <1>1, <1>5, <3>3
      <4>2. l < k
        BY <1>1, <1>4, <1>7, <2>2, <3>3
      <4>3. QED
        <5> HIDE DEF k, l, f
        <5>1. QED
          BY <1>3, <3>1, <4>1, <4>2
    <3>4. QED
      BY <1>5, <3>2, <3>3
  <2>3. QED
    BY <1>5, <2>1, <2>2
<1>8. f \in [1..e + p -> 1..bLast]
  BY <1>1, <1>6
<1>9. QED
  BY <1>1, <1>7, <1>8 DEF Climbs

-----------------------------------------------------------------------------
(* Nothing was lost.                                                       *)

\* As many writes were accepted by the backup as the primary executed: they
\* are the same, and nothing else is on the way.
LEMMA AllArrived ==
  ASSUME Joint, Follows, Len(Accepted) = Len(pExecuted)
  PROVE  Contents(Accepted) = Contents(pExecuted)
<1> DEFINE a == Contents(Accepted)
           r == Arriving \o Contents(out)
           t == Contents(pExecuted)
<1>1. a \in Seq(Pairs) /\ Len(a) = Len(Accepted) /\ t \in Seq(Pairs) /\ Len(t) = Len(pExecuted)
  BY AcceptedType, PrimaryTypes, WriteContents, ContentsType DEF Joint
<1>2. r \in Seq(Pairs)
  BY StreamType, ConcatProperties
<1>3. Stream = a \o r
  <2> DEFINE e == Contents(bExecuted)
             p == Contents(B!Pending)
             o == Contents(out)
  <2>1. a = e \o p
    BY BackupTypes, WriteContents, ContentsConcat DEF Accepted, Joint
  <2>2. e \in Seq(Pairs) /\ p \in Seq(Pairs) /\ o \in Seq(Pairs) /\ Arriving \in Seq(Pairs)
    BY StreamType
  <2>3. Stream = ((e \o p) \o Arriving) \o o
    BY DEF Stream
  <2> HIDE DEF e, p, o
  <2>4. ((e \o p) \o Arriving) \o o = (e \o p) \o (Arriving \o o)
    <3>1. e \o p \in Seq(Pairs)
      BY <2>2, ConcatProperties
    <3>2. QED
      BY <2>2, <3>1, ConcatAssociative
  <2>5. QED
    BY <2>1, <2>3, <2>4 DEF o
<1>4. IsSubsequence(Stream, t)
  BY FollowsIsEnough DEF BackupFollows
<1>5. Len(a) \in Nat /\ Len(r) \in Nat /\ Len(a \o r) = Len(a) + Len(r) /\ a \o r \in Seq(Pairs)
  BY <1>1, <1>2, ConcatProperties, LenProperties
<1> HIDE DEF a, r, t
<1>6. a \o r = t
  <2>1. Len(t) <= Len(a \o r)
    BY <1>1, <1>5
  <2>2. QED
    BY <1>1, <1>3, <1>4, <1>5, <2>1, SubAsLong
<1>7. Len(r) = 0
  BY <1>1, <1>5, <1>6
<1>8. r = <<>>
  BY <1>2, <1>7, EmptySeq
<1>9. a = t
  BY <1>1, <1>6, <1>8, ConcatEmptySeq
<1>10. QED
  BY <1>9 DEF a, t

LEMMA CountedIsEnough == ASSUME Joint, Follows, Numbered, Counted PROVE SameNumbers
<1> SUFFICES ASSUME Len(Accepted) = Len(pExecuted), NEW i \in DOMAIN Accepted
             PROVE  /\ Accepted[i].op_n = pExecuted[i].op_n
                    /\ Accepted[i].key = pExecuted[i].key
  BY DEF SameNumbers, Accepted
<1>1. /\ i \in 1..Len(Accepted) /\ i \in 1..Len(pExecuted) /\ Len(Accepted) \in Nat
      /\ Accepted \in Seq(B!Task) /\ pExecuted \in Seq(P!Task)
  BY AcceptedType, PrimaryTypes DEF Joint
<1>2. Accepted[i].op_n = i
  <2> DEFINE f == [j \in 1..Len(Accepted) |-> Accepted[j].op_n]
  <2>1. bLast \in Nat /\ bLast <= Len(Accepted)
    BY CountTypes DEF Counted
  <2>2. Climbs(Len(Accepted), bLast, f)
    BY <2>1, AcceptedClimbs DEF Joint
  <2>3. f[i] = Accepted[i].op_n
    BY <1>1
  <2> HIDE DEF f
  <2>4. f[i] = i
    BY <1>1, <2>1, <2>2, ClimbsInPlace
  <2>5. QED
    BY <2>3, <2>4
<1>3. pExecuted[i].op_n = i
  BY <1>1 DEF Numbered, NumberedFrom
<1>4. Content(Accepted[i]) = Content(pExecuted[i])
  <2>1. Contents(Accepted)[i] = Content(Accepted[i])
    BY <1>1, WriteContents, ContentsType
  <2>2. Contents(pExecuted)[i] = Content(pExecuted[i])
    BY <1>1, WriteContents, ContentsType
  <2>3. QED
    BY <2>1, <2>2, AllArrived
<1>5. QED
  BY <1>2, <1>3, <1>4 DEF Content

LEMMA CountingInit == Init => Numbered /\ Counted
<1> SUFFICES ASSUME Init PROVE Numbered /\ Counted
  OBVIOUS
<1>1. /\ pExecuted = <<>> /\ P!Pending = <<>> /\ pLast = 0
      /\ bLast = 0 /\ out = <<>> /\ InHands = 0 /\ Underway = 0
  BY DEF Init, P!Init, B!Init, P!Pending, P!HeadDone, InHands, Underway
<1>2. Len(pExecuted) = 0 /\ Len(P!Pending) = 0 /\ Len(out) = 0
  BY <1>1
<1>3. QED
  BY <1>1, <1>2 DEF Numbered, NumberedFrom, Counted

LEMMA CountingStep ==
  Joint /\ Numbered /\ Counted /\ [Next]_vars => (Numbered /\ Counted)'
<1> SUFFICES ASSUME Joint, Numbered, Counted, [Next]_vars PROVE (Numbered /\ Counted)'
  OBVIOUS
<1>1. [P!Next]_pVars
  BY StepOfEach DEF Joint, vars
<1>2. QED
  BY <1>1, NumberedStep, CountedStep DEF Joint

\* Each server counts on its own, and VERIFY drops writes at the backup
\* (tree_skel.c:370); yet while no forwarded write was lost, the number the
\* primary told a client is the backup's number of the same write.
THEOREM NumbersAgree == Spec => []SameNumbers
<1> DEFINE I == Joint /\ Follows /\ Numbered /\ Counted
<1>1. I => SameNumbers
  BY CountedIsEnough
<1>2. Init => I
  BY JointInit, FollowsInit, CountingInit
<1>3. I /\ [Next]_vars => I'
  BY JointStep, FollowsStep, CountingStep
<1>4. QED
  BY <1>1, <1>2, <1>3, PTL DEF Spec

-----------------------------------------------------------------------------
(* The trees are what the executed writes make of the empty one.           *)

Execution(t, w) ==
    IF w.op = 0 THEN tree_del(t, w.key) ELSE tree_put(t, w.key, w.data)

History(h, s) ==
    /\ h \in [0..Len(s) -> Tree]
    /\ h[0] = tree_create
    /\ \A i \in 1..Len(s) : h[i] = Execution(h[i - 1], s[i])

Replayed(t, s) == \E h : History(h, s) /\ h[Len(s)] = t

LEMMA SameExecution ==
  ASSUME NEW t, NEW w
  PROVE  P!Execution(t, w) = Execution(t, w) /\ B!Execution(t, w) = Execution(t, w)
BY DEF Execution, P!Execution, B!Execution, tree_put, tree_del, tree_size, KeysOf,
       tree_create, P!tree_put, P!tree_del, P!tree_size, P!KeysOf, P!tree_create,
       B!tree_put, B!tree_del, B!tree_size, B!KeysOf, B!tree_create,
       Cardinality, P!Cardinality, B!Cardinality

LEMMA ReplayGrows ==
  ASSUME NEW S, NEW s \in Seq(S), NEW w \in S, NEW t, Replayed(t, s),
         Execution(t, w) \in Tree
  PROVE  Replayed(Execution(t, w), Append(s, w))
<1> DEFINE n == Len(s)
           x == Execution(t, w)
           b == Append(s, w)
<1>1. PICK h : History(h, s) /\ h[n] = t
  BY DEF Replayed
<1>2. /\ n \in Nat /\ Len(b) = n + 1 /\ b[n + 1] = w
      /\ \A i \in 1..n : b[i] = s[i]
  BY AppendProperties, LenProperties
<1>3. /\ h \in [0..n -> Tree] /\ h[0] = tree_create
      /\ \A i \in 1..n : h[i] = Execution(h[i - 1], s[i])
  BY <1>1 DEF History
<1> HIDE DEF n, x, b
<1> DEFINE g == [i \in 0..n + 1 |-> IF i = n + 1 THEN x ELSE h[i]]
<1>4. x \in Tree
  BY DEF x
<1>5. g \in [0..n + 1 -> Tree]
  <2>1. \A i \in 0..n + 1 : i = n + 1 \/ i \in 0..n
    BY <1>2
  <2>2. QED
    BY <1>3, <1>4, <2>1
<1>6. g[n + 1] = x /\ \A i \in 0..n : g[i] = h[i]
  BY <1>2
<1>7. g[0] = tree_create
  BY <1>2, <1>3, <1>6
<1>8. ASSUME NEW i \in 1..n + 1 PROVE g[i] = Execution(g[i - 1], b[i])
  <2>1. CASE i = n + 1
    <3>1. g[i - 1] = t /\ g[i] = x /\ b[i] = w
      BY <1>1, <1>2, <1>6, <2>1
    <3>2. QED
      BY <3>1 DEF x
  <2>2. CASE i # n + 1
    <3>1. i \in 1..n /\ i \in 0..n /\ i - 1 \in 0..n
      BY <1>2, <2>2
    <3>2. g[i - 1] = h[i - 1] /\ g[i] = h[i] /\ b[i] = s[i]
      BY <1>2, <1>6, <3>1
    <3>3. QED
      BY <1>3, <3>1, <3>2
  <2>3. QED
    BY <2>1, <2>2
<1>9. History(g, b) /\ g[Len(b)] = x
  BY <1>2, <1>5, <1>6, <1>7, <1>8 DEF History
<1>10. QED
  BY <1>9 DEF Replayed, b, x

LEMMA ReplayStarts == Replayed(tree_create, <<>>)
<1> DEFINE g == [i \in 0..0 |-> tree_create]
<1>1. tree_create \in Tree
  BY DEF tree_create, Tree, Data
<1>2. Len(<<>>) = 0 /\ g \in [0..0 -> Tree] /\ g[0] = tree_create
  BY <1>1
<1>3. \A i \in 1..0 : g[i] = Execution(g[i - 1], <<>>[i])
  OBVIOUS
<1> HIDE DEF g
<1>4. History(g, <<>>)
  BY <1>2, <1>3 DEF History
<1>5. QED
  BY <1>2, <1>4 DEF Replayed

\* The same writes make the same tree, whatever their numbers.
LEMMA SameWritesSameTree ==
  ASSUME NEW s, NEW t, NEW x, NEW y, Replayed(x, s), Replayed(y, t),
         Len(s) \in Nat, Len(s) = Len(t),
         \A i \in 1..Len(s) : /\ s[i].op = t[i].op /\ s[i].key = t[i].key
                              /\ s[i].data = t[i].data
  PROVE  x = y
<1>1. PICK g : History(g, s) /\ g[Len(s)] = x
  BY DEF Replayed
<1>2. PICK h : History(h, t) /\ h[Len(t)] = y
  BY DEF Replayed
<1> DEFINE n == Len(s)
           Apart == {i \in 0..n : g[i] # h[i]}
<1>3. CASE Apart = {}
  BY <1>1, <1>2, <1>3
<1>4. CASE Apart # {}
  <2>1. PICK i \in Apart : \A j \in Apart : i <= j
    <3>1. Apart \in SUBSET Nat
      OBVIOUS
    <3>2. QED
      BY <1>4, <3>1, LeastExists
  <2>2. i \in 0..n /\ g[i] # h[i]
    OBVIOUS
  <2>3. i # 0
    BY <1>1, <1>2, <2>2 DEF History
  <2>4. i \in 1..n /\ i - 1 \in 0..n /\ i - 1 \notin Apart
    BY <2>1, <2>2, <2>3
  <2>5. g[i - 1] = h[i - 1]
    BY <2>4
  <2>6. g[i] = Execution(g[i - 1], s[i]) /\ h[i] = Execution(h[i - 1], t[i])
    BY <1>1, <1>2, <2>4 DEF History
  <2>7. Execution(g[i - 1], s[i]) = Execution(g[i - 1], t[i])
    BY <2>4 DEF Execution
  <2>8. QED
    BY <2>2, <2>5, <2>6, <2>7
<1>5. QED
  BY <1>3, <1>4

\* Whatever the backup's tasks are, they put: it is sent no deletion.
PutTask == {w \in B!Task : w.op = 1}

Replays ==
    /\ Replayed(pTree, pExecuted)
    /\ Replayed(bTree, bExecuted)
    /\ bQueue \in Seq(PutTask) /\ bExecuted \in Seq(PutTask)

LEMMA ReplaysInit == Init => Replays
<1> SUFFICES ASSUME Init PROVE Replays
  OBVIOUS
<1>1. /\ pTree = tree_create /\ pExecuted = <<>> /\ bTree = tree_create
      /\ bExecuted = <<>> /\ bQueue = <<>>
  BY DEF Init, P!Init, B!Init, tree_create, P!tree_create, B!tree_create
<1>2. QED
  BY <1>1, ReplayStarts, EmptySeq DEF Replays

LEMMA PrimaryReplays ==
  ASSUME PInv, Replayed(pTree, pExecuted), [P!Next]_pVars, PInv'
  PROVE  Replayed(pTree, pExecuted)'
<1>1. CASE P!Apply
  <2>1. Head(pQueue) \in P!Task /\ pExecuted \in Seq(P!Task)
    BY <1>1, PrimaryTypes DEF P!Apply, P!QueueLocked
  <2>2. pTree' = Execution(pTree, Head(pQueue)) /\ pExecuted' = Append(pExecuted, Head(pQueue))
    BY <1>1, SameExecution DEF P!Apply
  <2>3. pTree' \in Tree
    BY DEF PInv, P!TypeOK, P!Tree, Tree, P!Data, Data
  <2>4. Replayed(Execution(pTree, Head(pQueue)), Append(pExecuted, Head(pQueue)))
    BY <2>1, <2>2, <2>3, ReplayGrows
  <2>5. QED
    BY <2>2, <2>4 DEF Replayed, History
<1>2. CASE UNCHANGED <<pTree, pExecuted>>
  BY <1>2 DEF Replayed, History
<1>3. [P!Next]_pVars => P!Apply \/ UNCHANGED <<pTree, pExecuted>>
  BY DEF P!Next, P!Main, P!Worker, P!WorkerRuns, P!Receive, P!QueueAddTask, P!MarkReply,
         P!Verify, P!Read, P!Ignore, P!Reply, P!Acquire, P!SpuriousWakeup, P!Mark, P!Deliver,
         P!SendFails, P!SendLost, P!Pop, P!BackupUp, P!BackupDown, P!BackupReads,
         P!shared, P!mainVars, pVars
<1>4. QED
  BY <1>1, <1>2, <1>3

LEMMA BackupReplays ==
  ASSUME Joint, bQueue \in Seq(PutTask), bExecuted \in Seq(PutTask),
         Replayed(bTree, bExecuted), [B!Next]_bVars, BInv'
  PROVE  /\ Replayed(bTree, bExecuted)'
         /\ bQueue' \in Seq(PutTask) /\ bExecuted' \in Seq(PutTask)
<1>1. CASE B!Apply
  <2>1. bQueue # <<>>
    BY <1>1, BackupTypes DEF B!Apply, B!QueueLocked, Joint
  <2>2. Head(bQueue) \in PutTask
    BY <2>1, HeadTailProperties
  <2>3. bTree' = Execution(bTree, Head(bQueue)) /\ bExecuted' = Append(bExecuted, Head(bQueue))
        /\ bQueue' = bQueue
    BY <1>1, SameExecution DEF B!Apply
  <2>4. bTree' \in Tree
    BY DEF BInv, B!TypeOK, B!Tree, Tree, B!Data, Data
  <2>5. Replayed(Execution(bTree, Head(bQueue)), Append(bExecuted, Head(bQueue)))
    BY <2>2, <2>3, <2>4, ReplayGrows
  <2>6. bExecuted' \in Seq(PutTask)
    BY <2>2, <2>3, AppendProperties
  <2>7. QED
    BY <2>3, <2>5, <2>6 DEF Replayed, History
<1>2. CASE UNCHANGED <<bTree, bExecuted>> /\ bQueue' \in Seq(PutTask)
  BY <1>2 DEF Replayed, History
<1>3. CASE B!QueueAddTask
  <2>1. bReq.opcode = OP_PUT /\ bReq \in Message
    BY <1>3, BackupTypes
       DEF B!QueueAddTask, Joint, LinkRight, BackupTakesPuts, WriteOps, B!WriteOps,
           OP_PUT, OP_DEL, B!OP_PUT, B!OP_DEL
  <2>2. bLast \in 0..MaxOps /\ bLast < MaxOps
    BY <1>3, <2>1 DEF Joint, BInv, B!TypeOK, B!QueueAddTask, B!WriteOps, OP_PUT, B!OP_PUT
  <2>3. B!NewTask \in PutTask
    BY <2>1, <2>2, ReplicationAssumption
       DEF B!NewTask, PutTask, B!Task, B!Data, Data, Message, OP_PUT, B!OP_DEL
  <2>4. bQueue' \in Seq(PutTask) /\ UNCHANGED <<bTree, bExecuted>>
    BY <1>3, <2>3, AppendProperties DEF B!QueueAddTask
  <2>5. QED
    BY <1>2, <2>4
<1>4. CASE B!Verify
  <2>1. ASSUME NEW i \in DOMAIN bQueue PROVE SubSeq(bQueue, i, Len(bQueue)) \in Seq(PutTask)
    <3>1. i \in 1..Len(bQueue) /\ Len(bQueue) \in Nat
          /\ \A j \in 1..Len(bQueue) : bQueue[j] \in PutTask
      BY LenProperties, ElementOfSeq
    <3>2. QED
      BY <3>1, SubSeqProperties
  <2>2. bQueue' \in Seq(PutTask) /\ UNCHANGED <<bTree, bExecuted>>
    BY <1>4, <2>1, EmptySeq DEF B!Verify, B!At
  <2>3. QED
    BY <1>2, <2>2
<1>5. CASE B!Pop
  <2>1. bQueue # <<>>
    BY <1>5, BackupTypes DEF B!Pop, B!QueueLocked, Joint
  <2>2. bQueue' \in Seq(PutTask) /\ UNCHANGED <<bTree, bExecuted>>
    BY <1>5, <2>1, HeadTailProperties DEF B!Pop, B!mainVars
  <2>3. QED
    BY <1>2, <2>2
<1>6. CASE UNCHANGED <<bTree, bExecuted, bQueue>>
  BY <1>2, <1>6
<1>7. [B!Next]_bVars => \/ B!Apply \/ B!QueueAddTask \/ B!Verify \/ B!Pop
                        \/ UNCHANGED <<bTree, bExecuted, bQueue>>
  BY DEF B!Next, B!Main, B!Worker, B!WorkerRuns, B!Receive, B!MarkReply, B!Read,
         B!Ignore, B!Reply, B!Acquire, B!SpuriousWakeup, B!Mark, B!Deliver, B!SendFails,
         B!SendLost, B!BackupUp, B!BackupDown, B!BackupReads, B!shared, B!mainVars, bVars
<1>8. QED
  BY <1>1, <1>3, <1>4, <1>5, <1>6, <1>7

LEMMA ReplaysStep == Joint /\ Replays /\ [Next]_vars => Replays'
<1> SUFFICES ASSUME Joint, Replays, [Next]_vars PROVE Replays'
  OBVIOUS
<1>1. [P!Next]_pVars /\ [B!Next]_bVars /\ Joint'
  BY StepOfEach, JointStep DEF Joint, vars
<1>2. Replayed(pTree, pExecuted)'
  BY <1>1, PrimaryReplays DEF Joint, Replays
<1>3. Replayed(bTree, bExecuted)' /\ bQueue' \in Seq(PutTask) /\ bExecuted' \in Seq(PutTask)
  BY <1>1, BackupReplays DEF Joint, Replays
<1>4. QED
  BY <1>2, <1>3 DEF Replays

LEMMA ReplaysIsEnough == ASSUME Joint, Follows, Replays PROVE NothingLostThenEqual
<1> SUFFICES ASSUME Quiet, NoDeletion, Len(bExecuted) = Len(pExecuted)
             PROVE  bTree = pTree
  BY DEF NothingLostThenEqual
<1>1. bExecuted \in Seq(PutTask) /\ bExecuted \in Seq(B!Task) /\ pExecuted \in Seq(P!Task)
      /\ Len(bExecuted) \in Nat
  BY BackupTypes, PrimaryTypes, LenProperties DEF Joint, Replays
<1>2. Accepted = bExecuted
  BY <1>1, ConcatEmptySeq DEF Accepted, Quiet
<1>3. Contents(bExecuted) = Contents(pExecuted)
  BY <1>2, AllArrived
<1>4. ASSUME NEW i \in 1..Len(bExecuted)
      PROVE  /\ bExecuted[i].op = pExecuted[i].op /\ bExecuted[i].key = pExecuted[i].key
             /\ bExecuted[i].data = pExecuted[i].data
  <2>1. bExecuted[i].op = 1
    <3>1. bExecuted[i] \in PutTask
      BY <1>1, ElementOfSeq
    <3>2. QED
      BY <3>1 DEF PutTask
  <2>2. i \in DOMAIN pExecuted
    BY <1>1, LenProperties
  <2>3. pExecuted[i].op = 1
    BY <2>2 DEF NoDeletion
  <2>4. Contents(bExecuted)[i] = Content(bExecuted[i])
    BY <1>1, WriteContents, ContentsType
  <2>5. Contents(pExecuted)[i] = Content(pExecuted[i])
    BY <1>1, WriteContents, ContentsType
  <2>6. Content(bExecuted[i]) = Content(pExecuted[i])
    BY <1>3, <2>4, <2>5
  <2>7. QED
    BY <2>1, <2>3, <2>6 DEF Content
<1>5. QED
  BY <1>1, <1>4, SameWritesSameTree DEF Replays

\* If no forwarded write was lost and none was a deletion, both trees are the
\* same when all threads and connections are idle, the root included, which
\* is the only key tree_get finds (tree.c:123-129).
THEOREM QuietTreesEqual == Spec => []NothingLostThenEqual
<1> DEFINE I == Joint /\ Follows /\ Replays
<1>1. I => NothingLostThenEqual
  BY ReplaysIsEnough
<1>2. Init => I
  BY JointInit, FollowsInit, ReplaysInit
<1>3. I /\ [Next]_vars => I'
  BY JointStep, FollowsStep, ReplaysStep
<1>4. QED
  BY <1>1, <1>2, <1>3, PTL DEF Spec

\* Both trees are made of the primary's writes, the backup's with some left
\* out and the deletions turned into puts without data (tree_skel.c:137).
BackupIsPart ==
    /\ Replayed(pTree, pExecuted)
    /\ \E s \in Seq(PutTask) :
          IsSubsequence(Contents(s), Contents(pExecuted)) /\ Replayed(bTree, s)

LEMMA SubPrefix ==
  ASSUME NEW C, NEW a \in Seq(C), NEW b \in Seq(C)
  PROVE  IsSubsequence(a, a \o b) /\ a \o b \in Seq(C)
<1>1. <<>> \in Seq(C) /\ a \o <<>> = a /\ b \o <<>> = b
  BY EmptySeq, ConcatEmptySeq
<1>2. IsSubsequence(a \o <<>>, a \o (b \o <<>>))
  BY <1>1, SubDrop
<1>3. QED
  BY <1>1, <1>2, ConcatProperties

LEMMA FirstOfFour ==
  ASSUME NEW C, NEW a \in Seq(C), NEW b \in Seq(C), NEW c \in Seq(C), NEW d \in Seq(C)
  PROVE  IsSubsequence(a, a \o b \o c \o d)
<1>1. IsSubsequence(a, a \o b) /\ a \o b \in Seq(C)
  BY SubPrefix
<1>2. IsSubsequence(a \o b, a \o b \o c) /\ a \o b \o c \in Seq(C)
  BY <1>1, SubPrefix
<1>3. IsSubsequence(a \o b \o c, a \o b \o c \o d)
  BY <1>2, SubPrefix
<1>4. QED
  BY <1>1, <1>2, <1>3, SubTransitive

LEMMA ExecutedFollows ==
  ASSUME Joint, Follows
  PROVE  IsSubsequence(Contents(bExecuted), Contents(pExecuted))
<1>1. IsSubsequence(Contents(bExecuted), Stream)
  <2> DEFINE a == Contents(bExecuted)
             b == Contents(B!Pending)
             d == Contents(out)
  <2>1. a \in Seq(Pairs) /\ b \in Seq(Pairs) /\ Arriving \in Seq(Pairs) /\ d \in Seq(Pairs)
    BY StreamType
  <2>2. Stream = a \o b \o Arriving \o d
    BY DEF Stream
  <2> HIDE DEF a, b, d
  <2>3. IsSubsequence(a, a \o b \o Arriving \o d)
    BY <2>1, FirstOfFour
  <2>4. QED
    BY <2>2, <2>3 DEF a
<1>2. QED
  BY <1>1, FollowsIsEnough, SubTransitive DEF BackupFollows

\* If the primary dies (at any moment), its backup is left with the tree that
\* the primary's writes make when some of them are left out: none is taken
\* out of order, twice or with other data, and a deletion has no effect.  The
\* primary's own tree is made of all of them (tree_skel.c:128-141).
THEOREM CrashLeavesPartOfTheWrites == Spec => []BackupIsPart
<1> DEFINE I == Joint /\ Follows /\ Replays
<1>1. I => BackupIsPart
  BY ExecutedFollows DEF Replays, BackupIsPart
<1>2. Init => I
  BY JointInit, FollowsInit, ReplaysInit
<1>3. I /\ [Next]_vars => I'
  BY JointStep, FollowsStep, ReplaysStep
<1>4. QED
  BY <1>1, <1>2, <1>3, PTL DEF Spec

=============================================================================
