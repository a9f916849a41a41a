--------------------------- MODULE TreeSkelProofs ---------------------------
(***************************************************************************)
(* TreeSkel proved for every value of its constants: type correctness, the *)
(* invariants about the queue and the sleeping thread, and that a server   *)
(* implements AsyncStore.                                                  *)
(***************************************************************************)
EXTENDS TreeSkel, FiniteSetTheorems, SequenceTheorems, TLAPS

-----------------------------------------------------------------------------
(* The operations of the tree keep its type.                               *)

LEMMA CreateType == tree_create \in Tree
  BY DEF tree_create, Tree, Data

LEMMA PutType ==
  ASSUME NEW t \in Tree, NEW k \in Keys, NEW v \in Data
  PROVE  tree_put(t, k, v) \in Tree
  BY DEF tree_put, Tree, Data

LEMMA DelType ==
  ASSUME NEW t \in Tree, NEW k \in Keys
  PROVE  tree_del(t, k) \in Tree
  BY CreateType DEF tree_del

LEMMA ExecutionType ==
  ASSUME NEW t \in Tree, NEW w \in Task
  PROVE  Execution(t, w) \in Tree
<1>1. w.key \in Keys /\ w.data \in Data
  BY DEF Task
<1>2. QED
  BY <1>1, PutType, DelType DEF Execution

LEMMA GetType ==
  ASSUME NEW t \in Tree, NEW k \in Keys
  PROVE  tree_get(t, k) \in Data
  BY DEF tree_get, Tree, Data

LEMMA SizeType ==
  ASSUME NEW t \in Tree
  PROVE  tree_size(t) \in Nat
<1>1. IsFiniteSet(KeysOf(t))
  BY RootedMapAssumption, FS_Subset DEF KeysOf
<1>2. QED
  BY <1>1, FS_CardinalityType DEF tree_size

-----------------------------------------------------------------------------
(* Type correctness.  The secondary thread reads Head(queue), so its steps *)
(* keep the types only together with HeadPresent.                          *)

LEMMA RequestType ==
  ASSUME NEW r \in Requests
  PROVE  /\ r.opcode \in Nat /\ r.key \in Keys
         /\ r.data \in Data /\ r.op_n \in Nat
  BY TreeSkelAssumption

\* What a receive and the write number it reserves look like.
LEMMA NewTaskType ==
  ASSUME TypeOK, main = "invoke", req.opcode \in WriteOps
  PROVE  /\ last_assigned + 1 \in 1..MaxOps
         /\ NewTask \in Task
<1>1. req \in Requests /\ last_assigned \in 0..MaxOps /\ last_assigned < MaxOps
  BY DEF TypeOK
<1>2. last_assigned + 1 \in 1..MaxOps
  BY <1>1, TreeSkelAssumption
<1>3. req.key \in Keys /\ req.data \in Data
  BY <1>1, RequestType
<1>4. QED
  BY <1>2, <1>3 DEF NewTask, Task

LEMMA HeadType ==
  ASSUME TypeOK, HeadPresent, QueueLocked
  PROVE  /\ queue # <<>>
         /\ Head(queue) \in Task
         /\ Tail(queue) \in Seq(Task)
<1>1. queue # <<>> /\ queue \in Seq(Task)
  BY DEF TypeOK, HeadPresent
<1>2. QED
  BY <1>1, HeadTailProperties

LEMMA VerifyKeepsTasks ==
  ASSUME TypeOK, NEW i \in DOMAIN queue
  PROVE  /\ SubSeq(queue, i, Len(queue)) \in Seq(Task)
         /\ Len(SubSeq(queue, i, Len(queue))) = Len(queue) - i + 1
         /\ \A j \in 1..Len(queue) - i + 1 :
               SubSeq(queue, i, Len(queue))[j] = queue[j + i - 1]
<1>1. queue \in Seq(Task)
  BY DEF TypeOK
<1>2. /\ Len(queue) \in Nat /\ DOMAIN queue = 1..Len(queue)
      /\ queue \in [1..Len(queue) -> Task]
  BY <1>1, LenProperties
<1>3. i \in Int /\ Len(queue) \in Int /\ i <= Len(queue) /\ i >= 1
  BY <1>2
<1>4. \A j \in i..Len(queue) : queue[j] \in Task
  BY <1>2, <1>3
<1>5. /\ SubSeq(queue, i, Len(queue)) \in Seq(Task)
      /\ Len(SubSeq(queue, i, Len(queue))) = Len(queue) - i + 1
      /\ \A j \in 1..Len(queue) - i + 1 :
            SubSeq(queue, i, Len(queue))[j] = queue[i + j - 1]
  BY <1>3, <1>4, SubSeqProperties
<1>6. \A j \in 1..Len(queue) - i + 1 : i + j - 1 = j + i - 1
  BY <1>3
<1>7. QED
  BY <1>5, <1>6

LEMMA TypeStep == TypeOK /\ HeadPresent /\ [Next]_vars => TypeOK'
<1> SUFFICES ASSUME TypeOK, HeadPresent, [Next]_vars
             PROVE  TypeOK'
  OBVIOUS
<1>1. CASE \E r \in Requests : Receive(r)
  BY <1>1 DEF Receive, TypeOK, shared, Task, Frame
<1>2. CASE QueueAddTask
  <2>1. NewTask \in Task /\ last_assigned + 1 \in 1..MaxOps
    BY <1>2, NewTaskType DEF QueueAddTask
  <2>2. queue' \in Seq(Task)
    BY <1>2, <2>1 DEF QueueAddTask, TypeOK
  <2>3. last_assigned' \in 0..MaxOps
    BY <1>2, <2>1 DEF QueueAddTask
  <2>4. opcode' \in [1..MaxOps -> Nat]
    <3>1. req.opcode \in Nat
      BY <1>2, RequestType DEF QueueAddTask, TypeOK
    <3>2. QED
      BY <1>2, <3>1 DEF QueueAddTask, TypeOK
  <2>5. QED
    BY <1>2, <2>2, <2>3, <2>4 DEF QueueAddTask, TypeOK, Task, Frame
<1>3. CASE MarkReply
  <2>1. req.opcode + 1 \in Nat
    BY <1>3, RequestType DEF MarkReply, TypeOK
  <2>2. opcode' \in [1..MaxOps -> Nat]
    BY <1>3, <2>1 DEF MarkReply, TypeOK
  <2>3. QED
    BY <1>3, <2>2 DEF MarkReply, TypeOK, Task, Frame
<1>4. CASE Verify
  <2>1. queue' \in Seq(Task)
    <3>1. CASE queue' = queue \/ queue' = <<>>
      BY <3>1, EmptySeq DEF TypeOK
    <3>2. CASE \E i \in At(req.op_n) : queue' = SubSeq(queue, i, Len(queue))
      BY <3>2, VerifyKeepsTasks DEF At
    <3>3. QED
      BY <1>4, <3>1, <3>2 DEF Verify
  <2>2. result' \in Nat
    BY <1>4 DEF Verify
  <2>3. QED
    BY <1>4, <2>1, <2>2 DEF Verify, TypeOK, Task, Frame
<1>5. CASE Read
  <2>1. req \in Requests /\ tree \in Tree
    BY <1>5 DEF Read, TypeOK
  <2>2. tree_get(tree, req.key) \in Data /\ tree_size(tree) \in Nat
    BY <2>1, RequestType, GetType, SizeType
  <2>3. result' \in Nat \cup Data
    BY <1>5, <2>2 DEF Read
  <2>4. QED
    BY <1>5, <2>3 DEF Read, TypeOK, shared, Task, Frame
<1>6. CASE Ignore \/ Reply
  BY <1>6 DEF Ignore, Reply, TypeOK, shared, Task, Frame
<1>7. CASE Acquire \/ SpuriousWakeup \/ SendFails
  BY <1>7 DEF Acquire, SpuriousWakeup, SendFails, TypeOK, mainVars, shared, Task, Frame
<1>8. CASE Apply
  <2>1. Head(queue) \in Task
    BY <1>8, HeadType DEF Apply, QueueLocked
  <2>2. tree' \in Tree
    BY <1>8, <2>1, ExecutionType DEF Apply, TypeOK
  <2>3. executed' \in Seq(Task)
    BY <1>8, <2>1 DEF Apply, TypeOK
  <2>4. QED
    BY <1>8, <2>2, <2>3 DEF Apply, TypeOK, mainVars, Task, Frame
<1>9. CASE Mark
  <2>1. opcode' \in [1..MaxOps -> Nat]
    BY <1>9 DEF Mark, TypeOK, OP_PUT
  <2>2. QED
    BY <1>9, <2>1 DEF Mark, TypeOK, mainVars, Task, Frame
<1>10. CASE Deliver
  <2>1. Head(queue) \in Task
    BY <1>10, HeadType DEF Deliver, QueueLocked
  <2>2. Forwarded(Head(queue)) \in Frame
    BY <2>1 DEF Forwarded, Frame, Task, TypeOK
  <2>3. out' \in Seq(Frame)
    BY <1>10, <2>2 DEF Deliver, TypeOK
  <2>4. QED
    BY <1>10, <2>3 DEF Deliver, TypeOK, mainVars, Task, Frame
<1>11. CASE SendLost
  <2>1. out' \in Seq(Frame) /\ sockfd' \in {"none", "down", "up"}
    BY <1>11, EmptySeq DEF SendLost, TypeOK
  <2>2. QED
    BY <1>11, <2>1 DEF SendLost, TypeOK, mainVars, Task, Frame
<1>12. CASE Pop
  <2>1. queue' \in Seq(Task)
    BY <1>12, HeadType DEF Pop, QueueLocked
  <2>2. QED
    BY <1>12, <2>1 DEF Pop, TypeOK, mainVars, Task, Frame
<1>13. CASE BackupUp \/ BackupDown
  <2>1. out' \in Seq(Frame) /\ sockfd' \in {"none", "down", "up"}
    BY <1>13, EmptySeq DEF BackupUp, BackupDown
  <2>2. QED
    BY <1>13, <2>1 DEF BackupUp, BackupDown, TypeOK, mainVars, Task, Frame
<1>14. CASE BackupReads
  <2>1. out' \in Seq(Frame)
    BY <1>14, HeadTailProperties DEF BackupReads, TypeOK
  <2>2. QED
    BY <1>14, <2>1 DEF BackupReads, TypeOK, mainVars, Task, Frame
<1>15. CASE UNCHANGED vars
  BY <1>15 DEF vars, TypeOK, Task, Frame
<1>16. QED
  BY <1>1, <1>2, <1>3, <1>4, <1>5, <1>6, <1>7, <1>8, <1>9, <1>10, <1>11,
     <1>12, <1>13, <1>14, <1>15 DEF Next, Main, Worker, WorkerRuns

-----------------------------------------------------------------------------
(* The head of the queue and the sleeping thread.                          *)

\* Verify needs queue_lock, so it empties the queue only while the secondary
\* thread is outside its critical section; Pop is that section's last step.
LEMMA HeadStep == TypeOK /\ HeadPresent /\ [Next]_vars => HeadPresent'
<1> SUFFICES ASSUME TypeOK, HeadPresent, [Next]_vars
             PROVE  HeadPresent'
  OBVIOUS
<1> USE DEF HeadPresent, QueueLocked
<1>1. CASE (\E r \in Requests : Receive(r)) \/ MarkReply \/ Read \/ Ignore \/ Reply
  BY <1>1 DEF Receive, MarkReply, Read, Ignore, Reply, shared
<1>2. CASE QueueAddTask
  BY <1>2 DEF QueueAddTask
<1>3. CASE Verify
  BY <1>3 DEF Verify
<1>4. CASE WorkerRuns \/ SpuriousWakeup \/ SendLost
  BY <1>4 DEF WorkerRuns, Acquire, SpuriousWakeup, Apply, Mark, Deliver,
              SendFails, SendLost, Pop, mainVars, shared
<1>5. CASE BackupUp \/ BackupDown \/ BackupReads
  BY <1>5 DEF BackupUp, BackupDown, BackupReads, mainVars
<1>6. CASE UNCHANGED vars
  BY <1>6 DEF vars
<1>7. QED
  BY <1>1, <1>2, <1>3, <1>4, <1>5, <1>6 DEF Next, Main, Worker

\* Only QueueAddTask makes the queue longer, and it wakes the thread.
LEMMA WakeupStep == TypeOK /\ NoLostWakeup /\ [Next]_vars => NoLostWakeup'
<1> SUFFICES ASSUME TypeOK, NoLostWakeup, [Next]_vars
             PROVE  NoLostWakeup'
  OBVIOUS
<1> USE DEF NoLostWakeup
<1>1. CASE (\E r \in Requests : Receive(r)) \/ MarkReply \/ Read \/ Ignore \/ Reply
  BY <1>1 DEF Receive, MarkReply, Read, Ignore, Reply, shared
<1>2. CASE QueueAddTask
  BY <1>2 DEF QueueAddTask
<1>3. CASE Verify
  BY <1>3 DEF Verify, At
<1>4. CASE WorkerRuns \/ SpuriousWakeup \/ SendLost
  BY <1>4 DEF WorkerRuns, Acquire, SpuriousWakeup, Apply, Mark, Deliver,
              SendFails, SendLost, Pop, mainVars, shared
<1>5. CASE BackupUp \/ BackupDown \/ BackupReads
  BY <1>5 DEF BackupUp, BackupDown, BackupReads, mainVars
<1>6. CASE UNCHANGED vars
  BY <1>6 DEF vars
<1>7. QED
  BY <1>1, <1>2, <1>3, <1>4, <1>5, <1>6 DEF Next, Main, Worker

-----------------------------------------------------------------------------
(* The order of execution.                                                 *)

LEMMA NumbersType ==
  ASSUME NEW s \in Seq(Task)
  PROVE  /\ Len(s) \in Nat /\ DOMAIN s = 1..Len(s)
         /\ \A i \in 1..Len(s) : s[i] \in Task /\ s[i].op_n \in 1..MaxOps
<1>1. Len(s) \in Nat /\ DOMAIN s = 1..Len(s) /\ s \in [1..Len(s) -> Task]
  BY LenProperties
<1>2. QED
  BY <1>1 DEF Task

LEMMA AppendTask ==
  ASSUME NEW s \in Seq(Task), NEW t \in Task
  PROVE  /\ DOMAIN Append(s, t) = 1..Len(s) + 1
         /\ Len(Append(s, t)) = Len(s) + 1
         /\ \A i \in 1..Len(s) : Append(s, t)[i] = s[i]
         /\ Append(s, t)[Len(s) + 1] = t
  OBVIOUS

\* Before a write is executed its number is larger than every executed one.
LEMMA QueuedAbove ==
  ASSUME TypeOK, ExecutionOrder, ~HeadDone,
         NEW i \in DOMAIN executed, NEW j \in DOMAIN queue
  PROVE  executed[i].op_n < queue[j].op_n
<1>1. executed[i].op_n \in 1..MaxOps /\ queue[j].op_n \in 1..MaxOps
  BY NumbersType DEF TypeOK
<1>2. executed[i].op_n <= queue[j].op_n /\ executed[i].op_n # queue[j].op_n
  BY DEF ExecutionOrder
<1>3. QED
  BY <1>1, <1>2, TreeSkelAssumption

LEMMA OrderStep ==
  TypeOK /\ HeadPresent /\ ExecutionOrder /\ [Next]_vars => ExecutionOrder'
<1> SUFFICES ASSUME TypeOK, HeadPresent, ExecutionOrder, [Next]_vars
             PROVE  ExecutionOrder'
  OBVIOUS
<1> DEFINE Q == Len(queue)
           E == Len(executed)
<1>t. /\ queue \in Seq(Task) /\ executed \in Seq(Task)
      /\ last_assigned \in Nat /\ MaxOps \in Nat
  BY TreeSkelAssumption DEF TypeOK
<1>q. /\ Q \in Nat /\ DOMAIN queue = 1..Q
      /\ \A j \in 1..Q : queue[j] \in Task /\ queue[j].op_n \in 1..MaxOps
  BY <1>t, NumbersType
<1>e. /\ E \in Nat /\ DOMAIN executed = 1..E
      /\ \A i \in 1..E : executed[i] \in Task /\ executed[i].op_n \in 1..MaxOps
  BY <1>t, NumbersType
<1>1. ASSUME UNCHANGED <<queue, executed, last_assigned>>, HeadDone' <=> HeadDone
      PROVE  ExecutionOrder'
  BY <1>1 DEF ExecutionOrder, Ascending
<1>2. CASE (\E r \in Requests : Receive(r)) \/ MarkReply \/ Read \/ Ignore \/ Reply
  BY <1>1, <1>2 DEF Receive, MarkReply, Read, Ignore, Reply, shared, HeadDone
<1>3. CASE Acquire \/ SpuriousWakeup \/ Mark \/ Deliver \/ SendFails \/ SendLost
  BY <1>1, <1>3 DEF Acquire, SpuriousWakeup, Mark, Deliver, SendFails, SendLost,
                    mainVars, shared, HeadDone
<1>4. CASE BackupUp \/ BackupDown \/ BackupReads \/ UNCHANGED vars
  BY <1>1, <1>4 DEF BackupUp, BackupDown, BackupReads, vars, mainVars, HeadDone
<1>5. CASE QueueAddTask
  <2>1. /\ queue' = Append(queue, NewTask) /\ last_assigned' = last_assigned + 1
        /\ UNCHANGED executed /\ (HeadDone' <=> HeadDone)
    BY <1>5 DEF QueueAddTask, HeadDone
  <2>2. NewTask \in Task /\ NewTask.op_n = last_assigned + 1
    BY <1>5, NewTaskType DEF QueueAddTask, NewTask
  <2>3. /\ DOMAIN queue' = 1..Q + 1
        /\ \A j \in 1..Q : queue'[j] = queue[j]
        /\ queue'[Q + 1].op_n = last_assigned + 1
    BY <1>t, <2>1, <2>2, AppendTask
  <2>4. Ascending(queue')
    BY <1>t, <1>q, <2>3 DEF Ascending, ExecutionOrder
  <2>5. \A j \in DOMAIN queue' : queue'[j].op_n <= last_assigned'
    BY <1>t, <1>q, <2>1, <2>3 DEF ExecutionOrder
  <2>6. \A i \in DOMAIN executed' : executed'[i].op_n <= last_assigned'
    BY <1>t, <1>e, <2>1 DEF ExecutionOrder
  <2>7. ASSUME NEW i \in DOMAIN executed', NEW j \in DOMAIN queue'
        PROVE  /\ executed'[i].op_n <= queue'[j].op_n
               /\ executed'[i].op_n = queue'[j].op_n =>
                     i = Len(executed') /\ j = 1 /\ HeadDone'
    <3>1. CASE j \in 1..Q
      BY <1>q, <2>1, <2>3, <2>7, <3>1 DEF ExecutionOrder
    <3>2. CASE j = Q + 1
      BY <1>t, <1>e, <2>1, <2>3, <2>7, <3>2 DEF ExecutionOrder
    <3>3. QED
      BY <1>q, <2>3, <2>7, <3>1, <3>2
  <2>8. QED
    BY <2>1, <2>4, <2>5, <2>6, <2>7 DEF ExecutionOrder
<1>6. CASE Verify
  <2>1. ~HeadDone /\ ~HeadDone' /\ UNCHANGED <<executed, last_assigned>>
    BY <1>6 DEF Verify, HeadDone, QueueLocked
  <2>2. \A i \in DOMAIN executed, j \in DOMAIN queue :
          executed[i].op_n < queue[j].op_n
    BY <2>1, QueuedAbove
  <2>3. CASE queue' = queue
    BY <1>1, <2>1, <2>3
  <2>4. CASE queue' = <<>>
    BY <2>1, <2>4 DEF ExecutionOrder, Ascending
  <2>5. CASE \E k \in DOMAIN queue : queue' = SubSeq(queue, k, Len(queue))
    <3>1. PICK k \in DOMAIN queue : queue' = SubSeq(queue, k, Len(queue))
      BY <2>5
    <3>2. queue' \in Seq(Task) /\ Len(queue') = Q - k + 1
      BY <3>1, VerifyKeepsTasks
    <3>3. k \in 1..Q /\ DOMAIN queue' = 1..Q - k + 1
      BY <1>q, <3>1, <3>2, LenProperties
    <3>4. \A j \in 1..Q - k + 1 : queue'[j] = queue[j + k - 1] /\ j + k - 1 \in 1..Q
      BY <1>q, <3>1, <3>3, VerifyKeepsTasks
    <3>5. Ascending(queue')
      BY <1>q, <3>3, <3>4 DEF Ascending, ExecutionOrder
    <3>6. \A j \in DOMAIN queue' : queue'[j].op_n <= last_assigned'
      BY <1>q, <2>1, <3>3, <3>4 DEF ExecutionOrder
    <3>7. \A i \in DOMAIN executed', j \in DOMAIN queue' :
            executed'[i].op_n < queue'[j].op_n
      BY <1>q, <2>1, <2>2, <3>3, <3>4
    <3>8. \A i \in DOMAIN executed', j \in DOMAIN queue' :
            /\ executed'[i].op_n \in Nat /\ queue'[j].op_n \in Nat
      BY <1>q, <1>e, <2>1, <3>3, <3>4, <1>t
    <3>9. QED
      BY <2>1, <3>5, <3>6, <3>7, <3>8 DEF ExecutionOrder
  <2>6. QED
    BY <1>6, <2>3, <2>4, <2>5 DEF Verify, At
<1>7. CASE Apply
  <2>1. /\ UNCHANGED <<queue, last_assigned>>
        /\ executed' = Append(executed, Head(queue))
    BY <1>7 DEF Apply, mainVars
  <2>2. HeadDone'
    BY <1>7 DEF Apply, HeadDone
  <2>3. queue # <<>> /\ Head(queue) \in Task /\ Head(queue) = queue[1] /\ Q >= 1
    BY <1>7, <1>t, <1>q, HeadType DEF Apply, QueueLocked
  <2>4. /\ DOMAIN executed' = 1..E + 1 /\ Len(executed') = E + 1
        /\ \A i \in 1..E : executed'[i] = executed[i]
        /\ executed'[E + 1] = queue[1]
    BY <1>t, <2>1, <2>3, AppendTask
  <2>5. \A i \in 1..E, j \in 1..Q : executed[i].op_n < queue[j].op_n
    BY <1>q, <1>e, <1>7, QueuedAbove DEF Apply, HeadDone
  <2>6. Ascending(executed')
    BY <1>e, <2>3, <2>4, <2>5, <1>q DEF Ascending, ExecutionOrder
  <2>7. \A i \in DOMAIN executed' : executed'[i].op_n <= last_assigned'
    BY <1>e, <1>q, <2>1, <2>3, <2>4 DEF ExecutionOrder
  <2>8. ASSUME NEW i \in DOMAIN executed', NEW j \in DOMAIN queue'
        PROVE  /\ executed'[i].op_n <= queue'[j].op_n
               /\ executed'[i].op_n = queue'[j].op_n =>
                     i = Len(executed') /\ j = 1 /\ HeadDone'
    <3>1. CASE i \in 1..E
      BY <1>q, <1>e, <1>t, <2>1, <2>4, <2>5, <2>8, <3>1
    <3>2. CASE i = E + 1
      <4>1. j \in 1..Q /\ 1 \in 1..Q
        BY <1>q, <2>1, <2>3, <2>8
      <4>2. j # 1 => queue[1].op_n < queue[j].op_n
        BY <1>q, <4>1 DEF ExecutionOrder, Ascending
      <4>3. queue[1].op_n \in Nat /\ queue[j].op_n \in Nat
        BY <1>q, <1>t, <4>1
      <4>4. queue[1].op_n <= queue[j].op_n /\ (queue[1].op_n = queue[j].op_n => j = 1)
        BY <4>2, <4>3
      <4>5. QED
        BY <2>1, <2>2, <2>4, <3>2, <4>4
    <3>3. QED
      BY <1>e, <2>4, <2>8, <3>1, <3>2
  <2>9. QED
    BY <2>1, <2>6, <2>7, <2>8 DEF ExecutionOrder
<1>8. CASE Pop
  <2>1. HeadDone /\ queue' = Tail(queue) /\ UNCHANGED <<executed, last_assigned>>
    BY <1>8 DEF Pop, HeadDone, mainVars
  <2>2. queue # <<>> /\ queue' \in Seq(Task)
    BY <1>8, <2>1, HeadType DEF Pop, QueueLocked
  <2>3. Len(queue') = Q - 1 /\ \A j \in 1..Q - 1 : queue'[j] = queue[j + 1]
    BY <1>t, <2>1, <2>2, HeadTailProperties
  <2>4. DOMAIN queue' = 1..Q - 1 /\ Q >= 1
    BY <1>q, <1>t, <2>2, <2>3, LenProperties
  <2>5. Ascending(queue')
    <3>1. SUFFICES ASSUME NEW i \in 1..Q - 1, NEW j \in 1..Q - 1, i < j
                   PROVE  queue'[i].op_n < queue'[j].op_n
      BY <2>4 DEF Ascending
    <3>2. i + 1 \in 1..Q /\ j + 1 \in 1..Q /\ i + 1 < j + 1
      BY <1>q, <3>1
    <3>3. queue[i + 1].op_n < queue[j + 1].op_n
      BY <1>q, <3>2 DEF ExecutionOrder, Ascending
    <3>4. QED
      BY <2>3, <3>3
  <2>6. \A j \in DOMAIN queue' : queue'[j].op_n <= last_assigned'
    BY <1>q, <2>1, <2>3, <2>4 DEF ExecutionOrder
  <2>7. ASSUME NEW i \in DOMAIN executed', NEW j \in DOMAIN queue'
        PROVE  /\ executed'[i].op_n <= queue'[j].op_n
               /\ executed'[i].op_n # queue'[j].op_n
    <3>1. j + 1 \in DOMAIN queue /\ j + 1 # 1 /\ queue'[j] = queue[j + 1]
      BY <1>q, <2>3, <2>4, <2>7
    <3>2. QED
      BY <2>1, <2>7, <3>1 DEF ExecutionOrder
  <2>8. QED
    BY <2>1, <2>5, <2>6, <2>7 DEF ExecutionOrder
<1>9. QED
  BY <1>2, <1>3, <1>4, <1>5, <1>6, <1>7, <1>8 DEF Next, Main, Worker, WorkerRuns

-----------------------------------------------------------------------------
(* The theorems.                                                           *)

IInv == TypeOK /\ HeadPresent /\ NoLostWakeup /\ ExecutionOrder

LEMMA InitInv == Init => IInv
<1> SUFFICES ASSUME Init
             PROVE  IInv
  OBVIOUS
<1>1. MaxOps \in Nat
  BY TreeSkelAssumption
<1>2. tree \in Tree
  BY CreateType DEF Init
<1>3. opcode \in [1..MaxOps -> Nat]
  BY DEF Init, OP_BAD
<1>4. queue \in Seq(Task) /\ out \in Seq(Frame) /\ executed \in Seq(Task)
  BY EmptySeq DEF Init
<1>5. TypeOK
  BY <1>1, <1>2, <1>3, <1>4 DEF Init, TypeOK
<1>6. HeadPresent /\ NoLostWakeup
  BY DEF Init, HeadPresent, NoLostWakeup, QueueLocked
<1>7. ExecutionOrder
  BY DEF Init, ExecutionOrder, Ascending
<1>8. QED
  BY <1>5, <1>6, <1>7 DEF IInv

LEMMA Inductive == IInv /\ [Next]_vars => IInv'
  BY TypeStep, HeadStep, WakeupStep, OrderStep DEF IInv

LEMMA Invariance == Spec => []IInv
  BY InitInv, Inductive, PTL DEF Spec

\* Every variable of the server keeps its type, and a write that reached
\* invoke has a number within the bound left for it.
THEOREM TypeCorrect == Spec => []TypeOK
<1>1. IInv => TypeOK
  BY DEF IInv
<1>2. QED
  BY <1>1, Invariance, PTL

\* process_task never follows a NULL queue_head (tree_skel.c:128-141).
THEOREM HeadAlwaysPresent == Spec => []HeadPresent
<1>1. IInv => HeadPresent
  BY DEF IInv
<1>2. QED
  BY <1>1, Invariance, PTL

\* No signal is lost: the thread sleeps only on an empty queue
\* (tree_skel.c:123-125, 250).
THEOREM WakeupNeverLost == Spec => []NoLostWakeup
<1>1. IInv => NoLostWakeup
  BY DEF IInv
<1>2. QED
  BY <1>1, Invariance, PTL

\* Writes are executed in the order of their numbers, none twice
\* (tree_skel.c:121-144, 238-252, 285-294).
THEOREM ExecutedInOrder == Spec => []ExecutionOrder
<1>1. IInv => ExecutionOrder
  BY DEF IInv
<1>2. QED
  BY <1>1, Invariance, PTL

-----------------------------------------------------------------------------
(* verify's answers.                                                       *)

\* An answer of 0 is never given for a write that was executed: the number
\* is in the queue before its execution, or was never given out.
LEMMA VerifyZeroStep ==
  ASSUME TypeOK, ExecutionOrder, [Next]_vars,
         Verifying, main' = "reply", result' = 0
  PROVE  ~WasExecuted(req.op_n)
<1>1. Verify
  BY DEF Next, Main, Receive, QueueAddTask, MarkReply, Read, Ignore, Reply,
         Worker, WorkerRuns, Acquire, Apply, Mark, Deliver, SendFails, Pop,
         SpuriousWakeup, SendLost, BackupUp, BackupDown, BackupReads,
         vars, mainVars, WriteOps, ReadOps, OP_VERIFY, OP_SIZE, OP_DEL,
         OP_GET, OP_PUT, OP_GETKEYS, OP_HEIGHT, Verifying
<1>2. req.op_n \in Nat /\ last_assigned \in Nat
  BY RequestType, TreeSkelAssumption DEF TypeOK, Verifying
<1>3. \A i \in DOMAIN executed : executed[i].op_n \in Nat /\ executed[i].op_n <= last_assigned
  <2>1. \A i \in DOMAIN executed : executed[i].op_n \in 1..MaxOps
    BY NumbersType DEF TypeOK
  <2>2. QED
    BY <2>1, TreeSkelAssumption DEF ExecutionOrder
<1>4. CASE queue = <<>> /\ ~(req.op_n <= last_assigned)
  BY <1>2, <1>3, <1>4 DEF WasExecuted
<1>5. CASE At(req.op_n) # {}
  <2>1. PICK j \in DOMAIN queue : queue[j].op_n = req.op_n
    BY <1>5 DEF At
  <2>2. ~HeadDone
    BY <1>1 DEF Verify, QueueLocked, HeadDone
  <2>3. \A i \in DOMAIN executed : executed[i].op_n < req.op_n
    BY <2>1, <2>2, QueuedAbove
  <2>4. QED
    BY <1>2, <1>3, <2>3 DEF WasExecuted
<1>6. QED
  BY <1>1, <1>4, <1>5 DEF Verify

\* verify answers 0 only for a write that was not executed
\* (tree_skel.c:220-236).
THEOREM VerifyZero == Spec => VerifyZeroIsPending
<1>1. IInv /\ [Next]_vars =>
        [Verifying /\ main' = "reply" /\ result' = 0
         => ~WasExecuted(req.op_n)]_vars
  BY VerifyZeroStep DEF IInv
<1>2. QED
  BY <1>1, Invariance, PTL DEF Spec, VerifyZeroIsPending

-----------------------------------------------------------------------------
(* TreeSkel implements AsyncStore.                                         *)

\* How each kind of step moves the accepted and not yet executed writes.
LEMMA PendingKept ==
  ASSUME UNCHANGED queue, HeadDone' <=> HeadDone
  PROVE  UNCHANGED Pending
  BY DEF Pending

LEMMA PendingTasks ==
  ASSUME TypeOK, HeadPresent
  PROVE  Pending \in Seq(Task)
<1>1. CASE HeadDone
  BY <1>1, HeadType DEF Pending, HeadDone, QueueLocked
<1>2. CASE ~HeadDone
  BY <1>2 DEF Pending, TypeOK
<1>3. QED
  BY <1>1, <1>2

LEMMA TailOfAppend ==
  ASSUME NEW s \in Seq(Task), NEW t \in Task, s # <<>>
  PROVE  Tail(Append(s, t)) = Append(Tail(s), t)
<1>1. /\ Tail(s) \in Seq(Task) /\ Len(Tail(s)) = Len(s) - 1
      /\ \A i \in 1..Len(Tail(s)) : Tail(s)[i] = s[i + 1]
  BY HeadTailProperties
<1>2. Append(s, t) \in Seq(Task) /\ Append(s, t) # <<>> /\ Len(s) \in Nat
  OBVIOUS
<1>3. /\ Tail(Append(s, t)) \in Seq(Task) /\ Len(Tail(Append(s, t))) = Len(s)
      /\ \A i \in 1..Len(s) : Tail(Append(s, t))[i] = Append(s, t)[i + 1]
  BY <1>2, HeadTailProperties, AppendTask
<1>4. /\ Append(Tail(s), t) \in Seq(Task) /\ Len(Append(Tail(s), t)) = Len(s)
      /\ \A i \in 1..Len(s) - 1 : Append(Tail(s), t)[i] = Tail(s)[i]
      /\ Append(Tail(s), t)[Len(s)] = t
  BY <1>1, <1>2, AppendTask
<1>5. \A i \in 1..Len(s) : Tail(Append(s, t))[i] = Append(Tail(s), t)[i]
  <2>1. TAKE i \in 1..Len(s)
  <2>2. CASE i < Len(s)
    <3>1. i \in 1..Len(s) - 1 /\ i + 1 \in 1..Len(s)
      BY <1>2, <2>2
    <3>2. Append(s, t)[i + 1] = s[i + 1]
      BY <3>1, AppendTask
    <3>3. Append(Tail(s), t)[i] = s[i + 1]
      BY <1>1, <1>4, <3>1
    <3>4. QED
      BY <1>3, <3>2, <3>3
  <2>3. CASE i = Len(s)
    BY <1>2, <1>3, <1>4, <2>3, AppendTask
  <2>4. QED
    BY <1>2, <2>2, <2>3
<1>6. QED
  BY <1>3, <1>4, <1>5, SeqEqual

\* A new write goes behind the pending ones.
LEMMA AddIsAccept ==
  ASSUME TypeOK, HeadPresent, QueueAddTask
  PROVE  \E w \in Store!Write : Store!Accept(w)
<1>1. NewTask \in Task /\ NewTask.op_n = last_assigned + 1
  BY NewTaskType DEF QueueAddTask, NewTask
<1>2. ~HeadDone /\ ~HeadDone'
  BY DEF QueueAddTask, QueueLocked, HeadDone
<1>3. Pending' = Append(Pending, NewTask)
  BY <1>2 DEF Pending, QueueAddTask
<1>4. NewTask \in Store!Write
  BY <1>1 DEF Store!Write, Task, Store!Data, Data
<1>5. Store!Accept(NewTask)
  BY <1>1, <1>3 DEF Store!Accept, QueueAddTask
<1>6. QED
  BY <1>4, <1>5

LEMMA SameExecution ==
  ASSUME NEW t, NEW w
  PROVE  Execution(t, w) = Store!Execution(t, w)
  BY DEF Execution, Store!Execution, tree_put, tree_del, tree_size, KeysOf,
         tree_create, Store!tree_put, Store!tree_del, Store!tree_size,
         Store!KeysOf, Store!tree_create, Cardinality, Store!Cardinality

LEMMA ApplyIsExecute ==
  ASSUME TypeOK, HeadPresent, Apply
  PROVE  Store!Execute
<1>1. queue # <<>>
  BY HeadType DEF Apply, QueueLocked
<1>2. ~HeadDone /\ HeadDone'
  BY DEF Apply, HeadDone
<1>3. Pending = queue /\ Pending' = Tail(queue)
  BY <1>2 DEF Pending, Apply
<1>4. QED
  BY <1>1, <1>3, SameExecution DEF Store!Execute, Apply, mainVars

\* verify drops the tasks before the one it looks for, or all of them.
LEMMA VerifyIsDiscard ==
  ASSUME TypeOK, HeadPresent, Verify
  PROVE  UNCHANGED Store!vars \/ \E n \in 1..Len(Pending) : Store!Discard(n)
<1>1. Pending = queue /\ Pending' = queue' /\ queue \in Seq(Task) /\ Len(queue) \in Nat
  BY DEF Verify, Pending, HeadDone, QueueLocked, TypeOK
<1>2. UNCHANGED <<tree, last_assigned>> /\ Verifying
  BY DEF Verify, Verifying
<1>3. CASE queue = <<>> /\ UNCHANGED queue
  BY <1>1, <1>2, <1>3 DEF Store!vars
<1>4. CASE \E i \in At(req.op_n) : queue' = SubSeq(queue, i, Len(queue))
  <2>1. PICK i \in 1..Len(queue) : queue' = SubSeq(queue, i, Len(queue))
    BY <1>1, <1>4 DEF At
  <2>2. CASE i = 1
    <3>1. SubSeq(queue, 1, Len(queue)) = queue
      BY <1>1
    <3> QED
      BY <1>1, <1>2, <2>1, <2>2, <3>1 DEF Store!vars
  <2>3. CASE i # 1
    <3>1. i - 1 \in 1..Len(queue) /\ (i - 1) + 1 = i
      BY <1>1, <2>1, <2>3
    <3>2. Store!Discard(i - 1)
      BY <1>1, <1>2, <2>1, <3>1 DEF Store!Discard
    <3> QED
      BY <1>1, <3>1, <3>2
  <2> QED
    BY <2>2, <2>3
<1>5. CASE queue # <<>> /\ queue' = <<>>
  <2>1. Len(queue) \in 1..Len(queue) /\ SubSeq(queue, Len(queue) + 1, Len(queue)) = <<>>
    BY <1>1, <1>5
  <2>2. Store!Discard(Len(queue))
    BY <1>1, <1>2, <1>5, <2>1 DEF Store!Discard
  <2> QED
    BY <1>1, <2>1, <2>2
<1> QED
  BY <1>3, <1>4, <1>5 DEF Verify

\* Every step of a server is an Accept, an Execute, a Discard or invisible:
\* the forwarding to the backup, the replies and the pop are.
LEMMA StepSimulation ==
  ASSUME TypeOK, HeadPresent, [Next]_vars
  PROVE  [Store!Next]_Store!vars
<1> USE DEF Store!vars
<1>1. CASE (\E r \in Requests : Receive(r)) \/ MarkReply \/ Read \/ Ignore \/ Reply
  BY <1>1, PendingKept DEF Receive, MarkReply, Read, Ignore, Reply, shared, HeadDone
<1>2. CASE QueueAddTask
  BY <1>2, AddIsAccept DEF Store!Next
<1>3. CASE Verify
  BY <1>3, VerifyIsDiscard DEF Store!Next
<1>4. CASE Acquire \/ SpuriousWakeup \/ Mark \/ Deliver \/ SendFails \/ SendLost
  BY <1>4, PendingKept DEF Acquire, SpuriousWakeup, Mark, Deliver, SendFails,
                           SendLost, mainVars, shared, HeadDone
<1>5. CASE Apply
  BY <1>5, ApplyIsExecute DEF Store!Next
<1>6. CASE Pop
  BY <1>6 DEF Pop, Pending, HeadDone, mainVars
<1>7. CASE BackupUp \/ BackupDown \/ BackupReads \/ UNCHANGED vars
  BY <1>7, PendingKept DEF BackupUp, BackupDown, BackupReads, vars, mainVars, HeadDone
<1>8. QED
  BY <1>1, <1>2, <1>3, <1>4, <1>5, <1>6, <1>7 DEF Next, Main, Worker, WorkerRuns

LEMMA InitSimulation == Init => Store!Init
  BY DEF Init, Store!Init, Pending, HeadDone, tree_create, Store!tree_create

\* A server executes every accepted write at most once, in the order of
\* acceptance, and loses none of them before it is executed but those a VERIFY
\* throws away; the reads see exactly the executed ones.
THEOREM RefinesAsyncStore == Spec => Store!Spec
<1>1. IInv /\ [Next]_vars => [Store!Next]_Store!vars
  BY StepSimulation DEF IInv
<1>2. QED
  BY <1>1, InitSimulation, Invariance, PTL DEF Spec, Store!Spec

-----------------------------------------------------------------------------
(* Only verify drops tasks.                                                *)

\* What becomes of the i-th pending write in a step.
StillPending(i) == \E j \in DOMAIN Pending' : Pending'[j] = Pending[i]

JustExecuted(i) == \E j \in DOMAIN executed' : executed'[j] = Pending[i]

LEMMA AddKeepsPending ==
  ASSUME TypeOK, HeadPresent, QueueAddTask, NEW i \in DOMAIN Pending
  PROVE  StillPending(i)
<1>1. NewTask \in Task
  BY NewTaskType DEF QueueAddTask
<1>2. Pending = queue /\ Pending' = Append(queue, NewTask)
  BY DEF Pending, QueueAddTask, QueueLocked, HeadDone
<1>3. queue \in Seq(Task)
  BY DEF TypeOK
<1>4. i \in DOMAIN Pending' /\ Pending'[i] = Pending[i]
  BY <1>1, <1>2, <1>3, AppendTask
<1>5. QED
  BY <1>4 DEF StillPending

\* The head is executed; the others move up.
LEMMA ApplyKeepsPending ==
  ASSUME TypeOK, HeadPresent, Apply, NEW i \in DOMAIN Pending
  PROVE  StillPending(i) \/ JustExecuted(i)
<1>1. queue \in Seq(Task) /\ queue # <<>> /\ executed \in Seq(Task) /\ Head(queue) \in Task
  BY HeadType DEF Apply, QueueLocked, TypeOK
<1>2. Pending = queue /\ Pending' = Tail(queue)
  BY DEF Pending, Apply, HeadDone
<1>3. CASE i = 1
  <2>1. executed' = Append(executed, Head(queue)) /\ Pending[i] = Head(queue)
    BY <1>1, <1>2, <1>3 DEF Apply
  <2>2. Len(executed) + 1 \in DOMAIN executed' /\ executed'[Len(executed) + 1] = Pending[i]
    BY <1>1, <2>1, AppendTask
  <2>3. QED
    BY <2>2 DEF JustExecuted
<1>4. CASE i # 1
  <2>1. i \in 1..Len(queue) /\ i - 1 \in 1..Len(queue) - 1 /\ (i - 1) + 1 = i
    BY <1>1, <1>2, <1>4
  <2>2. Len(Tail(queue)) = Len(queue) - 1 /\ Tail(queue) \in Seq(Task)
        /\ \A j \in 1..Len(Tail(queue)) : Tail(queue)[j] = queue[j + 1]
    BY <1>1, HeadTailProperties
  <2>3. i - 1 \in DOMAIN Pending' /\ Pending'[i - 1] = Pending[i]
    BY <1>2, <2>1, <2>2
  <2>4. QED
    BY <2>3 DEF StillPending
<1>5. QED
  BY <1>3, <1>4

LEMMA UnchangedKeepsPending ==
  ASSUME UNCHANGED Pending, NEW i \in DOMAIN Pending
  PROVE  StillPending(i)
  BY DEF StillPending

LEMMA OnlyVerifyStep ==
  ASSUME TypeOK, HeadPresent, [Next]_vars, NEW i \in DOMAIN Pending
  PROVE  StillPending(i) \/ JustExecuted(i) \/ Verifying
<1>1. CASE (\E r \in Requests : Receive(r)) \/ MarkReply \/ Read \/ Ignore \/ Reply
  BY <1>1, PendingKept, UnchangedKeepsPending
     DEF Receive, MarkReply, Read, Ignore, Reply, shared, HeadDone
<1>2. CASE QueueAddTask
  BY <1>2, AddKeepsPending
<1>3. CASE Verify
  BY <1>3 DEF Verify, Verifying
<1>4. CASE Acquire \/ SpuriousWakeup \/ Mark \/ Deliver \/ SendFails \/ SendLost
  BY <1>4, PendingKept, UnchangedKeepsPending
     DEF Acquire, SpuriousWakeup, Mark, Deliver, SendFails, SendLost, mainVars, shared, HeadDone
<1>5. CASE Apply
  BY <1>5, ApplyKeepsPending
<1>6. CASE Pop
  <2>1. UNCHANGED Pending
    BY <1>6 DEF Pop, Pending, HeadDone
  <2>2. QED
    BY <2>1, UnchangedKeepsPending
<1>7. CASE BackupUp \/ BackupDown \/ BackupReads \/ UNCHANGED vars
  BY <1>7, PendingKept, UnchangedKeepsPending
     DEF BackupUp, BackupDown, BackupReads, vars, mainVars, HeadDone
<1>8. QED
  BY <1>1, <1>2, <1>3, <1>4, <1>5, <1>6, <1>7 DEF Next, Main, Worker, WorkerRuns

\* An accepted write leaves the queue unexecuted only under a VERIFY
\* (tree_skel.c:226-233).
THEOREM OnlyVerifyLoses == Spec => OnlyVerifyDiscards
<1>1. IInv /\ [Next]_vars =>
        [\A i \in DOMAIN Pending :
            \/ \E j \in DOMAIN Pending' : Pending'[j] = Pending[i]
            \/ \E j \in DOMAIN executed' : executed'[j] = Pending[i]
            \/ Verifying]_vars
  BY OnlyVerifyStep DEF IInv, StillPending, JustExecuted
<1>2. QED
  BY <1>1, Invariance, PTL DEF Spec, OnlyVerifyDiscards

=============================================================================
