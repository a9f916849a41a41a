--------------------------- MODULE TreeRaceProofs ----------------------------
(***************************************************************************)
(* TreeRace proved for any keys, values and number of writes: its types,   *)
(* and when the reader can go wrong.                                       *)
(***************************************************************************)
EXTENDS TreeRace, TLAPS, SequenceTheorems

(* The inductive invariant: what holds of the tree between two stores, ... *)

\* Two nodes for every put, and the ones still to be created.
ToCreate == IF wpc \in {"search", "left"} THEN 2 ELSE IF wpc = "right" THEN 1 ELSE 0

Room == used + ToCreate <= 2 * writes + 1

Children == \A n \in Nodes : {esquerda[n], direita[n]} \subseteq 1..used \cup {NULL}

\* The node has its children, or the writer is about to create them.
IsOpen(n) ==
    /\ esquerda[n] = NULL => n = place /\ wpc = "left"
    /\ direita[n] = NULL => n = place /\ wpc \in {"left", "right"}

EntriesOpen == \A n \in Nodes : raiz[n] # NULL => IsOpen(n)

FreedOnlyHere ==
    /\ Replacing => raiz[place] # NULL
    /\ \A n \in Nodes : raiz[n] # NULL =>
        /\ raiz[n].key = FREED => n = place /\ wpc = "storekey"
        /\ raiz[n].value \notin Values => n = place /\ Replacing

TreeInv == TreeTypeOK /\ Room /\ Children /\ EntriesOpen /\ FreedOnlyHere

(* ... and what holds of the calls of the reader.                          *)

Stages(op) ==
    IF op = "get" THEN {"raiz"} \cup Loading \cup Using ELSE {"raiz", "esquerda", "direita"}

\* A call that is past tree->raiz has a node, which was not empty.
InCall(f) ==
    /\ f.stage \in Stages(read.op)
    /\ f.stage # "raiz" => f.node # NULL /\ IsOpen(f.node)

Stack ==
    \A i \in 1..Len(frames) :
        InCall(frames[i]) /\ (i > 1 => frames[i].stage = "direita")

LostByDeletion ==
    rpc = "reading" /\ Top.stage \in Loading \cup Using /\ raiz[Top.node] = NULL => deleted

\* Where the writer takes an entry apart, the reader knows.
TornHere == rpc = "reading" /\ Replacing => place \in torn

\* The pointer held is the entry's, or what it points to is known.
HeldOK ==
    rpc = "reading" /\ Top.stage \in Using =>
        /\ held = LINKED => raiz[Top.node] # NULL
        /\ held \notin Keys \cup Values \cup {LINKED} => Top.node \in torn

ReaderInv == ReaderTypeOK /\ Stack /\ LostByDeletion /\ TornHere /\ HeldOK /\ SizeSurvives

IInv == TreeInv /\ ReaderInv

-----------------------------------------------------------------------------
LEMMA InitTree == Init => TreeInv
<1> USE TreeRaceAssumption
<1> SUFFICES ASSUME Init PROVE TreeInv
  OBVIOUS
<1>1. TreeTypeOK
  BY DEF Init, TreeTypeOK, Nodes, MaxNodes, Root
<1>2. Room /\ Children /\ EntriesOpen /\ FreedOnlyHere
  BY DEF Init, Room, ToCreate, Children, EntriesOpen, FreedOnlyHere, Replacing
<1> QED
  BY <1>1, <1>2 DEF TreeInv

LEMMA InitReader == Init => ReaderInv
<1> SUFFICES ASSUME Init PROVE ReaderInv
  OBVIOUS
<1>1. ReaderTypeOK
  BY EmptySeq DEF Init, ReaderTypeOK, Counts
<1>2. Stack
  BY EmptySeq DEF Init, Stack
<1>3. LostByDeletion /\ TornHere /\ HeldOK /\ SizeSurvives
  BY DEF Init, LostByDeletion, TornHere, HeldOK, SizeSurvives
<1> QED
  BY <1>1, <1>2, <1>3 DEF ReaderInv

-----------------------------------------------------------------------------
(* Steps of the writer keep TreeInv, and open nodes stay open.             *)

OpenStays == \A n \in Nodes : IsOpen(n) => IsOpen(n)'

LEMMA BeginPutKeepsTree ==
  ASSUME TreeInv, NEW k \in Keys, NEW v \in Values, BeginPut(k, v)
  PROVE  TreeInv' /\ OpenStays
<1> USE TreeRaceAssumption DEF TreeInv, TreeTypeOK, Nodes, MaxNodes, nodes, BeginPut
<1>1. TreeTypeOK'
  BY SMTT(20) DEF Room, ToCreate, Children, EntriesOpen, IsOpen, FreedOnlyHere, Replacing, Root
<1>2. Room'
  BY SMTT(20) DEF Room, ToCreate
<1>3. Children'
  BY SMTT(20) DEF Children
<1>4. EntriesOpen' /\ OpenStays
  BY SMTT(20) DEF EntriesOpen, IsOpen, OpenStays
<1>5. FreedOnlyHere'
  BY SMTT(20) DEF FreedOnlyHere, Replacing
<1> QED
  BY <1>1, <1>2, <1>3, <1>4, <1>5

LEMMA SearchKeepsTree ==
  ASSUME TreeInv, Search
  PROVE  TreeInv' /\ OpenStays
<1> USE TreeRaceAssumption DEF TreeInv, TreeTypeOK, Nodes, MaxNodes, nodes, Search
<1>1. TreeTypeOK'
  BY SMTT(20) DEF Room, ToCreate, Children, EntriesOpen, IsOpen, FreedOnlyHere, Replacing, Root
<1>2. Room'
  BY SMTT(20) DEF Room, ToCreate
<1>3. Children'
  BY SMTT(20) DEF Children
<1>4. EntriesOpen' /\ OpenStays
  BY SMTT(20) DEF EntriesOpen, IsOpen, OpenStays
<1>5. FreedOnlyHere'
  BY SMTT(20) DEF FreedOnlyHere, Replacing
<1> QED
  BY <1>1, <1>2, <1>3, <1>4, <1>5

LEMMA LinkEntryKeepsTree ==
  ASSUME TreeInv, LinkEntry
  PROVE  TreeInv' /\ OpenStays
<1> USE TreeRaceAssumption DEF TreeInv, TreeTypeOK, Nodes, MaxNodes, nodes, LinkEntry, Entry, KeyStates,
        DataStates
<1>1. TreeTypeOK'
  BY SMTT(20) DEF Room, ToCreate, Children, EntriesOpen, IsOpen, FreedOnlyHere, Replacing, Root
<1>2. Room'
  BY SMTT(20) DEF Room, ToCreate
<1>3. Children'
  BY SMTT(20) DEF Children
<1>4. EntriesOpen' /\ OpenStays
  BY SMTT(20) DEF EntriesOpen, IsOpen, OpenStays
<1>5. FreedOnlyHere'
  BY SMTT(20) DEF FreedOnlyHere, Replacing
<1> QED
  BY <1>1, <1>2, <1>3, <1>4, <1>5

LEMMA LinkLeftKeepsTree ==
  ASSUME TreeInv, LinkLeft
  PROVE  TreeInv' /\ OpenStays
<1> USE TreeRaceAssumption DEF TreeInv, TreeTypeOK, Nodes, MaxNodes, nodes, LinkLeft, NewNode
<1>1. TreeTypeOK'
  BY SMTT(20) DEF Room, ToCreate, Children, EntriesOpen, IsOpen, FreedOnlyHere, Replacing, Root
<1>2. Room'
  BY SMTT(20) DEF Room, ToCreate
<1>3. Children'
  BY SMTT(20) DEF Children
<1>4. EntriesOpen' /\ OpenStays
  BY SMTT(20) DEF EntriesOpen, IsOpen, OpenStays
<1>5. FreedOnlyHere'
  BY SMTT(20) DEF FreedOnlyHere, Replacing
<1> QED
  BY <1>1, <1>2, <1>3, <1>4, <1>5

LEMMA LinkRightKeepsTree ==
  ASSUME TreeInv, LinkRight
  PROVE  TreeInv' /\ OpenStays
<1> USE TreeRaceAssumption DEF TreeInv, TreeTypeOK, Nodes, MaxNodes, nodes, LinkRight, NewNode
<1>1. TreeTypeOK'
  BY SMTT(20) DEF Room, ToCreate, Children, EntriesOpen, IsOpen, FreedOnlyHere, Replacing, Root
<1>2. Room'
  BY SMTT(20) DEF Room, ToCreate
<1>3. Children'
  BY SMTT(20) DEF Children
<1>4. EntriesOpen' /\ OpenStays
  BY SMTT(20) DEF EntriesOpen, IsOpen, OpenStays
<1>5. FreedOnlyHere'
  BY SMTT(20) DEF FreedOnlyHere, Replacing
<1> QED
  BY <1>1, <1>2, <1>3, <1>4, <1>5

\* What a store to one field of the entry leaves of the tree.
EntryStored(field, x, other) ==
    /\ raiz' \in [Nodes -> Entry \cup {NULL}]
    /\ raiz'[place] # NULL
    /\ raiz'[place][field] = x /\ raiz'[place][other] = raiz[place][other]
    /\ \A n \in Nodes \ {place} : raiz'[n] = raiz[n]

LEMMA ValueStored ==
  ASSUME TreeTypeOK, raiz[place] # NULL, NEW x \in DataStates, StoreIn("value", x)
  PROVE  EntryStored("value", x, "key")
<1> DEFINE e == [raiz[place] EXCEPT !["value"] = x]
<1>1. place \in Nodes /\ raiz[place] \in Entry
  BY TreeRaceAssumption DEF TreeTypeOK, Nodes, MaxNodes
<1>2. e \in Entry /\ e.key = raiz[place].key /\ e.value = x
  BY <1>1 DEF Entry, KeyStates, DataStates
<1>3. e # NULL
  BY <1>2, TreeRaceAssumption DEF Entry, KeyStates, DataStates
<1>4. raiz' = [raiz EXCEPT ![place] = e]
  BY DEF StoreIn
<1> QED
  BY <1>1, <1>2, <1>3, <1>4 DEF EntryStored, TreeTypeOK

LEMMA KeyStored ==
  ASSUME TreeTypeOK, raiz[place] # NULL, NEW x \in KeyStates, StoreIn("key", x)
  PROVE  EntryStored("key", x, "value")
<1> DEFINE e == [raiz[place] EXCEPT !["key"] = x]
<1>1. place \in Nodes /\ raiz[place] \in Entry
  BY TreeRaceAssumption DEF TreeTypeOK, Nodes, MaxNodes
<1>2. e \in Entry /\ e.value = raiz[place].value /\ e.key = x
  BY <1>1 DEF Entry, KeyStates, DataStates
<1>3. e # NULL
  BY <1>2, TreeRaceAssumption DEF Entry, KeyStates, DataStates
<1>4. raiz' = [raiz EXCEPT ![place] = e]
  BY DEF StoreIn
<1> QED
  BY <1>1, <1>2, <1>3, <1>4 DEF EntryStored, TreeTypeOK

\* entry_replace changes one entry, which is taken apart while it is at work.
LEMMA EntryStoredKeepsTree ==
  ASSUME TreeInv, NEW field, NEW x, NEW other, EntryStored(field, x, other),
         raiz[place] # NULL,
         UNCHANGED <<esquerda, direita, depth, used, writes, task, place>>,
         wpc \notin {"left", "right"}, wpc' \notin {"left", "right"},
         wpc' = "search" => wpc = "search",
         wpc' \in {"cleardata", "freedata", "freekey", "storekey", "storevalue", "idle"},
         raiz'[place].key = FREED => wpc' = "storekey",
         raiz'[place].value \notin Values => Replacing'
  PROVE  TreeInv' /\ OpenStays
<1> USE TreeRaceAssumption DEF TreeInv, TreeTypeOK, Nodes, MaxNodes
<1>1. TreeTypeOK'
  BY DEF EntryStored
<1>2. Room'
  BY DEF Room, ToCreate
<1>3. Children'
  BY DEF Children
<1>4. EntriesOpen' /\ OpenStays
  <2>1. \A n \in Nodes : raiz'[n] # NULL => raiz[n] # NULL
    BY DEF EntryStored
  <2> QED
    BY <2>1, SMTT(20) DEF EntriesOpen, IsOpen, OpenStays
<1>5. FreedOnlyHere'
  <2>1. ASSUME NEW n \in Nodes, n # place PROVE raiz'[n] = raiz[n]
    BY <2>1 DEF EntryStored
  <2>2. ASSUME NEW n \in Nodes, n # place, raiz[n] # NULL
        PROVE  raiz[n].key # FREED /\ raiz[n].value \in Values
    BY <2>2 DEF FreedOnlyHere
  <2>3. raiz'[place] # NULL
    BY DEF EntryStored
  <2> QED
    BY <2>1, <2>2, <2>3 DEF FreedOnlyHere
<1> QED
  BY <1>1, <1>2, <1>3, <1>4, <1>5

LEMMA FreeBytesKeepsTree ==
  ASSUME TreeInv, FreeBytes
  PROVE  TreeInv' /\ OpenStays
<1> USE TreeRaceAssumption DEF TreeInv
<1>1. /\ TreeTypeOK /\ raiz[place] # NULL /\ DANGLING \in DataStates
      /\ place \in Nodes /\ wpc = "search" /\ wpc' = "cleardata"
      /\ UNCHANGED <<esquerda, direita, depth, used, writes, task, place>>
      /\ StoreIn("value", DANGLING)
  BY DEF TreeTypeOK, Nodes, MaxNodes, KeyStates, DataStates, FreedOnlyHere, Replacing,
         FreeBytes, Replaces
<1>2. EntryStored("value", DANGLING, "key")
  BY <1>1, ValueStored
<1>3. /\ raiz'[place].key = FREED => wpc' = "storekey"
      /\ raiz'[place].value \notin Values => Replacing'
  BY <1>1, <1>2, SMTT(20) DEF EntryStored, FreedOnlyHere, Replacing, TreeTypeOK
<1> QED
  BY <1>1, <1>2, <1>3, EntryStoredKeepsTree

LEMMA ClearDataKeepsTree ==
  ASSUME TreeInv, ClearData
  PROVE  TreeInv' /\ OpenStays
<1> USE TreeRaceAssumption DEF TreeInv
<1>1. /\ TreeTypeOK /\ raiz[place] # NULL /\ EMPTY \in DataStates
      /\ place \in Nodes /\ wpc = "cleardata" /\ wpc' = "freedata"
      /\ UNCHANGED <<esquerda, direita, depth, used, writes, task, place>>
      /\ StoreIn("value", EMPTY)
  BY DEF TreeTypeOK, Nodes, MaxNodes, KeyStates, DataStates, FreedOnlyHere, Replacing,
         ClearData, Replaces
<1>2. EntryStored("value", EMPTY, "key")
  BY <1>1, ValueStored
<1>3. /\ raiz'[place].key = FREED => wpc' = "storekey"
      /\ raiz'[place].value \notin Values => Replacing'
  BY <1>1, <1>2, SMTT(20) DEF EntryStored, FreedOnlyHere, Replacing, TreeTypeOK
<1> QED
  BY <1>1, <1>2, <1>3, EntryStoredKeepsTree

LEMMA FreeDataKeepsTree ==
  ASSUME TreeInv, FreeData
  PROVE  TreeInv' /\ OpenStays
<1> USE TreeRaceAssumption DEF TreeInv
<1>1. /\ TreeTypeOK /\ raiz[place] # NULL /\ FREED \in DataStates
      /\ place \in Nodes /\ wpc = "freedata" /\ wpc' = "freekey"
      /\ UNCHANGED <<esquerda, direita, depth, used, writes, task, place>>
      /\ StoreIn("value", FREED)
  BY DEF TreeTypeOK, Nodes, MaxNodes, KeyStates, DataStates, FreedOnlyHere, Replacing,
         FreeData, Replaces
<1>2. EntryStored("value", FREED, "key")
  BY <1>1, ValueStored
<1>3. /\ raiz'[place].key = FREED => wpc' = "storekey"
      /\ raiz'[place].value \notin Values => Replacing'
  BY <1>1, <1>2, SMTT(20) DEF EntryStored, FreedOnlyHere, Replacing, TreeTypeOK
<1> QED
  BY <1>1, <1>2, <1>3, EntryStoredKeepsTree

LEMMA FreeKeyKeepsTree ==
  ASSUME TreeInv, FreeKey
  PROVE  TreeInv' /\ OpenStays
<1> USE TreeRaceAssumption DEF TreeInv
<1>1. /\ TreeTypeOK /\ raiz[place] # NULL /\ FREED \in KeyStates
      /\ place \in Nodes /\ wpc = "freekey" /\ wpc' = "storekey"
      /\ UNCHANGED <<esquerda, direita, depth, used, writes, task, place>>
      /\ StoreIn("key", FREED)
  BY DEF TreeTypeOK, Nodes, MaxNodes, KeyStates, DataStates, FreedOnlyHere, Replacing,
         FreeKey, Replaces
<1>2. EntryStored("key", FREED, "value")
  BY <1>1, KeyStored
<1>3. /\ raiz'[place].key = FREED => wpc' = "storekey"
      /\ raiz'[place].value \notin Values => Replacing'
  BY <1>1, <1>2, SMTT(20) DEF EntryStored, FreedOnlyHere, Replacing, TreeTypeOK
<1> QED
  BY <1>1, <1>2, <1>3, EntryStoredKeepsTree

LEMMA StoreKeyKeepsTree ==
  ASSUME TreeInv, StoreKey
  PROVE  TreeInv' /\ OpenStays
<1> USE TreeRaceAssumption DEF TreeInv
<1>1. /\ TreeTypeOK /\ raiz[place] # NULL /\ task.key \in KeyStates
      /\ place \in Nodes /\ wpc = "storekey" /\ wpc' = "storevalue"
      /\ UNCHANGED <<esquerda, direita, depth, used, writes, task, place>>
      /\ StoreIn("key", task.key)
  BY DEF TreeTypeOK, Nodes, MaxNodes, KeyStates, DataStates, FreedOnlyHere, Replacing,
         StoreKey, Replaces
<1>2. EntryStored("key", task.key, "value")
  BY <1>1, KeyStored
<1>3. /\ raiz'[place].key = FREED => wpc' = "storekey"
      /\ raiz'[place].value \notin Values => Replacing'
  BY <1>1, <1>2, SMTT(20) DEF EntryStored, FreedOnlyHere, Replacing, TreeTypeOK
<1> QED
  BY <1>1, <1>2, <1>3, EntryStoredKeepsTree

LEMMA StoreValueKeepsTree ==
  ASSUME TreeInv, StoreValue
  PROVE  TreeInv' /\ OpenStays
<1> USE TreeRaceAssumption DEF TreeInv
<1>1. /\ TreeTypeOK /\ raiz[place] # NULL /\ task.value \in DataStates
      /\ place \in Nodes /\ wpc = "storevalue" /\ wpc' = "idle"
      /\ UNCHANGED <<esquerda, direita, depth, used, writes, task, place>>
      /\ StoreIn("value", task.value)
  BY DEF TreeTypeOK, Nodes, MaxNodes, KeyStates, DataStates, FreedOnlyHere, Replacing,
         StoreValue, Replaces
<1>2. EntryStored("value", task.value, "key")
  BY <1>1, ValueStored
<1>3. /\ raiz'[place].key = FREED => wpc' = "storekey"
      /\ raiz'[place].value \notin Values => Replacing'
  BY <1>1, <1>2, SMTT(20) DEF EntryStored, FreedOnlyHere, Replacing, TreeTypeOK
<1> QED
  BY <1>1, <1>2, <1>3, EntryStoredKeepsTree

LEMMA DeleteKeepsTree ==
  ASSUME TreeInv, NEW k \in Keys, Delete(k)
  PROVE  TreeInv' /\ OpenStays
<1> USE TreeRaceAssumption DEF TreeInv, TreeTypeOK, Nodes, MaxNodes, nodes, Delete, Stored, Root
<1>1. TreeTypeOK'
  BY SMTT(20) DEF Room, ToCreate, Children, EntriesOpen, IsOpen, FreedOnlyHere, Replacing, Root
<1>2. Room'
  BY SMTT(20) DEF Room, ToCreate
<1>3. Children'
  BY SMTT(20) DEF Children
<1>4. EntriesOpen' /\ OpenStays
  BY SMTT(20) DEF EntriesOpen, IsOpen, OpenStays
<1>5. FreedOnlyHere'
  <2>1. wpc = "idle" /\ wpc' = "idle"
    OBVIOUS
  <2>2. ~Replacing /\ ~Replacing'
    BY <2>1 DEF Replacing
  <2>3. \A n \in Nodes : raiz[n] # NULL => raiz[n].key # FREED /\ raiz[n].value \in Values
    BY <2>1, <2>2 DEF FreedOnlyHere
  <2>4. raiz' = [raiz EXCEPT ![Root] = NULL] /\ raiz \in [Nodes -> Entry \cup {NULL}]
    OBVIOUS
  <2>5. \A n \in Nodes : raiz'[n] # NULL => raiz'[n] = raiz[n]
    BY <2>4, Zenon
  <2> QED
    BY <2>2, <2>3, <2>5 DEF FreedOnlyHere
<1> QED
  BY <1>1, <1>2, <1>3, <1>4, <1>5

-----------------------------------------------------------------------------
(* What the writer's steps leave of ReaderInv.                             *)

WriterStep ==
    \/ \E k \in Keys : Delete(k) \/ \E v \in Values : BeginPut(k, v)
    \/ Writer

LEMMA WriterKeepsTree == TreeInv /\ WriterStep => TreeInv' /\ OpenStays
BY BeginPutKeepsTree, SearchKeepsTree, LinkEntryKeepsTree, LinkLeftKeepsTree,
   LinkRightKeepsTree, FreeBytesKeepsTree, ClearDataKeepsTree, FreeDataKeepsTree,
   FreeKeyKeepsTree, StoreKeyKeepsTree, StoreValueKeepsTree, DeleteKeepsTree DEF WriterStep, Writer

\* No entry disappears under the reader but by a deletion.
EntriesStay ==
    /\ deleted' \in BOOLEAN
    /\ deleted => deleted'
    /\ rpc = "reading" /\ ~deleted' => \A n \in Nodes : raiz[n] # NULL => raiz'[n] # NULL

LEMMA WriterKeepsEntries ==
  ASSUME TreeInv, deleted \in BOOLEAN, WriterStep
  PROVE  EntriesStay /\ UNCHANGED reader
<1> USE DEF TreeInv
<1>1. ASSUME NEW k \in Keys, Delete(k) PROVE EntriesStay /\ UNCHANGED reader
  BY <1>1 DEF Delete, Stores, EntriesStay
<1>2. ASSUME NEW k \in Keys, NEW v \in Values, BeginPut(k, v)
      PROVE  EntriesStay /\ UNCHANGED reader
  BY <1>2 DEF BeginPut, EntriesStay, nodes, history
<1>3. CASE Search
  BY <1>3 DEF Search, EntriesStay, nodes, history
<1>4. CASE LinkEntry
  <2>1. task # NULL
    BY TreeRaceAssumption, SMT DEF TreeTypeOK
  <2>2. \A n \in Nodes : raiz'[n] = IF n = place THEN task ELSE raiz[n]
    BY <1>4 DEF LinkEntry, TreeTypeOK
  <2> QED
    BY <1>4, <2>1, <2>2 DEF LinkEntry, Stores, EntriesStay
<1>5. CASE LinkLeft \/ LinkRight
  BY <1>5 DEF LinkLeft, LinkRight, Stores, EntriesStay
<1>6. ASSUME NEW from, NEW to, NEW field, NEW x, NEW other, raiz[place] # NULL,
             Replaces(from, to, field, x), EntryStored(field, x, other)
      PROVE  EntriesStay /\ UNCHANGED reader
  BY <1>6 DEF Replaces, Stores, EntriesStay, EntryStored
<1>7. /\ task.key \in KeyStates /\ FREED \in KeyStates /\ task.value \in DataStates
      /\ {FREED, DANGLING, EMPTY} \subseteq DataStates
  BY DEF TreeTypeOK, KeyStates, DataStates
<1>8. Replacing => raiz[place] # NULL
  BY DEF FreedOnlyHere
<1>9. CASE FreeBytes
  <2>1. StoreIn("value", DANGLING) /\ raiz[place] # NULL
    BY <1>8, <1>9 DEF FreeBytes, Replaces, Replacing
  <2> QED
    BY <1>6, <1>7, <1>9, <2>1, ValueStored DEF FreeBytes
<1>10. CASE ClearData
  <2>1. StoreIn("value", EMPTY) /\ raiz[place] # NULL
    BY <1>8, <1>10 DEF ClearData, Replaces, Replacing
  <2> QED
    BY <1>6, <1>7, <1>10, <2>1, ValueStored DEF ClearData
<1>11. CASE FreeData
  <2>1. StoreIn("value", FREED) /\ raiz[place] # NULL
    BY <1>8, <1>11 DEF FreeData, Replaces, Replacing
  <2> QED
    BY <1>6, <1>7, <1>11, <2>1, ValueStored DEF FreeData
<1>12. CASE FreeKey
  <2>1. StoreIn("key", FREED) /\ raiz[place] # NULL
    BY <1>8, <1>12 DEF FreeKey, Replaces, Replacing
  <2> QED
    BY <1>6, <1>7, <1>12, <2>1, KeyStored DEF FreeKey
<1>13. CASE StoreKey
  <2>1. StoreIn("key", task.key) /\ raiz[place] # NULL
    BY <1>8, <1>13 DEF StoreKey, Replaces, Replacing
  <2> QED
    BY <1>6, <1>7, <1>13, <2>1, KeyStored DEF StoreKey
<1>14. CASE StoreValue
  <2>1. StoreIn("value", task.value) /\ raiz[place] # NULL
    BY <1>8, <1>14 DEF StoreValue, Replaces, Replacing
  <2> QED
    BY <1>6, <1>7, <1>14, <2>1, ValueStored DEF StoreValue
<1> QED
  BY <1>1, <1>2, <1>3, <1>4, <1>5, <1>9, <1>10, <1>11, <1>12, <1>13, <1>14
     DEF WriterStep, Writer

LEMMA FrameTypes ==
  ASSUME ReaderTypeOK
  PROVE  /\ Len(frames) \in Nat
         /\ \A i \in 1..Len(frames) : frames[i] \in Frame
         /\ rpc = "reading" => frames # <<>> /\ Len(frames) > 0 /\ Top \in Frame
<1>1. frames \in Seq(Frame)
  BY DEF ReaderTypeOK
<1>2. Len(frames) \in Nat /\ \A i \in 1..Len(frames) : frames[i] \in Frame
  BY <1>1, LenProperties, ElementOfSeq
<1>3. ASSUME rpc = "reading" PROVE frames # <<>> /\ Len(frames) > 0 /\ Top \in Frame
  <2>1. frames # <<>> /\ Len(frames) \in Nat \ {0}
    BY <1>1, <1>3, EmptySeq DEF ReaderTypeOK
  <2> QED
    BY <1>2, <2>1 DEF Top
<1> QED
  BY <1>2, <1>3

\* What the writer's steps leave of the pointer held, and of where the
\* reader knows entries to be taken apart.
HeldKept ==
    /\ held' \in KeyStates \cup DataStates \cup {LINKED}
    /\ torn \subseteq torn' /\ torn' \subseteq Nodes
    /\ rpc = "reading" /\ Replacing' => place' \in torn'
    /\ rpc = "reading" /\ Top.stage \in Using =>
        /\ held' = LINKED => raiz'[Top.node] # NULL
        /\ held' \notin Keys \cup Values \cup {LINKED} => Top.node \in torn'

LEMMA WriterKeepsTorn ==
  ASSUME TreeInv, torn \subseteq Nodes, WriterStep
  PROVE  /\ torn \subseteq torn' /\ torn' \subseteq Nodes
         /\ rpc = "reading" /\ Replacing' => place' \in torn'
<1>1. place \in Nodes
  BY TreeRaceAssumption DEF TreeInv, TreeTypeOK, Nodes, MaxNodes
<1>2. CASE Stores /\ place' = place
  BY <1>1, <1>2 DEF Stores
<1>3. CASE torn' = torn /\ ~Replacing'
  BY <1>3
<1>4. CASE \E k \in Keys, v \in Values : BeginPut(k, v)
  BY <1>3, <1>4 DEF BeginPut, history, Replacing
<1>5. CASE Search
  BY <1>3, <1>5 DEF Search, history, Replacing
<1>6. CASE LinkEntry \/ LinkLeft \/ LinkRight \/ \E k \in Keys : Delete(k)
  BY <1>2, <1>6 DEF LinkEntry, LinkLeft, LinkRight, Delete
<1>7. CASE FreeBytes \/ ClearData \/ FreeData \/ FreeKey \/ StoreKey \/ StoreValue
  BY <1>2, <1>7 DEF FreeBytes, ClearData, FreeData, FreeKey, StoreKey, StoreValue, Replaces
<1> QED
  BY <1>4, <1>5, <1>6, <1>7 DEF WriterStep, Writer

LEMMA WriterKeepsHeld ==
  ASSUME TreeInv, ReaderInv, WriterStep
  PROVE  HeldKept
<1>1. /\ torn \subseteq torn' /\ torn' \subseteq Nodes
      /\ rpc = "reading" /\ Replacing' => place' \in torn'
  BY WriterKeepsTorn DEF ReaderInv, ReaderTypeOK
<1>2. EntriesStay
  BY WriterKeepsEntries DEF ReaderInv, ReaderTypeOK
<1>3. held \in KeyStates \cup DataStates \cup {LINKED}
  BY DEF ReaderInv, ReaderTypeOK
<1>4. rpc = "reading" /\ Top.stage \in Using => Top.node \in Nodes
  BY FrameTypes DEF ReaderInv, Stack, Top, InCall, Frame, Using
<1>5. ASSUME NEW n \in Nodes, raiz[n] # NULL
      PROVE  /\ raiz[n].key \in KeyStates /\ raiz[n].value \in DataStates
             /\ raiz[n].key \notin Keys => n = place /\ Replacing
             /\ raiz[n].value \notin Values => n = place /\ Replacing
  BY <1>5 DEF TreeInv, TreeTypeOK, Entry, FreedOnlyHere, KeyStates, Replacing
<1>6. HeldField \in {"key", "value"}
  BY DEF HeldField
<1>7. CASE held' = held /\ \A n \in Nodes : raiz[n] # NULL => raiz'[n] # NULL
  BY <1>1, <1>3, <1>4, <1>7 DEF HeldKept, ReaderInv, HeldOK
<1>8. ASSUME NEW k \in Keys, Delete(k) PROVE HeldKept
  <2>1. /\ Root \in Nodes /\ raiz[Root] # NULL /\ wpc = "idle"
        /\ Overwrites(Root, {"key", "value"})
        /\ \A n \in Nodes \ {Root} : raiz'[n] = raiz[n]
    BY <1>8 DEF Delete, Stored, TreeInv, TreeTypeOK
  <2>2. raiz[Root].key \in Keys /\ raiz[Root].value \in Values
    BY <1>5, <2>1 DEF Replacing
  <2>3. CASE rpc = "reading" /\ Top.stage \in Using /\ Top.node = Root /\ held = LINKED
    <3>1. held' = raiz[Root][HeldField]
      BY <1>6, <2>1, <2>3 DEF Overwrites
    <3>2. held' \in Keys \cup Values
      BY <1>6, <2>2, <3>1
    <3> QED
      BY <1>1, <3>2, TreeRaceAssumption DEF HeldKept, KeyStates, DataStates
  <2>4. CASE ~(rpc = "reading" /\ Top.stage \in Using /\ Top.node = Root /\ held = LINKED)
    <3>1. held' = held
      BY <2>1, <2>4 DEF Overwrites
    <3>2. ASSUME rpc = "reading", Top.stage \in Using, held = LINKED
          PROVE  raiz'[Top.node] # NULL
      BY <1>4, <2>1, <2>4, <3>2 DEF ReaderInv, HeldOK
    <3> QED
      BY <1>1, <1>3, <3>1, <3>2 DEF HeldKept, ReaderInv, HeldOK
  <2> QED
    BY <2>3, <2>4
<1>9. CASE StoreKey \/ StoreValue
  <2>1. /\ place \in Nodes /\ raiz[place] # NULL /\ Replacing
        /\ \E fields : Overwrites(place, fields)
    BY <1>9, TreeRaceAssumption DEF StoreKey, StoreValue, Replaces, Replacing, TreeInv,
       FreedOnlyHere, TreeTypeOK, Nodes, MaxNodes
  <2>2. ~\E k \in Keys : Delete(k)
    BY <2>1 DEF Delete, Replacing
  <2>3. \A n \in Nodes : raiz[n] # NULL => raiz'[n] # NULL
    <3>1. CASE StoreKey
      <4>1. EntryStored("key", task.key, "value")
        BY <2>1, <3>1, KeyStored DEF StoreKey, Replaces, TreeInv, TreeTypeOK, KeyStates
      <4> QED
        BY <4>1 DEF EntryStored
    <3>2. CASE StoreValue
      <4>1. EntryStored("value", task.value, "key")
        BY <2>1, <3>2, ValueStored DEF StoreValue, Replaces, TreeInv, TreeTypeOK, DataStates
      <4> QED
        BY <4>1 DEF EntryStored
    <3> QED
      BY <1>9, <3>1, <3>2
  <2>4. CASE held' = held
    BY <1>7, <2>3, <2>4
  <2>5. CASE held' # held
    <3>1. /\ held' = raiz[place][HeldField] /\ rpc = "reading" /\ Top.node = place
      BY <2>1, <2>5 DEF Overwrites
    <3>2. held' \in KeyStates \cup DataStates
      BY <1>5, <1>6, <2>1, <3>1
    <3>3. place \in torn'
      BY <1>1, <2>1, <3>1 DEF ReaderInv, TornHere
    <3> QED
      BY <1>1, <2>1, <2>3, <3>1, <3>2, <3>3 DEF HeldKept
  <2> QED
    BY <2>4, <2>5
<1>10. CASE \E k \in Keys, v \in Values : BeginPut(k, v)
  BY <1>7, <1>10 DEF BeginPut, nodes
<1>11. CASE Search
  BY <1>7, <1>11 DEF Search, nodes
<1>12. CASE LinkEntry
  <2>1. task # NULL
    BY TreeRaceAssumption, SMT DEF TreeInv, TreeTypeOK
  <2>2. \A n \in Nodes : raiz'[n] = IF n = place THEN task ELSE raiz[n]
    BY <1>12 DEF LinkEntry, TreeInv, TreeTypeOK
  <2> QED
    BY <1>7, <1>12, <2>1, <2>2 DEF LinkEntry
<1>13. CASE LinkLeft \/ LinkRight
  BY <1>7, <1>13 DEF LinkLeft, LinkRight
<1>14. CASE FreeBytes \/ ClearData \/ FreeData \/ FreeKey
  <2>1. raiz[place] # NULL /\ FREED \in KeyStates /\ {FREED, DANGLING, EMPTY} \subseteq DataStates
    BY <1>14 DEF FreeBytes, ClearData, FreeData, FreeKey, Replaces, Replacing, TreeInv,
       FreedOnlyHere, KeyStates, DataStates
  <2>2. \/ EntryStored("value", DANGLING, "key") \/ EntryStored("value", EMPTY, "key")
        \/ EntryStored("value", FREED, "key") \/ EntryStored("key", FREED, "value")
    BY <1>14, <2>1, ValueStored, KeyStored
       DEF FreeBytes, ClearData, FreeData, FreeKey, Replaces, TreeInv
  <2>3. held' = held
    BY <1>14 DEF FreeBytes, ClearData, FreeData, FreeKey
  <2> QED
    BY <1>7, <2>2, <2>3 DEF EntryStored
<1> QED
  BY <1>8, <1>9, <1>10, <1>11, <1>12, <1>13, <1>14 DEF WriterStep, Writer

LEMMA WriterKeepsReader ==
  ASSUME TreeInv, ReaderInv, WriterStep
  PROVE  ReaderInv'
<1>0. HeldKept
  BY WriterKeepsHeld
<1>1. OpenStays /\ EntriesStay /\ UNCHANGED reader
  BY WriterKeepsTree, WriterKeepsEntries DEF ReaderInv, ReaderTypeOK
<1>2. read' = read /\ frames' = frames /\ rpc' = rpc
  BY <1>1 DEF reader
<1>3. ReaderTypeOK'
  BY <1>0, <1>1, <1>2 DEF ReaderInv, ReaderTypeOK, EntriesStay, HeldKept, KeyStates, DataStates,
                         Nodes, MaxNodes
<1>4. Stack'
  <2>1. ASSUME NEW i \in 1..Len(frames) PROVE InCall(frames[i])'
    <3>1. frames[i] \in Frame
      BY FrameTypes DEF ReaderInv
    <3>2. InCall(frames[i])
      BY DEF ReaderInv, Stack
    <3> QED
      BY <1>1, <1>2, <3>1, <3>2 DEF InCall, Frame, OpenStays
  <2> QED
    BY <1>2, <2>1 DEF ReaderInv, Stack
<1>5. LostByDeletion'
  <2> SUFFICES ASSUME rpc = "reading", Top.stage \in Loading \cup Using,
                      raiz'[Top.node] = NULL, ~deleted'
               PROVE  FALSE
    BY <1>1, <1>2 DEF LostByDeletion, Top, EntriesStay
  <2>1. Top \in Frame /\ InCall(Top)
    BY FrameTypes DEF ReaderInv, Stack, Top
  <2>2. Top.node \in Nodes
    BY <2>1 DEF Frame, InCall, Loading, Using
  <2>3. raiz[Top.node] # NULL
    BY <1>1 DEF ReaderInv, LostByDeletion, EntriesStay
  <2> QED
    BY <1>1, <2>2, <2>3 DEF EntriesStay
<1>6. TornHere' /\ HeldOK'
  BY <1>0, <1>2 DEF HeldKept, TornHere, HeldOK, Top
<1>7. SizeSurvives'
  BY <1>2 DEF ReaderInv, SizeSurvives
<1> QED
  BY <1>3, <1>4, <1>5, <1>6, <1>7 DEF ReaderInv

-----------------------------------------------------------------------------
(* Steps of the reader.                                                    *)

\* The innermost call replaced by another, ...
LEMMA TopReplaced ==
  ASSUME NEW s \in Seq(Frame), s # <<>>, NEW a \in Frame
  PROVE  /\ <<a>> \o Tail(s) \in Seq(Frame) /\ <<a>> \o Tail(s) # <<>>
         /\ Len(<<a>> \o Tail(s)) = Len(s) /\ Len(s) \in Nat \ {0}
         /\ (<<a>> \o Tail(s))[1] = a
         /\ \A i \in 2..Len(s) : (<<a>> \o Tail(s))[i] = s[i]
<1> DEFINE u == <<a>>
           t == u \o Tail(s)
<1>1. Len(s) \in Nat \ {0} /\ Tail(s) \in Seq(Frame) /\ Len(Tail(s)) = Len(s) - 1
      /\ \A i \in 1..Len(Tail(s)) : Tail(s)[i] = s[i + 1]
  BY EmptySeq, HeadTailProperties
<1>2. u \in Seq(Frame) /\ Len(u) = 1 /\ u[1] = a
  OBVIOUS
<1> HIDE DEF u
<1>3. t \in Seq(Frame) /\ Len(t) = Len(u) + Len(Tail(s))
      /\ \A i \in 1..Len(u) + Len(Tail(s)) :
            t[i] = IF i <= Len(u) THEN u[i] ELSE Tail(s)[i - Len(u)]
  BY <1>1, <1>2, ConcatProperties
<1>4. Len(t) = Len(s) /\ t[1] = a /\ \A i \in 2..Len(s) : t[i] = s[i]
  BY <1>1, <1>2, <1>3
<1>5. t # <<>>
  BY <1>1, <1>4, EmptySeq
<1> QED
  BY <1>1, <1>3, <1>4, <1>5 DEF u

\* ... and by two.
LEMMA TopPushed ==
  ASSUME NEW s \in Seq(Frame), s # <<>>, NEW a \in Frame, NEW b \in Frame
  PROVE  /\ <<a, b>> \o Tail(s) \in Seq(Frame) /\ <<a, b>> \o Tail(s) # <<>>
         /\ Len(<<a, b>> \o Tail(s)) = Len(s) + 1 /\ Len(s) \in Nat \ {0}
         /\ (<<a, b>> \o Tail(s))[1] = a /\ (<<a, b>> \o Tail(s))[2] = b
         /\ \A i \in 3..Len(s) + 1 : (<<a, b>> \o Tail(s))[i] = s[i - 1]
<1> DEFINE u == <<a, b>>
           t == u \o Tail(s)
<1>1. Len(s) \in Nat \ {0} /\ Tail(s) \in Seq(Frame) /\ Len(Tail(s)) = Len(s) - 1
      /\ \A i \in 1..Len(Tail(s)) : Tail(s)[i] = s[i + 1]
  BY EmptySeq, HeadTailProperties
<1>2. u \in Seq(Frame) /\ Len(u) = 2 /\ u[1] = a /\ u[2] = b
  OBVIOUS
<1> HIDE DEF u
<1>3. t \in Seq(Frame) /\ Len(t) = Len(u) + Len(Tail(s))
      /\ \A i \in 1..Len(u) + Len(Tail(s)) :
            t[i] = IF i <= Len(u) THEN u[i] ELSE Tail(s)[i - Len(u)]
  BY <1>1, <1>2, ConcatProperties
<1>4. Len(t) = Len(s) + 1 /\ t[1] = a /\ t[2] = b
      /\ \A i \in 3..Len(s) + 1 : t[i] = s[i - 1]
  BY <1>1, <1>2, <1>3
<1>5. t # <<>>
  BY <1>1, <1>4, EmptySeq
<1> QED
  BY <1>1, <1>3, <1>4, <1>5 DEF u

LEMMA GoOnKeepsReader ==
  ASSUME ReaderInv, Looks, rpc = "reading", NEW stack \in Seq(Frame), GoOn(stack),
         \A i \in 1..Len(stack) : InCall(stack[i]) /\ (i > 1 => stack[i].stage = "direita"),
         stack # <<>> /\ stack[1].stage \in Loading \cup Using
             => raiz[stack[1].node] # NULL \/ (deleted /\ stack[1].stage \in Loading)
  PROVE  ReaderInv'
<1>1. /\ esquerda' = esquerda /\ direita' = direita /\ raiz' = raiz
      /\ place' = place /\ wpc' = wpc /\ read' = read /\ deleted' = deleted /\ torn' = torn
      /\ frames' = stack /\ held' = LINKED
      /\ rpc' = (IF stack = <<>> THEN "done" ELSE "reading")
  BY DEF Looks, GoOn, nodes, writer, history
<1>2. ReaderTypeOK'
  BY <1>1 DEF ReaderInv, ReaderTypeOK, Nodes, MaxNodes
<1>3. Stack'
  BY <1>1 DEF Stack, InCall, IsOpen
<1>4. LostByDeletion'
  BY <1>1 DEF LostByDeletion, Top
<1>5. TornHere'
  BY <1>1 DEF ReaderInv, TornHere, Replacing
<1>6. HeldOK'
  BY <1>1 DEF HeldOK, Top, Loading, Using
<1>7. SizeSurvives'
  BY <1>1 DEF SizeSurvives
<1> QED
  BY <1>2, <1>3, <1>4, <1>5, <1>6, <1>7 DEF ReaderInv

LEMMA FaultKeepsReader ==
  ASSUME ReaderInv, NEW how \in {"null", "freed"}, Faults(how), read.op # "size"
  PROVE  ReaderInv'
<1>1. /\ read' = read /\ deleted' = deleted /\ torn' = torn
      /\ frames' = <<>> /\ rpc' = how /\ held' = LINKED
  BY DEF Faults, Looks, history
<1>2. ReaderTypeOK'
  BY <1>1 DEF ReaderInv, ReaderTypeOK, Nodes, MaxNodes
<1>3. Stack'
  BY <1>1 DEF Stack
<1>4. LostByDeletion' /\ TornHere' /\ HeldOK' /\ SizeSurvives'
  BY <1>1 DEF LostByDeletion, TornHere, HeldOK, SizeSurvives
<1> QED
  BY <1>2, <1>3, <1>4 DEF ReaderInv

LEMMA NextStageKeepsReader ==
  ASSUME ReaderInv, Looks, rpc = "reading", NEW st \in Stages(read.op) \ {"raiz"},
         Top.node # NULL, IsOpen(Top.node),
         st \in Loading \cup Using => raiz[Top.node] # NULL \/ (deleted /\ st \in Loading),
         NextStage(st)
  PROVE  ReaderInv'
<1> DEFINE a == [Top EXCEPT !.stage = st]
           t == <<a>> \o Tail(frames)
<1>1. frames # <<>> /\ frames \in Seq(Frame) /\ Top \in Frame
  BY FrameTypes DEF ReaderInv, ReaderTypeOK
<1>2. a \in Frame /\ a.stage = st /\ a.node = Top.node
  BY <1>1 DEF Frame, Stages
<1>3. InCall(a)
  BY <1>2 DEF InCall
<1> HIDE DEF a
<1>4. /\ t \in Seq(Frame) /\ Len(t) = Len(frames) /\ Len(frames) \in Nat \ {0} /\ t[1] = a
      /\ \A i \in 2..Len(frames) : t[i] = frames[i]
  BY <1>1, <1>2, TopReplaced
<1>5. GoOn(t)
  BY DEF NextStage, a
<1> HIDE DEF t
<1>6. \A i \in 1..Len(t) : InCall(t[i]) /\ (i > 1 => t[i].stage = "direita")
  <2> TAKE i \in 1..Len(t)
  <2>1. CASE i = 1
    BY <1>3, <1>4, <2>1
  <2>2. CASE i \in 2..Len(frames)
    BY <1>4, <2>2 DEF ReaderInv, Stack
  <2> QED
    BY <1>4, <2>1, <2>2
<1> QED
  BY <1>2, <1>4, <1>5, <1>6, GoOnKeepsReader

LEMMA ReaderStepsKeepReader ==
  ASSUME TreeInv, ReaderInv, Reader
  PROVE  ReaderInv'
<1> USE DEF TreeInv, ReaderInv
<1>1. /\ Len(frames) \in Nat /\ frames \in Seq(Frame) /\ read \in Counts \cup Gets
      /\ rpc = "reading" => frames # <<>> /\ Len(frames) > 0 /\ Top \in Frame /\ InCall(Top)
  BY FrameTypes DEF ReaderTypeOK, Stack, Top
<1>2. rpc = "reading" =>
        /\ Top.stage \in Stages(read.op)
        /\ Top.stage # "raiz" => Top.node \in Nodes /\ Top.node # NULL /\ IsOpen(Top.node)
  BY <1>1 DEF InCall, Frame
<1>3. ASSUME NEW n \in Nodes PROVE esquerda[n] \in Nodes \cup {NULL} /\ direita[n] \in Nodes \cup {NULL}
  BY DEF TreeTypeOK
<1>4. ASSUME NEW n \in Nodes \cup {NULL}, NEW d \in Nat
      PROVE  Call(n, d) \in Frame /\ Call(n, d).stage = "raiz" /\ InCall(Call(n, d))
  BY DEF Call, Frame, InCall, Stages, Loading, Using
<1>5. CASE FollowNull
  BY <1>5, FaultKeepsReader DEF FollowNull
<1>6. CASE LookEmpty
  <2>1. rpc = "reading" /\ GoOn(Tail(frames)) /\ Looks
    BY <1>6 DEF LookEmpty, At
  <2>2. /\ Tail(frames) \in Seq(Frame) /\ Len(Tail(frames)) = Len(frames) - 1
        /\ \A i \in 1..Len(Tail(frames)) : Tail(frames)[i] = frames[i + 1]
    BY <1>1, <2>1, HeadTailProperties
  <2>3. ASSUME NEW i \in 1..Len(Tail(frames))
        PROVE  InCall(Tail(frames)[i]) /\ Tail(frames)[i].stage = "direita"
    BY <1>1, <2>2 DEF Stack
  <2>4. Tail(frames) # <<>> => 1 \in 1..Len(Tail(frames))
    <3>1. Tail(frames) # <<>> => Len(Tail(frames)) \in Nat \ {0}
      BY <2>2, EmptySeq
    <3> QED
      BY <3>1
  <2>5. Tail(frames) # <<>> => Tail(frames)[1].stage = "direita"
    BY <2>3, <2>4
  <2> QED
    BY <2>1, <2>2, <2>3, <2>5, GoOnKeepsReader DEF Loading, Using
<1>7. CASE Count
  <2>1. /\ rpc = "reading" /\ Looks /\ NextStage("esquerda") /\ Top.node # NULL
        /\ raiz[Top.node] # NULL /\ read \in Counts
    BY <1>7 DEF Count, At
  <2>2. IsOpen(Top.node)
    BY <1>1, <2>1 DEF EntriesOpen, Frame
  <2>3. "esquerda" \in Stages(read.op) \ {"raiz"}
    BY <2>1 DEF Stages, Counts
  <2> QED
    BY <2>1, <2>2, <2>3, NextStageKeepsReader DEF Loading, Using
<1>8. CASE GoLeft
  <2> DEFINE a == Call(esquerda[Top.node], Top.depth + 1)
             b == [Top EXCEPT !.stage = "direita"]
             t == <<a, b>> \o Tail(frames)
  <2>1. rpc = "reading" /\ Top.stage = "esquerda" /\ GoOn(t) /\ Looks
    BY <1>8 DEF GoLeft, At
  <2>2. a \in Frame /\ a.stage = "raiz" /\ InCall(a)
    <3>1. esquerda[Top.node] \in Nodes \cup {NULL}
      BY <1>2, <1>3, <2>1
    <3>2. Top.depth + 1 \in Nat
      BY <1>1, <2>1 DEF Frame
    <3> QED
      BY <1>4, <3>1, <3>2
  <2>3. b \in Frame /\ b.stage = "direita" /\ b.node = Top.node
    BY <1>1, <2>1 DEF Frame
  <2>4. InCall(b)
    BY <1>2, <2>1, <2>3 DEF InCall, Stages, Loading, Using
  <2> HIDE DEF a, b
  <2>5. /\ t \in Seq(Frame) /\ Len(t) = Len(frames) + 1 /\ t[1] = a /\ t[2] = b
        /\ \A i \in 3..Len(frames) + 1 : t[i] = frames[i - 1]
    BY <1>1, <2>1, <2>2, <2>3, TopPushed
  <2> HIDE DEF t
  <2>6. ASSUME NEW i \in 1..Len(t) PROVE InCall(t[i]) /\ (i > 1 => t[i].stage = "direita")
    <3>1. CASE i \in {1, 2}
      BY <2>2, <2>3, <2>4, <2>5, <3>1
    <3>2. CASE i \in 3..Len(frames) + 1
      BY <1>1, <2>1, <2>5, <3>2 DEF Stack
    <3> QED
      BY <1>1, <2>5, <3>1, <3>2
  <2> QED
    BY <2>1, <2>2, <2>5, <2>6, GoOnKeepsReader DEF Loading, Using
<1>9. CASE GoRight
  <2> DEFINE a == Call(direita[Top.node], Top.depth + 1)
             t == <<a>> \o Tail(frames)
  <2>1. rpc = "reading" /\ Top.stage = "direita" /\ GoOn(t) /\ Looks
    BY <1>9 DEF GoRight, At
  <2>2. a \in Frame /\ a.stage = "raiz" /\ InCall(a)
    <3>1. direita[Top.node] \in Nodes \cup {NULL}
      BY <1>2, <1>3, <2>1
    <3>2. Top.depth + 1 \in Nat
      BY <1>1, <2>1 DEF Frame
    <3> QED
      BY <1>4, <3>1, <3>2
  <2> HIDE DEF a
  <2>3. /\ t \in Seq(Frame) /\ Len(t) = Len(frames) /\ t[1] = a
        /\ \A i \in 2..Len(frames) : t[i] = frames[i]
    BY <1>1, <2>1, <2>2, TopReplaced
  <2> HIDE DEF t
  <2>4. ASSUME NEW i \in 1..Len(t) PROVE InCall(t[i]) /\ (i > 1 => t[i].stage = "direita")
    <3>1. CASE i = 1
      BY <2>2, <2>3, <3>1
    <3>2. CASE i \in 2..Len(frames)
      BY <2>3, <3>2 DEF Stack
    <3> QED
      BY <1>1, <2>3, <3>1, <3>2
  <2> QED
    BY <2>1, <2>2, <2>3, <2>4, GoOnKeepsReader DEF Loading, Using
<1>10. CASE GetBegins
  <2>1. /\ rpc = "reading" /\ Looks /\ NextStage("key") /\ Top.node # NULL
        /\ raiz[Top.node] # NULL /\ read \in Gets
    BY <1>10 DEF GetBegins, At
  <2>2. IsOpen(Top.node)
    BY <1>1, <2>1 DEF EntriesOpen, Frame
  <2>3. "key" \in Stages(read.op) \ {"raiz"}
    BY <2>1 DEF Stages, Gets, Loading
  <2> QED
    BY <2>1, <2>2, <2>3, NextStageKeepsReader
<1>11. ASSUME rpc = "reading", Top.stage \in Loading \cup Using
       PROVE  /\ Stages(read.op) = {"raiz"} \cup Loading \cup Using /\ read.op # "size"
              /\ Top.node \in Nodes /\ Top.node # NULL /\ IsOpen(Top.node)
  <2>1. Top.stage \notin {"raiz", "esquerda", "direita"}
    BY <1>11 DEF Loading, Using
  <2> QED
    BY <1>2, <1>11, <2>1 DEF Stages
<1>12. CASE Unlinked
  BY <1>11, <1>12, FaultKeepsReader DEF Unlinked
<1>13. CASE ReadsFreed \/ CopyNothing
  BY <1>11, <1>13, FaultKeepsReader DEF ReadsFreed, CopyNothing, At, Using
<1>14. CASE LoadField
  <2> DEFINE st == CASE Top.stage = "key" -> "equal" [] Top.stage = "side" -> "order"
                     [] OTHER -> "dup"
  <2>1. /\ rpc = "reading" /\ Looks /\ NextStage(st) /\ Top.stage \in Loading
        /\ raiz[Top.node] # NULL
    BY <1>14 DEF LoadField
  <2>2. st \in Using /\ st # "raiz"
    BY DEF Using
  <2> HIDE DEF st
  <2> QED
    BY <1>11, <2>1, <2>2, NextStageKeepsReader
<1>15. CASE CompareKey
  <2> DEFINE st == IF Sees = read.key THEN "value" ELSE "side"
  <2>1. rpc = "reading" /\ Looks /\ NextStage(st) /\ Top.stage \in Using
    BY <1>15 DEF CompareKey, At, Using
  <2>2. st \in Loading /\ st # "raiz" /\ st \notin Using
    BY DEF Loading, Using
  <2>3. raiz[Top.node] # NULL \/ deleted
    BY <2>1 DEF LostByDeletion
  <2> HIDE DEF st
  <2> QED
    BY <1>11, <2>1, <2>2, <2>3, NextStageKeepsReader
<1>16. CASE ChooseSide
  <2> DEFINE n == IF Sees > read.key THEN esquerda[Top.node] ELSE direita[Top.node]
             t == <<Call(n, Top.depth + 1)>>
  <2>1. rpc = "reading" /\ Top.stage = "order" /\ GoOn(t) /\ Looks
    BY <1>16 DEF ChooseSide, At
  <2>2. n \in Nodes \cup {NULL}
    BY <1>2, <1>3, <2>1
  <2>3. Top.depth + 1 \in Nat
    BY <1>1, <2>1 DEF Frame
  <2> HIDE DEF n
  <2>4. Call(n, Top.depth + 1) \in Frame /\ Call(n, Top.depth + 1).stage = "raiz"
        /\ InCall(Call(n, Top.depth + 1))
    BY <1>4, <2>2, <2>3
  <2>5. t \in Seq(Frame) /\ Len(t) = 1 /\ t[1] = Call(n, Top.depth + 1)
    BY <2>4
  <2> HIDE DEF t
  <2> QED
    BY <2>1, <2>4, <2>5, GoOnKeepsReader DEF Loading, Using
<1>17. CASE CopyValue \/ DupNothing
  <2> DEFINE t == <<>>
  <2>1. GoOn(t) /\ Looks /\ rpc = "reading"
    BY <1>17 DEF CopyValue, DupNothing, At
  <2>2. t \in Seq(Frame) /\ 1..Len(t) = {} /\ t = <<>>
    BY EmptySeq
  <2> HIDE DEF t
  <2> QED
    BY <2>1, <2>2, GoOnKeepsReader
<1>18. CASE Dup
  <2> DEFINE a == [Top EXCEPT !.stage = "copy"]
             t == <<a>> \o Tail(frames)
  <2>1. rpc = "reading" /\ Top.stage = "dup" /\ Looks /\ frames' = t /\ UNCHANGED <<rpc, held>>
    BY <1>18 DEF Dup, At
  <2>2. /\ "dup" \in Using /\ "copy" \in Using /\ "copy" \notin {"raiz", "direita"}
        /\ "copy" \notin Loading
    BY DEF Using, Loading
  <2>3. a \in Frame /\ a.stage = "copy" /\ a.node = Top.node
    BY <1>1, <2>1, <2>2 DEF Frame
  <2>4. InCall(a)
    BY <1>11, <2>1, <2>2, <2>3 DEF InCall
  <2> HIDE DEF a
  <2>5. /\ t \in Seq(Frame) /\ Len(t) = Len(frames) /\ Len(frames) \in Nat \ {0} /\ t[1] = a
        /\ t # <<>> /\ \A i \in 2..Len(frames) : t[i] = frames[i]
    BY <1>1, <2>1, <2>3, TopReplaced
  <2> HIDE DEF t
  <2>6. \A i \in 1..Len(t) : InCall(t[i]) /\ (i > 1 => t[i].stage = "direita")
    <3> TAKE i \in 1..Len(t)
    <3>1. CASE i = 1
      BY <2>4, <2>5, <3>1
    <3>2. CASE i \in 2..Len(frames)
      BY <2>5, <3>2 DEF Stack
    <3> QED
      BY <2>5, <3>1, <3>2
  <2>7. /\ esquerda' = esquerda /\ direita' = direita /\ raiz' = raiz /\ read' = read
        /\ place' = place /\ wpc' = wpc /\ deleted' = deleted /\ torn' = torn
        /\ rpc' = rpc /\ held' = held /\ Top' = a
    BY <2>1, <2>5 DEF Looks, nodes, writer, history, Top
  <2>8. ReaderTypeOK'
    BY <2>1, <2>5, <2>7 DEF ReaderTypeOK, Nodes, MaxNodes
  <2>9. Stack'
    BY <2>1, <2>6, <2>7 DEF Stack, InCall, IsOpen
  <2>10. LostByDeletion' /\ TornHere' /\ SizeSurvives'
    BY <2>1, <2>2, <2>3, <2>7 DEF LostByDeletion, TornHere, Replacing, SizeSurvives
  <2>11. HeldOK'
    BY <2>1, <2>2, <2>3, <2>7 DEF HeldOK
  <2> QED
    BY <2>8, <2>9, <2>10, <2>11
<1> QED
  BY <1>5, <1>6, <1>7, <1>8, <1>9, <1>10, <1>12, <1>13, <1>14, <1>15, <1>16, <1>17, <1>18 DEF Reader

-----------------------------------------------------------------------------
LEMMA ReaderKeepsTree ==
  ASSUME TreeInv, UNCHANGED <<nodes, writer>>
  PROVE  TreeInv'
BY DEF nodes, writer, TreeInv, TreeTypeOK, Room, ToCreate, Children, EntriesOpen, IsOpen,
       FreedOnlyHere, Replacing

LEMMA ReadKeepsReader ==
  ASSUME TreeInv, ReaderInv, NEW r \in Counts \cup Gets, Read(r)
  PROVE  ReaderInv'
<1> DEFINE t == <<Call(Root, 1)>>
<1>1. /\ read' = r /\ frames' = t /\ rpc' = "reading" /\ deleted' = FALSE /\ held' = LINKED
      /\ wpc' = wpc /\ place' = place /\ torn' = IF Replacing THEN {place} ELSE {}
  BY DEF Read, writer
<1>2. Call(Root, 1) \in Frame /\ Call(Root, 1).stage = "raiz"
  BY TreeRaceAssumption DEF Call, Frame, Root, Nodes, MaxNodes
<1>3. t \in Seq(Frame) /\ Len(t) = 1 /\ t[1] = Call(Root, 1) /\ t # <<>>
  BY <1>2
<1> HIDE DEF t
<1>4. ReaderTypeOK'
  <2>1. place \in Nodes /\ Nodes' = Nodes
    BY TreeRaceAssumption DEF TreeInv, TreeTypeOK, Nodes, MaxNodes
  <2>2. torn' \subseteq Nodes'
    BY <1>1, <2>1
  <2> QED
    BY <1>1, <1>3, <2>2 DEF ReaderTypeOK
<1>5. Stack'
  BY <1>1, <1>2, <1>3 DEF Stack, InCall, Stages
<1>6. LostByDeletion' /\ TornHere' /\ HeldOK' /\ SizeSurvives'
  BY <1>1, <1>2, <1>3
     DEF LostByDeletion, TornHere, Replacing, HeldOK, SizeSurvives, Top, Loading, Using
<1> QED
  BY <1>4, <1>5, <1>6 DEF ReaderInv

LEMMA StutterKeepsReader == ReaderInv /\ UNCHANGED vars => ReaderInv'
BY DEF vars, nodes, writer, reader, history, ReaderInv, ReaderTypeOK, Stack, InCall, IsOpen,
       LostByDeletion, TornHere, Replacing, HeldOK, Top, SizeSurvives, Nodes, MaxNodes

LEMMA ReaderSteps == Reader => UNCHANGED <<nodes, writer>>
BY DEF Reader, FollowNull, LookEmpty, Count, GoLeft, GoRight, GetBegins, Unlinked, LoadField,
       ReadsFreed, CompareKey, ChooseSide, DupNothing, Dup, CopyNothing, CopyValue, Faults, Looks

LEMMA NextKeepsInv == IInv /\ [Next]_vars => IInv'
<1> SUFFICES ASSUME TreeInv, ReaderInv, [Next]_vars PROVE TreeInv' /\ ReaderInv'
  BY DEF IInv
<1>1. CASE WriterStep
  BY <1>1, WriterKeepsTree, WriterKeepsReader
<1>2. CASE \E r \in Counts \cup Gets : Read(r)
  <2>1. UNCHANGED <<nodes, writer>>
    BY <1>2 DEF Read
  <2> QED
    BY <1>2, <2>1, ReaderKeepsTree, ReadKeepsReader
<1>3. CASE Reader
  BY <1>3, ReaderSteps, ReaderKeepsTree, ReaderStepsKeepReader
<1>4. CASE UNCHANGED vars
  <2>1. UNCHANGED <<nodes, writer>>
    BY <1>4 DEF vars
  <2> QED
    BY <1>4, <2>1, ReaderKeepsTree, StutterKeepsReader
<1> QED
  BY <1>1, <1>2, <1>3, <1>4 DEF Next, WriterStep

LEMMA InvHolds == Spec => []IInv
<1>1. Init => IInv
  BY InitTree, InitReader DEF IInv
<1> QED
  BY <1>1, NextKeepsInv, PTL DEF Spec

\* Nodes, entries, calls and stores keep their types, and the tree never
\* needs more than the two nodes per put that tree_put creates.
THEOREM RaceTypeCorrect == Spec => []TypeOK
<1>1. IInv => TypeOK
  BY DEF IInv, TreeInv, ReaderInv, TypeOK
<1> QED
  BY <1>1, InvHolds, PTL

\* tree_size, which looks at tree == NULL first (tree.c:209), gets through
\* whatever the writer does meanwhile.
THEOREM SizeNeverFaults == Spec => []SizeSurvives
<1>1. IInv => SizeSurvives
  BY DEF IInv, ReaderInv
<1> QED
  BY <1>1, InvHolds, PTL

\* What is found freed or emptied was taken apart since the read began.
LEMMA EmptiedIsTorn ==
  ASSUME TreeInv, ReaderInv, rpc = "reading", Top.stage \in Using,
         Sees \in {FREED, DANGLING, EMPTY}
  PROVE  Top.node \in torn
<1>1. Sees \notin Keys \cup Values \cup {LINKED}
  BY TreeRaceAssumption
<1>2. CASE held # LINKED
  BY <1>1, <1>2 DEF ReaderInv, HeldOK, Sees
<1>3. CASE held = LINKED
  <2>1. Top \in Frame /\ InCall(Top)
    BY FrameTypes DEF ReaderInv, Stack, Top
  <2>2. raiz[Top.node] # NULL /\ Sees = raiz[Top.node][HeldField] /\ Top.node \in Nodes
    BY <1>3, <2>1 DEF ReaderInv, HeldOK, Sees, Using, InCall, Frame
  <2>3. raiz[Top.node] \in Entry /\ HeldField \in {"key", "value"}
    BY <2>2 DEF TreeInv, TreeTypeOK, HeldField
  <2>4. Top.node = place /\ Replacing
    BY <1>1, <2>2, <2>3 DEF TreeInv, FreedOnlyHere, Entry, KeyStates, Replacing
  <2> QED
    BY <2>4 DEF ReaderInv, TornHere
<1> QED
  BY <1>2, <1>3

LEMMA FaultsHere ==
  ASSUME IInv, [Next]_vars, rpc = "reading", frames' # frames
  PROVE  /\ rpc' = "freed" => Top.node \in torn
         /\ rpc' = "reading" /\ frames'[1].node = NULL => wpc \in {"left", "right"}
         /\ rpc' = "null" /\ Top.stage = "copy" => Top.node \in torn
         /\ rpc' = "null" /\ Top.stage \in Loading => deleted
<1> USE DEF IInv, TreeInv, ReaderInv
<1>1. Reader
  <2>1. ~WriterStep /\ ~UNCHANGED vars
    BY WriterKeepsEntries DEF ReaderTypeOK, reader, vars
  <2>2. ~\E r \in Counts \cup Gets : Read(r)
    BY DEF Read
  <2> QED
    BY <2>1, <2>2 DEF Next, WriterStep
<1>2. /\ Len(frames) \in Nat /\ frames \in Seq(Frame) /\ frames # <<>> /\ Len(frames) > 0
      /\ Top \in Frame /\ InCall(Top)
  BY FrameTypes DEF ReaderTypeOK, Stack, Top
<1>3. Top.stage # "raiz" => Top.node \in Nodes /\ Top.node # NULL /\ IsOpen(Top.node)
  BY <1>2 DEF InCall, Frame
<1>4. ASSUME NEW a \in Frame, NEW s, s = <<a>> \o Tail(frames) PROVE s[1] = a
  BY <1>2, <1>4, TopReplaced
<1>5. ASSUME NEW st \in {"esquerda"} \cup Loading \cup Using, NextStage(st), Top.node # NULL
      PROVE  rpc' \in {"reading", "done"} /\ frames'[1].node # NULL
  <2> DEFINE a == [Top EXCEPT !.stage = st]
  <2>1. a \in Frame /\ a.node = Top.node
    BY <1>2, <1>5 DEF Frame
  <2>2. frames' = <<a>> \o Tail(frames) /\ rpc' \in {"reading", "done"}
    BY <1>5 DEF NextStage, GoOn
  <2> HIDE DEF a
  <2>3. frames'[1] = a
    BY <1>4, <2>1, <2>2
  <2> QED
    BY <1>5, <2>1, <2>2, <2>3
<1>6. CASE FollowNull
  BY <1>6 DEF FollowNull, Faults, At, Loading
<1>7. CASE LookEmpty
  <2>1. frames' = Tail(frames) /\ rpc' = IF frames' = <<>> THEN "done" ELSE "reading"
    BY <1>7 DEF LookEmpty, GoOn
  <2>2. Tail(frames) # <<>> => Len(frames) >= 2 /\ Tail(frames)[1] = frames[2]
    <3>1. /\ Tail(frames) \in Seq(Frame) /\ Len(Tail(frames)) = Len(frames) - 1
          /\ \A i \in 1..Len(Tail(frames)) : Tail(frames)[i] = frames[i + 1]
      BY <1>2, HeadTailProperties
    <3>2. Tail(frames) # <<>> => Len(Tail(frames)) \in Nat \ {0}
      BY <3>1, EmptySeq
    <3> QED
      BY <1>2, <3>1, <3>2
  <2>3. Len(frames) >= 2 => frames[2].node # NULL
    BY <1>2 DEF Stack, InCall
  <2> QED
    BY <2>1, <2>2, <2>3
<1>8. CASE Count
  BY <1>5, <1>8 DEF Count
<1>9. CASE GetBegins
  BY <1>5, <1>9 DEF GetBegins, Loading
<1>10. CASE GoLeft
  <2> DEFINE a == Call(esquerda[Top.node], Top.depth + 1)
             b == [Top EXCEPT !.stage = "direita"]
  <2>1. Top.stage = "esquerda" /\ frames' = <<a, b>> \o Tail(frames) /\ rpc' \in {"reading", "done"}
    BY <1>10 DEF GoLeft, At, GoOn
  <2>2. a \in Frame /\ a.node = esquerda[Top.node]
    <3>1. esquerda[Top.node] \in Nodes \cup {NULL} /\ Top.depth + 1 \in Nat
      BY <1>2, <1>3, <2>1 DEF Frame, TreeTypeOK
    <3> QED
      BY <3>1 DEF Call, Frame
  <2>3. b \in Frame
    BY <1>2 DEF Frame
  <2> HIDE DEF a, b
  <2>4. frames'[1] = a
    BY <1>2, <2>1, <2>2, <2>3, TopPushed
  <2> QED
    BY <1>3, <2>1, <2>2, <2>4 DEF IsOpen
<1>11. CASE GoRight
  <2> DEFINE a == Call(direita[Top.node], Top.depth + 1)
  <2>1. Top.stage = "direita" /\ frames' = <<a>> \o Tail(frames) /\ rpc' \in {"reading", "done"}
    BY <1>11 DEF GoRight, At, GoOn
  <2>2. a \in Frame /\ a.node = direita[Top.node]
    <3>1. direita[Top.node] \in Nodes \cup {NULL} /\ Top.depth + 1 \in Nat
      BY <1>2, <1>3, <2>1 DEF Frame, TreeTypeOK
    <3> QED
      BY <3>1 DEF Call, Frame
  <2> HIDE DEF a
  <2>3. frames'[1] = a
    BY <1>4, <2>1, <2>2
  <2> QED
    BY <1>3, <2>1, <2>2, <2>3 DEF IsOpen
<1>12. CASE Unlinked
  BY <1>12 DEF Unlinked, Faults, LostByDeletion, Loading
<1>13. ASSUME Top.stage \in Using, Sees \in {FREED, DANGLING, EMPTY} PROVE Top.node \in torn
  BY <1>13, EmptiedIsTorn
<1>14. CASE ReadsFreed
  BY <1>13, <1>14 DEF ReadsFreed, Faults
<1>15. CASE CopyNothing
  BY <1>13, <1>15 DEF CopyNothing, At, Faults, Using, Loading
<1>16. CASE LoadField
  <2> DEFINE st == CASE Top.stage = "key" -> "equal" [] Top.stage = "side" -> "order"
                     [] OTHER -> "dup"
  <2>1. NextStage(st) /\ st \in Using /\ Top.stage \in Loading
    BY <1>16 DEF LoadField, Using
  <2> HIDE DEF st
  <2> QED
    BY <1>3, <1>5, <2>1 DEF Loading
<1>17. CASE CompareKey
  <2> DEFINE st == IF Sees = read.key THEN "value" ELSE "side"
  <2>1. NextStage(st) /\ st \in Loading /\ Top.stage = "equal"
    BY <1>17 DEF CompareKey, At, Loading
  <2> HIDE DEF st
  <2> QED
    BY <1>3, <1>5, <2>1
<1>18. CASE ChooseSide
  <2> DEFINE n == IF Sees > read.key THEN esquerda[Top.node] ELSE direita[Top.node]
  <2>1. /\ Top.stage = "order" /\ frames' = <<Call(n, Top.depth + 1)>>
        /\ rpc' \in {"reading", "done"}
    BY <1>18 DEF ChooseSide, At, GoOn
  <2>2. frames'[1].node = n
    BY <2>1 DEF Call
  <2> QED
    BY <1>3, <2>1, <2>2 DEF IsOpen
<1>19. CASE CopyValue \/ DupNothing
  BY <1>19 DEF CopyValue, DupNothing, GoOn
<1>20. CASE Dup
  <2> DEFINE a == [Top EXCEPT !.stage = "copy"]
  <2>1. a \in Frame /\ a.node = Top.node
    BY <1>2 DEF Frame, Using
  <2>2. frames' = <<a>> \o Tail(frames) /\ rpc' = rpc /\ Top.stage = "dup"
    BY <1>20 DEF Dup, At
  <2> HIDE DEF a
  <2>3. frames'[1] = a
    BY <1>4, <2>1, <2>2
  <2> QED
    BY <1>3, <2>1, <2>2, <2>3
<1> QED
  BY <1>1, <1>6, <1>7, <1>8, <1>9, <1>10, <1>11, <1>12, <1>14, <1>15, <1>16, <1>17, <1>18, <1>19,
     <1>20 DEF Reader

\* The reader is given a NULL child only while tree_put is between tree.c:79
\* and 81; meets freed memory, or a data_t already emptied, only at a node
\* where entry_replace (entry.c:79-84) was at work while it ran; and loses an
\* entry it had found only to a deletion.
THEOREM FaultsOnlyInWindow == Spec => FaultsInWindow
<1>1. IInv /\ [Next]_vars =>
        [rpc = "reading" /\ frames' # frames =>
          /\ rpc' = "freed" => Top.node \in torn
          /\ rpc' = "reading" /\ frames'[1].node = NULL => wpc \in {"left", "right"}
          /\ rpc' = "null" /\ Top.stage = "copy" => Top.node \in torn
          /\ rpc' = "null" /\ Top.stage \in Loading => deleted]_vars
  BY FaultsHere
<1> QED
  BY <1>1, InvHolds, PTL DEF Spec, FaultsInWindow

=============================================================================
