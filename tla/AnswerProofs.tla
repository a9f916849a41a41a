---------------------------- MODULE AnswerProofs ----------------------------
(***************************************************************************)
(* What a read answers while puts and deletions are at work, for any keys, *)
(* values and number of writes.  TreeRaceProofs says when the reader goes  *)
(* wrong; here it is shown that when it does not, its answer was right at  *)
(* some moment while it ran.  For tree_get that needs what is under the    *)
(* root key.  For tree_size and tree_height it needs the shape of the      *)
(* tree: the reader counts no entry twice, counts every entry that was     *)
(* there when it began, and the right answers move by one at a time, so    *)
(* that what lies between two right answers was one too.  The right        *)
(* answers are those of the map the nodes are shown to be, which one store *)
(* of each put or deletion changes.                                        *)
(***************************************************************************)
EXTENDS TreeRaceProofs, FiniteSetTheorems, NaturalsInduction, WellFoundedInduction

-----------------------------------------------------------------------------
(* The shape of the tree between two stores.                               *)

ChildOf(c, p) == c = esquerda[p] \/ c = direita[p]

Attached(n) == n = Root \/ \E p \in Stored : ChildOf(n, p)

\* A child is one level below its parent.
Levels ==
    /\ \A n \in Nodes : depth[n] \in 1..used
    /\ depth[Root] = 1
    /\ \A n, c \in Nodes : ChildOf(c, n) => depth[c] = depth[n] + 1 /\ c # Root

OneParent ==
    \A m, n, c \in Nodes :
        /\ esquerda[m] = c /\ esquerda[n] = c => m = n
        /\ direita[m] = c /\ direita[n] = c => m = n
        /\ esquerda[m] = c => direita[n] # c

\* The stored entries hang together, and the writer is among them.
Grown ==
    /\ \A n \in Stored : Attached(n)
    /\ Stored # {} => Root \in Stored
    /\ wpc = "search" => Attached(place)

Unused == \A n \in Nodes : n > used => raiz[n] = NULL /\ esquerda[n] = NULL /\ direita[n] = NULL

\* The children the writer is about to replace were never filled.
BareChildren ==
    /\ wpc \in {"left", "right"} => raiz[place] # NULL /\ direita[place] \notin Stored
    /\ wpc = "left" => esquerda[place] \notin Stored

\* Where the entry is being replaced.
HalfReplaced ==
    /\ Replacing => raiz[place].value \notin Values
    /\ wpc \in {"freekey", "storekey", "storevalue"} => raiz[place].value = FREED
    /\ wpc \in {"cleardata", "freedata", "freekey"} => raiz[place].key = task.key
    /\ wpc = "storekey" => raiz[place].key = FREED
    /\ \A n \in Stored : raiz[n].key = FREED => raiz[n].value \notin Values

Shape == Levels /\ OneParent /\ Grown /\ Unused /\ BareChildren /\ HalfReplaced

LEMMA NodeFacts ==
  ASSUME TreeInv
  PROVE  /\ Root \in Nodes /\ Root \in 1..used /\ place \in Nodes /\ used \in Nat
         /\ 1..used \subseteq Nodes /\ NULL \notin Nodes /\ MaxNodes \in Nat
         /\ \A n \in Nodes : n \in Nat /\ n >= 1
         /\ \A n, c \in Nodes : ChildOf(c, n) => c \in 1..used
         /\ \A n \in Nodes : /\ esquerda[n] \in 1..used \cup {NULL}
                             /\ direita[n] \in 1..used \cup {NULL}
         /\ Stored \subseteq Nodes
<1>1. MaxWrites \in Nat /\ MaxNodes \in Nat /\ NULL \notin Nat
  BY TreeRaceAssumption DEF MaxNodes
<1>2. used \in Nodes /\ place \in 1..used
  BY DEF TreeInv, TreeTypeOK
<1>3. /\ NULL \notin Nodes /\ used \in Nat /\ 1..used \subseteq Nodes /\ place \in Nodes
      /\ \A n \in Nodes : n \in Nat /\ n >= 1
  BY <1>1, <1>2 DEF Nodes
<1>4. Root \in Nodes /\ Root \in 1..used
  BY <1>1, <1>2 DEF Nodes, Root
<1>5. \A n \in Nodes : {esquerda[n], direita[n]} \subseteq 1..used \cup {NULL}
  BY DEF TreeInv, Children
<1>6. \A n, c \in Nodes : ChildOf(c, n) => c \in 1..used
  BY <1>3, <1>5 DEF ChildOf
<1> QED
  BY <1>1, <1>3, <1>4, <1>5, <1>6 DEF Stored

LEMMA InitShape == Init => Shape
<1> SUFFICES ASSUME Init PROVE Shape
  OBVIOUS
<1>1. NULL \notin Nodes /\ Root \in Nodes
  BY TreeRaceAssumption DEF Nodes, MaxNodes, Root
<1>2. Levels /\ OneParent
  BY <1>1 DEF Init, Levels, OneParent, ChildOf
<1>3. Stored = {}
  BY DEF Init, Stored
<1>4. Grown /\ Unused /\ BareChildren /\ HalfReplaced
  BY <1>3 DEF Init, Grown, Unused, BareChildren, HalfReplaced, Replacing
<1> QED
  BY <1>2, <1>4 DEF Shape

LEMMA BeginPutKeepsShape ==
  ASSUME TreeInv, Shape, NEW k \in Keys, NEW v \in Values, BeginPut(k, v)
  PROVE  Shape'
BY DEF BeginPut, nodes, Shape, Levels, OneParent, Grown, Unused, BareChildren, HalfReplaced,
       Replacing, Stored, Attached, ChildOf

LEMMA SearchKeepsShape ==
  ASSUME TreeInv, Shape, Search
  PROVE  Shape'
<1>1. /\ raiz' = raiz /\ esquerda' = esquerda /\ direita' = direita /\ depth' = depth
      /\ used' = used /\ wpc' = wpc /\ wpc = "search" /\ Stored' = Stored
      /\ ChildOf(place', place) /\ place \in Stored
  BY NodeFacts DEF Search, nodes, Stored, ChildOf
<1>2. Attached(place')
  BY <1>1 DEF Attached
<1>3. Attached(place)'
  BY <1>1, <1>2 DEF Attached, ChildOf
<1> QED
  BY <1>1, <1>3 DEF Shape, Levels, OneParent, Grown, Unused, BareChildren, HalfReplaced,
                    Replacing, Attached, ChildOf

LEMMA LinkEntryStores ==
  ASSUME TreeInv, Shape, LinkEntry
  PROVE  /\ Stored' = Stored \cup {place} /\ place \notin Stored
         /\ \A n \in Nodes : raiz'[n] = IF n = place THEN task ELSE raiz[n]
         /\ task # NULL /\ Attached(place)
<1>1. task # NULL
  BY TreeRaceAssumption, SMT DEF TreeInv, TreeTypeOK
<1>2. \A n \in Nodes : raiz'[n] = IF n = place THEN task ELSE raiz[n]
  BY DEF LinkEntry, TreeInv, TreeTypeOK
<1> QED
  BY <1>1, <1>2, NodeFacts DEF LinkEntry, Stored, Shape, Grown

LEMMA LinkEntryKeepsShape ==
  ASSUME TreeInv, Shape, LinkEntry
  PROVE  Shape'
<1> USE NodeFacts
<1>1. /\ Stored' = Stored \cup {place} /\ place \notin Stored
      /\ \A n \in Nodes : raiz'[n] = IF n = place THEN task ELSE raiz[n]
      /\ task # NULL /\ Attached(place)
  BY LinkEntryStores
<1>2. /\ esquerda' = esquerda /\ direita' = direita /\ depth' = depth /\ used' = used
      /\ place' = place /\ wpc' = "left" /\ task' = task
  BY DEF LinkEntry
<1>3. Levels' /\ OneParent'
  BY <1>2 DEF Shape, Levels, OneParent, ChildOf
<1>4. Grown'
  <2>1. \A n \in Nodes : Attached(n) => Attached(n)'
    BY <1>1, <1>2 DEF Attached, ChildOf
  <2>2. Root \in Stored'
    BY <1>1 DEF Attached, Shape, Grown
  <2> QED
    BY <1>1, <1>2, <2>1, <2>2 DEF Shape, Grown
<1>5. Unused'
  <2>1. place <= used
    BY DEF TreeInv, TreeTypeOK
  <2> QED
    BY <1>1, <1>2, <2>1 DEF Shape, Unused
<1>6. BareChildren'
  <2>1. ASSUME NEW c \in Stored', ChildOf(c, place) PROVE FALSE
    <3>1. c # place /\ c # Root
      BY <1>1, <2>1 DEF Shape, Levels
    <3>2. c \in Stored
      BY <1>1, <3>1
    <3>3. PICK p \in Stored : ChildOf(c, p)
      BY <3>1, <3>2 DEF Shape, Grown, Attached
    <3>4. p = place
      BY <2>1, <3>2, <3>3 DEF Shape, OneParent, ChildOf
    <3> QED
      BY <1>1, <3>3, <3>4
  <2>2. raiz'[place] # NULL
    BY <1>1
  <2> QED
    BY <1>2, <2>1, <2>2 DEF BareChildren, ChildOf
<1>7. HalfReplaced'
  <2>1. task.key # FREED
    BY TreeRaceAssumption DEF TreeInv, TreeTypeOK
  <2>2. \A n \in Stored' : raiz'[n].key = FREED => raiz'[n].value \notin Values
    BY <1>1, <2>1 DEF Shape, HalfReplaced
  <2> QED
    BY <1>2, <2>2 DEF HalfReplaced, Replacing
<1> QED
  BY <1>3, <1>4, <1>5, <1>6, <1>7 DEF Shape

\* What the creation of a child leaves: the new node is nobody else's child.
LEMMA NewNodeFacts ==
  ASSUME TreeInv, Shape, LinkLeft \/ LinkRight
  PROVE  /\ used + 1 \in Nodes /\ used + 1 \notin 1..used /\ used' = used + 1
         /\ depth' \in [Nodes -> Nat] /\ depth'[used + 1] = depth[place] + 1
         /\ \A n \in Nodes \ {used + 1} : depth'[n] = depth[n]
         /\ raiz' = raiz /\ Stored' = Stored /\ used + 1 \notin Stored
         /\ raiz[used + 1] = NULL /\ place # used + 1
         /\ \A n \in Nodes : ~ChildOf(used + 1, n)
         /\ \A n \in Nodes : ~ChildOf(n, used + 1)
<1> USE NodeFacts
<1>1. used + 1 \in Nodes /\ used + 1 \notin 1..used
  <2>1. used + 1 <= 2 * writes + 1
    BY DEF TreeInv, TreeTypeOK, Room, ToCreate, LinkLeft, LinkRight
  <2>2. writes \in 0..MaxWrites /\ MaxWrites \in Nat
    BY TreeRaceAssumption DEF TreeInv, TreeTypeOK
  <2> QED
    BY <2>1, <2>2 DEF Nodes, MaxNodes
<1>2. /\ used' = used + 1 /\ depth' = [depth EXCEPT ![used + 1] = depth[place] + 1]
      /\ raiz' = raiz
  BY DEF LinkLeft, LinkRight, NewNode
<1>3. depth \in [Nodes -> Nat] /\ place \in 1..used
  BY DEF TreeInv, TreeTypeOK
<1>4. /\ raiz[used + 1] = NULL /\ esquerda[used + 1] = NULL /\ direita[used + 1] = NULL
  BY <1>1 DEF Shape, Unused
<1>5. /\ depth' \in [Nodes -> Nat] /\ depth'[used + 1] = depth[place] + 1
      /\ \A n \in Nodes \ {used + 1} : depth'[n] = depth[n]
  BY <1>1, <1>2, <1>3
<1>6. \A n \in Nodes : ~ChildOf(used + 1, n) /\ ~ChildOf(n, used + 1)
  BY <1>1, <1>4 DEF ChildOf
<1> QED
  BY <1>1, <1>2, <1>3, <1>4, <1>5, <1>6 DEF Stored

LEMMA LinkLeftStores ==
  ASSUME TreeInv, Shape, LinkLeft
  PROVE  /\ direita' = direita /\ place' = place /\ wpc' = "right"
         /\ \A n \in Nodes : esquerda'[n] = IF n = place THEN used + 1 ELSE esquerda[n]
BY DEF LinkLeft, TreeInv, TreeTypeOK

LEMMA LinkRightStores ==
  ASSUME TreeInv, Shape, LinkRight
  PROVE  /\ esquerda' = esquerda /\ place' = place /\ wpc' = "idle"
         /\ \A n \in Nodes : direita'[n] = IF n = place THEN used + 1 ELSE direita[n]
BY DEF LinkRight, TreeInv, TreeTypeOK

\* A node keeps its parents but for the child the writer replaces.
LinkedAnew(below, below1) ==
    \A n \in Nodes : below1[n] = IF n = place THEN used + 1 ELSE below[n]

LEMMA ChildCreated ==
  ASSUME TreeInv, Shape, LinkLeft \/ LinkRight,
         \/ direita' = direita /\ LinkedAnew(esquerda, esquerda')
         \/ esquerda' = esquerda /\ LinkedAnew(direita, direita')
  PROVE  \A n, c \in Nodes : ChildOf(c, n)' =>
            \/ ChildOf(c, n) /\ c # used + 1 /\ n # used + 1
            \/ c = used + 1 /\ n = place
<1>1. ASSUME NEW n \in Nodes, NEW c \in Nodes, ChildOf(c, n)'
      PROVE  \/ ChildOf(c, n) /\ c # used + 1 /\ n # used + 1
             \/ c = used + 1 /\ n = place
  <2>1. ChildOf(c, n) \/ (c = used + 1 /\ n = place)
    BY <1>1 DEF LinkedAnew, ChildOf
  <2>2. ChildOf(c, n) => c # used + 1 /\ n # used + 1
    BY NewNodeFacts
  <2> QED
    BY <2>1, <2>2
<1> QED
  BY <1>1

LEMMA ChildCreatedEither ==
  ASSUME TreeInv, Shape, LinkLeft \/ LinkRight
  PROVE  \/ direita' = direita /\ LinkedAnew(esquerda, esquerda')
         \/ esquerda' = esquerda /\ LinkedAnew(direita, direita')
BY LinkLeftStores, LinkRightStores DEF LinkedAnew

LEMMA LinkChildKeepsShape ==
  ASSUME TreeInv, Shape, LinkLeft \/ LinkRight
  PROVE  Shape'
<1> USE NodeFacts
<1>1. /\ used + 1 \in Nodes /\ used' = used + 1 /\ used + 1 \notin 1..used
      /\ depth'[used + 1] = depth[place] + 1
      /\ \A n \in Nodes \ {used + 1} : depth'[n] = depth[n]
      /\ raiz' = raiz /\ Stored' = Stored /\ used + 1 \notin Stored
      /\ raiz[used + 1] = NULL /\ place # used + 1
      /\ \A n \in Nodes : ~ChildOf(used + 1, n)
      /\ \A n \in Nodes : ~ChildOf(n, used + 1)
  BY NewNodeFacts
<1>2. \A n, c \in Nodes : ChildOf(c, n)' =>
         \/ ChildOf(c, n) /\ c # used + 1 /\ n # used + 1
         \/ c = used + 1 /\ n = place
  BY ChildCreated, ChildCreatedEither
<1>3. /\ task' = task /\ place' = place
      /\ \/ LinkLeft /\ wpc = "left" /\ wpc' = "right"
         \/ LinkRight /\ wpc = "right" /\ wpc' = "idle"
  BY DEF LinkLeft, LinkRight
<1>4. Levels'
  <2>1. \A n \in Nodes : depth[n] \in 1..used
    BY DEF Shape, Levels
  <2>2. \A n \in Nodes : depth'[n] \in 1..used'
    BY <1>1, <2>1
  <2>3. depth'[Root] = 1
    BY <1>1 DEF Shape, Levels
  <2>4. ASSUME NEW n \in Nodes, NEW c \in Nodes, ChildOf(c, n)'
        PROVE  depth'[c] = depth'[n] + 1 /\ c # Root
    <3>1. CASE ChildOf(c, n) /\ c # used + 1 /\ n # used + 1
      BY <1>1, <3>1 DEF Shape, Levels
    <3>2. CASE c = used + 1 /\ n = place
      BY <1>1, <3>2
    <3> QED
      BY <1>2, <2>4, <3>1, <3>2
  <2> QED
    BY <2>2, <2>3, <2>4 DEF Levels
<1>5. OneParent'
  <2>1. CASE direita' = direita /\ LinkedAnew(esquerda, esquerda')
    BY <1>1, <2>1 DEF Shape, OneParent, LinkedAnew, ChildOf
  <2>2. CASE esquerda' = esquerda /\ LinkedAnew(direita, direita')
    BY <1>1, <2>2 DEF Shape, OneParent, LinkedAnew, ChildOf
  <2> QED
    BY <2>1, <2>2, ChildCreatedEither
<1>6. Grown'
  <2>1. ASSUME NEW n \in Stored PROVE Attached(n)'
    <3>1. CASE n = Root
      BY <3>1 DEF Attached
    <3>2. CASE n # Root
      <4>1. PICK p \in Stored : ChildOf(n, p)
        BY <3>2 DEF Shape, Grown, Attached
      <4>2. /\ ~(p = place /\ n = direita[place])
            /\ ~(p = place /\ n = esquerda[place] /\ LinkLeft)
        <5>1. direita[place] \notin Stored /\ (LinkLeft => esquerda[place] \notin Stored)
          BY DEF Shape, BareChildren, LinkLeft, LinkRight
        <5> QED
          BY <5>1
      <4>3. ChildOf(n, p)'
        <5>1. CASE LinkLeft
          BY <4>1, <4>2, <5>1, LinkLeftStores DEF ChildOf
        <5>2. CASE LinkRight
          BY <4>1, <4>2, <5>2, LinkRightStores DEF ChildOf
        <5> QED
          BY <5>1, <5>2
      <4> QED
        BY <1>1, <4>3 DEF Attached
    <3> QED
      BY <3>1, <3>2
  <2> QED
    BY <1>1, <1>3, <2>1 DEF Shape, Grown
<1>7. Unused'
  <2>1. ASSUME NEW n \in Nodes, n > used'
        PROVE  raiz'[n] = NULL /\ esquerda'[n] = NULL /\ direita'[n] = NULL
    <3>1. n > used /\ n # place
      <4>1. place <= used
        BY DEF TreeInv, TreeTypeOK
      <4> QED
        BY <1>1, <2>1, <4>1
    <3> QED
      BY <1>1, <3>1, ChildCreatedEither DEF Shape, Unused, LinkedAnew
  <2> QED
    BY <2>1 DEF Unused
<1>8. BareChildren'
  <2>1. CASE LinkLeft
    BY <1>1, <1>3, <2>1, LinkLeftStores DEF Shape, BareChildren
  <2>2. CASE LinkRight
    BY <1>3, <2>2, LinkRightStores DEF BareChildren
  <2> QED
    BY <2>1, <2>2
<1>9. HalfReplaced'
  BY <1>1, <1>3 DEF Shape, HalfReplaced, Replacing
<1> QED
  BY <1>4, <1>5, <1>6, <1>7, <1>8, <1>9 DEF Shape

LEMMA DeleteKeepsShape ==
  ASSUME TreeInv, Shape, NEW k \in Keys, Delete(k)
  PROVE  Shape' /\ Stored = {Root} /\ Stored' = {}
<1> USE NodeFacts
<1>1. /\ esquerda' = esquerda /\ direita' = direita /\ depth' = depth /\ used' = used
      /\ wpc' = wpc /\ wpc = "idle" /\ Stored = {Root}
      /\ raiz' = [raiz EXCEPT ![Root] = NULL]
  BY DEF Delete
<1>2. \A n \in Nodes : raiz'[n] = NULL
  BY <1>1 DEF TreeInv, TreeTypeOK, Stored
<1>3. Stored' = {}
  BY <1>2 DEF Stored
<1>4. Levels' /\ OneParent' /\ Unused'
  BY <1>1, <1>2 DEF Shape, Levels, OneParent, Unused, ChildOf
<1>5. Grown' /\ BareChildren' /\ HalfReplaced'
  BY <1>1, <1>3 DEF Grown, BareChildren, HalfReplaced, Replacing
<1> QED
  BY <1>1, <1>3, <1>4, <1>5 DEF Shape

\* entry_replace stores into an entry that stays where it is.
ReplaceStep == FreeBytes \/ ClearData \/ FreeData \/ FreeKey \/ StoreKey \/ StoreValue

EntryChanged ==
    /\ esquerda' = esquerda /\ direita' = direita /\ depth' = depth /\ used' = used
    /\ place' = place /\ task' = task /\ raiz[place] # NULL
    /\ \/ wpc = "search" /\ wpc' = "cleardata" /\ EntryStored("value", DANGLING, "key")
          /\ raiz[place].key = task.key
       \/ wpc = "cleardata" /\ wpc' = "freedata" /\ EntryStored("value", EMPTY, "key")
       \/ wpc = "freedata" /\ wpc' = "freekey" /\ EntryStored("value", FREED, "key")
       \/ wpc = "freekey" /\ wpc' = "storekey" /\ EntryStored("key", FREED, "value")
       \/ wpc = "storekey" /\ wpc' = "storevalue" /\ EntryStored("key", task.key, "value")
       \/ wpc = "storevalue" /\ wpc' = "idle" /\ EntryStored("value", task.value, "key")

LEMMA ReplaceStores ==
  ASSUME TreeInv, ReplaceStep
  PROVE  EntryChanged /\ Stores /\ deleted' = deleted
<1>1. /\ TreeTypeOK /\ (Replacing => raiz[place] # NULL)
      /\ {FREED, DANGLING, EMPTY, task.value} \subseteq DataStates
      /\ {FREED, task.key} \subseteq KeyStates
  BY DEF TreeInv, TreeTypeOK, FreedOnlyHere, KeyStates, DataStates
<1>2. CASE FreeBytes
  <2>1. EntryStored("value", DANGLING, "key")
    BY <1>1, <1>2, ValueStored DEF FreeBytes, Replaces, Replacing
  <2> QED
    BY <1>1, <1>2, <2>1 DEF FreeBytes, Replaces, EntryChanged, Replacing
<1>3. CASE ClearData
  <2>1. EntryStored("value", EMPTY, "key")
    BY <1>1, <1>3, ValueStored DEF ClearData, Replaces, Replacing
  <2> QED
    BY <1>1, <1>3, <2>1 DEF ClearData, Replaces, EntryChanged, Replacing
<1>4. CASE FreeData
  <2>1. EntryStored("value", FREED, "key")
    BY <1>1, <1>4, ValueStored DEF FreeData, Replaces, Replacing
  <2> QED
    BY <1>1, <1>4, <2>1 DEF FreeData, Replaces, EntryChanged, Replacing
<1>5. CASE FreeKey
  <2>1. EntryStored("key", FREED, "value")
    BY <1>1, <1>5, KeyStored DEF FreeKey, Replaces, Replacing
  <2> QED
    BY <1>1, <1>5, <2>1 DEF FreeKey, Replaces, EntryChanged, Replacing
<1>6. CASE StoreKey
  <2>1. EntryStored("key", task.key, "value")
    BY <1>1, <1>6, KeyStored DEF StoreKey, Replaces, Replacing
  <2> QED
    BY <1>1, <1>6, <2>1 DEF StoreKey, Replaces, EntryChanged, Replacing
<1>7. CASE StoreValue
  <2>1. EntryStored("value", task.value, "key")
    BY <1>1, <1>7, ValueStored DEF StoreValue, Replaces, Replacing
  <2> QED
    BY <1>1, <1>7, <2>1 DEF StoreValue, Replaces, EntryChanged, Replacing
<1> QED
  BY <1>2, <1>3, <1>4, <1>5, <1>6, <1>7 DEF ReplaceStep

LEMMA EntryChangedStored ==
  ASSUME TreeInv, EntryChanged
  PROVE  Stored' = Stored
BY NodeFacts DEF EntryChanged, EntryStored, Stored

LEMMA ReplaceKeepsShape ==
  ASSUME TreeInv, Shape, ReplaceStep
  PROVE  Shape'
<1> USE NodeFacts
<1>1. EntryChanged /\ Stored' = Stored
  BY ReplaceStores, EntryChangedStored
<1>2. /\ esquerda' = esquerda /\ direita' = direita /\ depth' = depth /\ used' = used
      /\ wpc' \notin {"search", "left", "right"} /\ place' = place /\ task' = task
      /\ raiz'[place] # NULL
      /\ \A n \in Nodes \ {place} : raiz'[n] = raiz[n]
  BY <1>1 DEF EntryChanged, EntryStored
<1>3. Levels' /\ OneParent' /\ Grown' /\ BareChildren'
  BY <1>1, <1>2 DEF Shape, Levels, OneParent, Grown, BareChildren, Attached, ChildOf
<1>4. Unused'
  <2>1. place <= used
    BY DEF TreeInv, TreeTypeOK
  <2> QED
    BY <1>2, <2>1 DEF Shape, Unused
<1>5. HalfReplaced'
  <2>1. /\ task.key # FREED /\ {FREED, DANGLING, EMPTY} \cap Values = {} /\ place \in Stored
    BY <1>1, TreeRaceAssumption DEF TreeInv, TreeTypeOK, EntryChanged, Stored
  <2>2. \A n \in Stored : raiz[n].key = FREED => n = place /\ wpc = "storekey"
    BY DEF TreeInv, FreedOnlyHere, Stored
  <2>3. CASE wpc = "search" /\ wpc' = "cleardata" /\ EntryStored("value", DANGLING, "key")
             /\ raiz[place].key = task.key
    BY <1>1, <1>2, <2>1, <2>2, <2>3 DEF Shape, HalfReplaced, Replacing, EntryStored
  <2>4. CASE wpc = "cleardata" /\ wpc' = "freedata" /\ EntryStored("value", EMPTY, "key")
    BY <1>1, <1>2, <2>1, <2>2, <2>4 DEF Shape, HalfReplaced, Replacing, EntryStored
  <2>5. CASE wpc = "freedata" /\ wpc' = "freekey" /\ EntryStored("value", FREED, "key")
    BY <1>1, <1>2, <2>1, <2>2, <2>5 DEF Shape, HalfReplaced, Replacing, EntryStored
  <2>6. CASE wpc = "freekey" /\ wpc' = "storekey" /\ EntryStored("key", FREED, "value")
    BY <1>1, <1>2, <2>1, <2>2, <2>6 DEF Shape, HalfReplaced, Replacing, EntryStored
  <2>7. CASE wpc = "storekey" /\ wpc' = "storevalue" /\ EntryStored("key", task.key, "value")
    BY <1>1, <1>2, <2>1, <2>2, <2>7 DEF Shape, HalfReplaced, Replacing, EntryStored
  <2>8. CASE wpc = "storevalue" /\ wpc' = "idle" /\ EntryStored("value", task.value, "key")
    BY <1>1, <1>2, <2>1, <2>2, <2>8 DEF Shape, HalfReplaced, Replacing, EntryStored
  <2> QED
    BY <1>1, <2>3, <2>4, <2>5, <2>6, <2>7, <2>8 DEF EntryChanged
<1> QED
  BY <1>3, <1>4, <1>5 DEF Shape

LEMMA WriterKeepsShape ==
  ASSUME TreeInv, Shape, WriterStep
  PROVE  Shape'
BY BeginPutKeepsShape, SearchKeepsShape, LinkEntryKeepsShape, LinkChildKeepsShape,
   DeleteKeepsShape, ReplaceKeepsShape DEF WriterStep, Writer, ReplaceStep

LEMMA SameShape ==
  ASSUME Shape, UNCHANGED <<nodes, writer>>
  PROVE  Shape'
BY DEF nodes, writer, Shape, Levels, OneParent, Grown, Unused, BareChildren, HalfReplaced,
       Replacing, Stored, Attached, ChildOf

-----------------------------------------------------------------------------
(* Numbers.                                                                *)

LEMMA LeastExists ==
  ASSUME NEW S \in SUBSET Nat, S # {}
  PROVE  \E n \in S : \A m \in S : n <= m
<1> DEFINE Less == {p \in Nat \X Nat : p[1] < p[2]}
<1>1. IsWellFoundedOn(Less, Nat)
  BY NatLessThanWellFounded, Zenon DEF OpToRel
<1>2. PICK n \in S : \A m \in S : ~(<<m, n>> \in Less)
  BY <1>1, WFMin
<1>3. ASSUME NEW m \in S PROVE n <= m
  <2>1. m \in Nat /\ n \in Nat /\ ~(<<m, n>> \in Less)
    BY <1>2
  <2> QED
    BY <2>1
<1> QED
  BY <1>3

LEMMA MaxFacts ==
  ASSUME NEW S \in SUBSET Nat, S # {}, NEW b \in Nat, \A x \in S : x <= b
  PROVE  Max(S) \in S /\ \A x \in S : x <= Max(S)
<1> DEFINE Gaps == {b - x : x \in S}
<1>1. Gaps \in SUBSET Nat /\ Gaps # {}
  <2>1. \A x \in S : x \in Nat /\ x <= b /\ b - x \in Nat
    OBVIOUS
  <2> QED
    BY <2>1
<1>2. PICK g \in Gaps : \A h \in Gaps : g <= h
  BY <1>1, LeastExists
<1>3. PICK m \in S : g = b - m
  OBVIOUS
<1>4. ASSUME NEW x \in S PROVE m >= x
  <2>1. b - x \in Gaps
    OBVIOUS
  <2>2. b - m <= b - x
    BY <1>2, <1>3, <2>1
  <2>3. x \in Nat /\ m \in Nat
    OBVIOUS
  <2> QED
    BY <2>2, <2>3
<1>5. Max(S) \in S /\ \A x \in S : Max(S) >= x
  BY <1>4 DEF Max
<1>6. \A x \in S : x \in Nat
  OBVIOUS
<1> QED
  BY <1>5, <1>6

\* The height of the entries in S when they are as deep as d says.
Tall(S, d) == Max({d[n] : n \in S} \cup {0})

LEMMA TallFacts ==
  ASSUME NEW S, NEW d, NEW b \in Nat, \A n \in S : d[n] \in 1..b
  PROVE  /\ Tall(S, d) \in Nat
         /\ \A n \in S : d[n] <= Tall(S, d)
         /\ Tall(S, d) = 0 \/ \E n \in S : d[n] = Tall(S, d)
<1> DEFINE D == {d[n] : n \in S} \cup {0}
<1>1. D \in SUBSET Nat /\ D # {} /\ \A x \in D : x <= b
  OBVIOUS
<1>2. Max(D) \in D /\ \A x \in D : x <= Max(D)
  BY <1>1, MaxFacts
<1> QED
  BY <1>1, <1>2 DEF Tall

LEMMA TallOfNothing ==
  ASSUME NEW d
  PROVE  Tall({}, d) = 0
<1>1. \A n \in {} : d[n] \in 1..0
  OBVIOUS
<1> QED
  BY <1>1, TallFacts

\* One entry more, at most one level below the others.
LEMMA TallGrows ==
  ASSUME NEW S, NEW x, NEW d, NEW b \in Nat, \A n \in S \cup {x} : d[n] \in 1..b,
         d[x] <= Tall(S, d) + 1
  PROVE  Tall(S \cup {x}, d) \in {Tall(S, d), Tall(S, d) + 1}
<1> DEFINE s == Tall(S, d)
           t == Tall(S \cup {x}, d)
<1>1. /\ s \in Nat /\ \A n \in S : d[n] <= s
      /\ s = 0 \/ \E n \in S : d[n] = s
  BY TallFacts
<1>2. /\ t \in Nat /\ \A n \in S \cup {x} : d[n] <= t
      /\ t = 0 \/ \E n \in S \cup {x} : d[n] = t
  BY TallFacts
<1> HIDE DEF s, t
<1>3. s <= t
  BY <1>1, <1>2
<1>4. t <= s + 1
  BY <1>1, <1>2 DEF s
<1> QED
  BY <1>1, <1>2, <1>3, <1>4 DEF s, t

\* A set of numbers without gaps.
NoGaps(P) ==
    /\ P \subseteq Nat
    /\ \A a, b \in P : \A c \in Nat : a <= c /\ c <= b => c \in P

LEMMA NoGapsGrows ==
  ASSUME NEW P, NoGaps(P), NEW a \in P, NEW b \in Nat, b = a \/ b = a + 1 \/ a = b + 1
  PROVE  NoGaps(P \cup {b})
<1>1. P \subseteq Nat /\ a \in Nat
  BY DEF NoGaps
<1>2. ASSUME NEW x \in P \cup {b}, NEW y \in P \cup {b}, NEW c \in Nat, x <= c, c <= y
      PROVE  c \in P \cup {b}
  <2>1. CASE x = b /\ y = b
    BY <1>2, <2>1
  <2>2. CASE x \in P /\ y \in P
    BY <1>2, <2>2 DEF NoGaps
  <2>3. CASE x \in P /\ y = b
    <3>1. CASE c <= a
      BY <1>1, <1>2, <2>3, <3>1 DEF NoGaps
    <3>2. CASE c > a
      BY <1>1, <1>2, <2>3, <3>2
    <3> QED
      BY <1>1, <3>1, <3>2
  <2>4. CASE x = b /\ y \in P
    <3>1. CASE a <= c
      BY <1>1, <1>2, <2>4, <3>1 DEF NoGaps
    <3>2. CASE c < a
      BY <1>1, <1>2, <2>4, <3>2
    <3> QED
      BY <1>1, <3>1, <3>2
  <2> QED
    BY <2>1, <2>2, <2>3, <2>4
<1> QED
  BY <1>1, <1>2 DEF NoGaps

-----------------------------------------------------------------------------
(* The right answer to tree_size and tree_height, and how a store moves it. *)

Number == IF read.op = "size" THEN Cardinality(Stored) ELSE Tall(Stored, depth)

\* What the root alone tells of a get's right answer.
RootAnswers ==
    IF raiz[Root] = NULL \/ raiz[Root].key \notin {read.key, FREED} THEN {NoData}
    ELSE {raiz[Root].value} \cap Values

\* What is used of Answer here; the map below gives it.
AnswersAgree ==
    /\ read \in Counts => Answer = Number
    /\ read \in Gets => RootAnswers \subseteq {Answer}

LEMMA StoredFinite ==
  ASSUME TreeInv
  PROVE  IsFiniteSet(Nodes) /\ IsFiniteSet(Stored) /\ \A S \in SUBSET Nodes : IsFiniteSet(S)
<1>1. MaxNodes \in Nat /\ Stored \subseteq Nodes
  BY NodeFacts
<1>2. IsFiniteSet(Nodes)
  BY <1>1, FS_Interval DEF Nodes
<1> QED
  BY <1>1, <1>2, FS_Subset

LEMMA HeightFacts ==
  ASSUME TreeInv, Shape
  PROVE  /\ Tall(Stored, depth) \in Nat
         /\ \A n \in Stored : depth[n] <= Tall(Stored, depth)
         /\ Tall(Stored, depth) = 0 \/ \E n \in Stored : depth[n] = Tall(Stored, depth)
<1>1. used \in Nat /\ \A n \in Stored : depth[n] \in 1..used
  BY NodeFacts DEF Shape, Levels
<1> QED
  BY <1>1, TallFacts

LEMMA NumberType ==
  ASSUME TreeInv, Shape
  PROVE  Number \in Nat
BY HeightFacts, StoredFinite, FS_CardinalityType DEF Number

LEMMA LinkEntryMovesNumber ==
  ASSUME TreeInv, Shape, LinkEntry, read' = read
  PROVE  Number' = Number \/ Number' = Number + 1
<1>1. Stored' = Stored \cup {place} /\ place \notin Stored /\ Attached(place) /\ depth' = depth
  BY LinkEntryStores DEF LinkEntry
<1>2. CASE read.op = "size"
  <2>1. Cardinality(Stored \cup {place}) = Cardinality(Stored) + 1
    BY <1>1, StoredFinite, FS_AddElement
  <2> QED
    BY <1>1, <1>2, <2>1 DEF Number
<1>3. CASE read.op # "size"
  <2>1. used \in Nat /\ \A n \in Stored \cup {place} : depth[n] \in 1..used
    BY NodeFacts DEF Shape, Levels
  <2>2. depth[place] <= Tall(Stored, depth) + 1
    <3>1. CASE place = Root
      BY <3>1, HeightFacts DEF Shape, Levels
    <3>2. ASSUME NEW p \in Stored, ChildOf(place, p)
          PROVE  depth[place] <= Tall(Stored, depth) + 1
      <4>1. p \in Nodes /\ place \in Nodes
        BY NodeFacts
      <4>2. depth[place] = depth[p] + 1 /\ depth[p] \in Nat
        BY <3>2, <4>1, NodeFacts DEF Shape, Levels
      <4>3. depth[p] <= Tall(Stored, depth) /\ Tall(Stored, depth) \in Nat
        BY HeightFacts
      <4> QED
        BY <4>2, <4>3
    <3> QED
      BY <1>1, <3>1, <3>2 DEF Attached
  <2>3. Tall(Stored \cup {place}, depth) \in {Tall(Stored, depth), Tall(Stored, depth) + 1}
    BY <2>1, <2>2, TallGrows
  <2> QED
    BY <1>1, <1>3, <2>3 DEF Number
<1> QED
  BY <1>2, <1>3

LEMMA DeleteMovesNumber ==
  ASSUME TreeInv, Shape, NEW k \in Keys, Delete(k), read' = read
  PROVE  Number = 1 /\ Number' = 0
<1>1. Stored = {Root} /\ Stored' = {} /\ depth' = depth /\ depth[Root] = 1
  BY DeleteKeepsShape DEF Delete, Shape, Levels
<1>2. Cardinality({}) = 0 /\ Cardinality({Root}) = 1
  BY FS_EmptySet, FS_Singleton
<1>3. Tall({}, depth) = 0
  BY TallOfNothing
<1>4. Tall({Root}, depth) = 1
  <2>1. \A n \in {Root} : depth[n] \in 1..1
    BY <1>1
  <2>2. /\ Tall({Root}, depth) = 0 \/ \E n \in {Root} : depth[n] = Tall({Root}, depth)
        /\ \A n \in {Root} : depth[n] <= Tall({Root}, depth)
    BY <2>1, TallFacts
  <2> QED
    BY <1>1, <2>2
<1> QED
  BY <1>1, <1>2, <1>3, <1>4 DEF Number

\* The other steps of the writer leave it where it is.
LEMMA NumberStays ==
  ASSUME TreeInv, Shape, read' = read, Stored' = Stored,
         \A n \in Stored : depth'[n] = depth[n]
  PROVE  Number' = Number
<1>1. {depth'[n] : n \in Stored} = {depth[n] : n \in Stored}
  OBVIOUS
<1> QED
  BY <1>1 DEF Number, Tall

LEMMA OtherStepsKeepNumber ==
  ASSUME TreeInv, Shape, read' = read,
         \/ \E k \in Keys, v \in Values : BeginPut(k, v)
         \/ Search \/ LinkLeft \/ LinkRight \/ ReplaceStep
  PROVE  Number' = Number /\ Stored' = Stored
<1>1. CASE \E k \in Keys, v \in Values : BeginPut(k, v)
  BY <1>1, NumberStays DEF BeginPut, nodes, Stored
<1>2. CASE Search
  BY <1>2, NumberStays DEF Search, nodes, Stored
<1>3. CASE LinkLeft \/ LinkRight
  <2>1. Stored' = Stored /\ \A n \in Stored : n \in Nodes /\ n # used + 1
    BY <1>3, NewNodeFacts, NodeFacts
  <2>2. \A n \in Nodes \ {used + 1} : depth'[n] = depth[n]
    BY <1>3, NewNodeFacts
  <2> QED
    BY <2>1, <2>2, NumberStays
<1>4. CASE ReplaceStep
  <2>1. Stored' = Stored /\ depth' = depth
    BY <1>4, ReplaceStores, EntryChangedStored DEF EntryChanged
  <2> QED
    BY <2>1, NumberStays
<1> QED
  BY <1>1, <1>2, <1>3, <1>4


-----------------------------------------------------------------------------
(* The tour of a reader that counts: V is what it has counted, S what was  *)
(* stored when it began.                                                   *)

Counting == rpc = "reading" /\ read \in Counts

Tallied(V) ==
    /\ read.op = "size" => result = Cardinality(V)
    /\ read.op = "height" => \A n \in V : depth[n] <= result

\* A node is counted after its parent.
Covered(V) ==
    /\ V \subseteq Stored \cup {Root}
    /\ \A c \in V, p \in Nodes : ChildOf(c, p) => p \in V

\* The node called for was not counted, and no other call leads to it.
Fresh(V) ==
    Top.stage = "raiz" =>
        /\ Top.node \notin V
        /\ Top.node # NULL =>
            /\ \A p \in Nodes : ChildOf(Top.node, p) => p \in V
            /\ \A i \in 2..Len(frames) : direita[frames[i].node] # Top.node

\* The other calls are for different nodes, whose children are to come.
Pending(V) ==
    \A i \in 1..Len(frames) : frames[i].stage # "raiz" =>
        /\ frames[i].node \in V /\ direita[frames[i].node] \notin V
        /\ frames[i].stage = "esquerda" => esquerda[frames[i].node] \notin V
        /\ \A j \in 1..Len(frames) : j # i => frames[j].node # frames[i].node

Placed ==
    \A i \in 1..Len(frames) : frames[i].node # NULL =>
        frames[i].depth = depth[frames[i].node] /\ frames[i].node \in 1..used

Tour(V) == Tallied(V) /\ Covered(V) /\ Fresh(V) /\ Pending(V) /\ Placed

\* A call is there that leads to c, ...
DueIn(i, c) ==
    \/ frames[i].stage = "esquerda" /\ ChildOf(c, frames[i].node)
    \/ frames[i].stage = "direita" /\ c = direita[frames[i].node]

Due(c) ==
    \/ Top.stage = "raiz" /\ c = Top.node
    \/ \E i \in 1..Len(frames) : DueIn(i, c)

\* ... and to every entry of S whose parent was counted.
Reached(V, S) ==
    \A c \in S : (c = Root \/ \E p \in V : ChildOf(c, p)) => c \in V \/ Due(c)

\* Counting S would be enough.
Enough(S) ==
    \E m \in possible :
        IF read.op = "size" THEN m <= Cardinality(S) ELSE m = 0 \/ \E n \in S : m <= depth[n]

Begun(V, S) ==
    /\ ~deleted /\ S \subseteq Stored
    /\ Enough(S)
    /\ \A n \in S : n = Root \/ \E p \in S : ChildOf(n, p)
    /\ Reached(V, S)

Lower(V, S) == (deleted /\ 0 \in possible) \/ Begun(V, S)

Between ==
    /\ Number \in possible /\ NoGaps(possible)
    /\ result \in Nat
    /\ \E m \in possible : result <= m

CountInv ==
    Counting => Between /\ \E V, S \in SUBSET Nodes : Tour(V) /\ Lower(V, S)

-----------------------------------------------------------------------------
(* The writer and the tour.                                                *)

\* No store links an old node anew, or unlinks an entry that is linked.
LinksKept ==
    /\ used' \in Nat /\ used <= used'
    /\ \A n \in 1..used : depth'[n] = depth[n]
    /\ \A n \in Nodes, c \in 1..used :
        (esquerda'[n] = c => esquerda[n] = c) /\ (direita'[n] = c => direita[n] = c)
    /\ \A n \in Nodes, c \in Stored :
        (esquerda[n] = c => esquerda'[n] = c) /\ (direita[n] = c => direita'[n] = c)

LEMMA StoredUsed ==
  ASSUME TreeInv, Shape
  PROVE  Stored \subseteq 1..used
<1>1. \A n \in Stored : n \in Nodes /\ n \in Nat /\ n >= 1 /\ ~(n > used)
  BY NodeFacts DEF Shape, Unused, Stored
<1> QED
  BY <1>1, NodeFacts

LEMMA SameLinks ==
  ASSUME TreeInv, esquerda' = esquerda, direita' = direita, depth' = depth, used' = used
  PROVE  LinksKept
BY NodeFacts DEF LinksKept

LEMMA LinkLeftKeepsLinks ==
  ASSUME TreeInv, Shape, LinkLeft
  PROVE  LinksKept
<1>1. /\ used + 1 \notin 1..used /\ used' = used + 1
      /\ \A n \in Nodes \ {used + 1} : depth'[n] = depth[n]
  BY NewNodeFacts
<1>2. used \in Nat /\ 1..used \subseteq Nodes
  BY NodeFacts
<1>3. /\ direita' = direita
      /\ \A n \in Nodes : esquerda'[n] = IF n = place THEN used + 1 ELSE esquerda[n]
  BY LinkLeftStores
<1>4. esquerda[place] \notin Stored
  BY DEF Shape, BareChildren, LinkLeft
<1>5. \A n \in 1..used : depth'[n] = depth[n]
  BY <1>1, <1>2
<1>6. \A n \in Nodes, c \in 1..used : esquerda'[n] = c => esquerda[n] = c
  BY <1>1, <1>3
<1>7. \A n \in Nodes, c \in Stored : esquerda[n] = c => esquerda'[n] = c
  BY <1>3, <1>4
<1> QED
  BY <1>1, <1>2, <1>3, <1>5, <1>6, <1>7 DEF LinksKept

LEMMA LinkRightKeepsLinks ==
  ASSUME TreeInv, Shape, LinkRight
  PROVE  LinksKept
<1>1. /\ used + 1 \notin 1..used /\ used' = used + 1
      /\ \A n \in Nodes \ {used + 1} : depth'[n] = depth[n]
  BY NewNodeFacts
<1>2. used \in Nat /\ 1..used \subseteq Nodes
  BY NodeFacts
<1>3. /\ esquerda' = esquerda
      /\ \A n \in Nodes : direita'[n] = IF n = place THEN used + 1 ELSE direita[n]
  BY LinkRightStores
<1>4. direita[place] \notin Stored
  BY DEF Shape, BareChildren, LinkRight
<1>5. \A n \in 1..used : depth'[n] = depth[n]
  BY <1>1, <1>2
<1>6. \A n \in Nodes, c \in 1..used : direita'[n] = c => direita[n] = c
  BY <1>1, <1>3
<1>7. \A n \in Nodes, c \in Stored : direita[n] = c => direita'[n] = c
  BY <1>3, <1>4
<1> QED
  BY <1>1, <1>2, <1>3, <1>5, <1>6, <1>7 DEF LinksKept

\* Only a deletion takes entries away, and it takes the last.
LEMMA WriterKeepsLinks ==
  ASSUME TreeInv, Shape, WriterStep
  PROVE  /\ LinksKept
         /\ Stored \subseteq Stored' \/ Stored = {Root}
         /\ (\E k \in Keys : Delete(k)) \/ (Stored \subseteq Stored' /\ deleted' = deleted)
<1>1. ASSUME NEW k \in Keys, Delete(k) PROVE LinksKept /\ Stored = {Root}
  BY <1>1, SameLinks DEF Delete
<1>2. ASSUME NEW k \in Keys, NEW v \in Values, BeginPut(k, v)
      PROVE  LinksKept /\ Stored' = Stored /\ deleted' = deleted
  BY <1>2, SameLinks DEF BeginPut, nodes, history, Stored
<1>3. CASE Search
  <2>1. LinksKept /\ Stored' = Stored /\ deleted' = deleted
    BY <1>3, SameLinks DEF Search, nodes, history, Stored
  <2> QED
    BY <2>1
<1>4. CASE LinkEntry
  <2>1. LinksKept /\ Stored' = Stored \cup {place} /\ deleted' = deleted
    BY <1>4, SameLinks, LinkEntryStores DEF LinkEntry
  <2> QED
    BY <2>1
<1>5. CASE LinkLeft \/ LinkRight
  <2>1. LinksKept /\ Stored' = Stored /\ deleted' = deleted
    BY <1>5, LinkLeftKeepsLinks, LinkRightKeepsLinks, NewNodeFacts DEF LinkLeft, LinkRight
  <2> QED
    BY <2>1
<1>6. CASE ReplaceStep
  <2>1. EntryChanged /\ deleted' = deleted /\ Stored' = Stored
    BY <1>6, ReplaceStores, EntryChangedStored
  <2>2. LinksKept
    BY <2>1, SameLinks DEF EntryChanged
  <2> QED
    BY <2>1, <2>2
<1> QED
  BY <1>1, <1>2, <1>3, <1>4, <1>5, <1>6 DEF WriterStep, Writer, ReplaceStep

LEMMA WriterKeepsBetween ==
  ASSUME TreeInv, Shape, ReaderInv, AnswersAgree', Counting, Between, WriterStep
  PROVE  Between' /\ possible \subseteq possible'
<1>1. read' = read /\ rpc' = rpc /\ result' = result
  BY WriterKeepsEntries DEF ReaderInv, ReaderTypeOK, reader
<1>2. Answer' = Number' /\ rpc = "reading"
  BY <1>1 DEF Counting, AnswersAgree
<1>3. Number \in possible /\ NoGaps(possible) /\ result \in Nat /\ Number \in Nat
  BY NumberType DEF Between
<1>4. CASE UNCHANGED history /\ Number' = Number
  BY <1>1, <1>3, <1>4 DEF history, Between
<1>5. ASSUME Stores, Number' \in Nat,
             Number' = Number \/ Number' = Number + 1 \/ Number = Number' + 1
      PROVE  Between' /\ possible \subseteq possible'
  <2>1. possible' = possible \cup {Number'}
    BY <1>2, <1>5 DEF Stores
  <2>2. NoGaps(possible \cup {Number'})
    BY <1>3, <1>5, NoGapsGrows
  <2>3. PICK m \in possible : result <= m
    BY DEF Between
  <2> QED
    BY <1>1, <1>3, <2>1, <2>2, <2>3 DEF Between
<1>6. CASE \/ \E k \in Keys, v \in Values : BeginPut(k, v)
           \/ Search
  BY <1>1, <1>4, <1>6, OtherStepsKeepNumber DEF BeginPut, Search
<1>7. CASE LinkLeft \/ LinkRight \/ ReplaceStep
  <2>1. Number' = Number
    BY <1>1, <1>7, OtherStepsKeepNumber
  <2>2. Stores
    BY <1>7, ReplaceStores DEF LinkLeft, LinkRight
  <2> QED
    BY <1>3, <1>5, <2>1, <2>2
<1>8. CASE LinkEntry
  <2>1. Number' = Number \/ Number' = Number + 1
    BY <1>1, <1>8, LinkEntryMovesNumber
  <2> QED
    BY <1>3, <1>5, <1>8, <2>1 DEF LinkEntry
<1>9. ASSUME NEW k \in Keys, Delete(k) PROVE Between' /\ possible \subseteq possible'
  <2>1. Number = 1 /\ Number' = 0
    BY <1>1, <1>9, DeleteMovesNumber
  <2> QED
    BY <1>5, <1>9, <2>1 DEF Delete
<1> QED
  BY <1>6, <1>7, <1>8, <1>9 DEF WriterStep, Writer, ReplaceStep

\* The calls of the reader.
LEMMA CallFacts ==
  ASSUME TreeInv, ReaderInv, rpc = "reading"
  PROVE  /\ Len(frames) \in Nat \ {0} /\ frames # <<>> /\ Top \in Frame /\ Top = frames[1]
         /\ \A i \in 1..Len(frames) : frames[i] \in Frame /\ InCall(frames[i])
         /\ \A i \in 2..Len(frames) : frames[i].stage = "direita"
         /\ \A i \in 1..Len(frames) : frames[i].node \in Nodes \cup {NULL}
         /\ \A i \in 1..Len(frames) : frames[i].stage # "raiz" => frames[i].node \in Nodes
<1>1. /\ Len(frames) \in Nat /\ frames # <<>> /\ Len(frames) > 0 /\ Top \in Frame
      /\ \A i \in 1..Len(frames) : frames[i] \in Frame
  BY FrameTypes DEF ReaderInv
<1>2. \A i \in 1..Len(frames) : InCall(frames[i]) /\ (i > 1 => frames[i].stage = "direita")
  BY DEF ReaderInv, Stack
<1>3. \A i \in 1..Len(frames) : frames[i].node \in Nodes \cup {NULL}
  BY <1>1 DEF Frame
<1> QED
  BY <1>1, <1>2, <1>3 DEF Top, InCall

LEMMA WriterKeepsTour ==
  ASSUME TreeInv, Shape, ReaderInv, Counting, WriterStep,
         NEW V \in SUBSET Nodes, Tour(V)
  PROVE  Tour(V)'
<1> USE NodeFacts
<1>1. LinksKept /\ (Stored \subseteq Stored' \/ Stored = {Root})
  BY WriterKeepsLinks
<1>2. read' = read /\ result' = result /\ frames' = frames /\ Top' = Top
  BY WriterKeepsEntries DEF ReaderInv, ReaderTypeOK, reader, Top
<1>3. V \subseteq 1..used
  BY StoredUsed DEF Tour, Covered
<1>4. /\ Len(frames) \in Nat \ {0} /\ Top = frames[1]
      /\ \A i \in 2..Len(frames) : frames[i].stage = "direita"
      /\ \A i \in 1..Len(frames) : frames[i].stage # "raiz" => frames[i].node \in Nodes
  BY CallFacts DEF Counting
<1>5. Tallied(V)'
  BY <1>1, <1>2, <1>3 DEF Tour, Tallied, LinksKept
<1>6. \A c \in 1..used, p \in Nodes : ChildOf(c, p)' => ChildOf(c, p)
  BY <1>1 DEF LinksKept, ChildOf
<1>7. Covered(V)'
  BY <1>1, <1>3, <1>6 DEF Tour, Covered
<1>8. Top.node # NULL => Top.node \in 1..used
  BY <1>4 DEF Tour, Placed
<1>9. Fresh(V)'
  <2>1. SUFFICES ASSUME Top.stage = "raiz", Top.node # NULL
        PROVE  /\ \A p \in Nodes : ChildOf(Top.node, p)' => p \in V
               /\ \A i \in 2..Len(frames) : direita'[frames[i].node] # Top.node
    BY <1>2 DEF Tour, Fresh, ChildOf
  <2>2. \A p \in Nodes : ChildOf(Top.node, p)' => p \in V
    BY <1>2, <1>6, <1>8, <2>1 DEF Tour, Fresh, ChildOf
  <2>3. \A i \in 2..Len(frames) : frames[i].node \in Nodes
    BY <1>4
  <2>4. \A i \in 2..Len(frames) : direita[frames[i].node] # Top.node
    BY <2>1 DEF Tour, Fresh
  <2> QED
    BY <1>1, <1>8, <2>1, <2>2, <2>3, <2>4 DEF LinksKept
<1>10. Pending(V)'
  <2> SUFFICES ASSUME NEW i \in 1..Len(frames), frames[i].stage # "raiz"
      PROVE  /\ frames[i].node \in V /\ direita'[frames[i].node] \notin V
             /\ frames[i].stage = "esquerda" => esquerda'[frames[i].node] \notin V
             /\ \A j \in 1..Len(frames) : j # i => frames[j].node # frames[i].node
    BY <1>2 DEF Pending
  <2>1. /\ frames[i].node \in V /\ direita[frames[i].node] \notin V
        /\ frames[i].stage = "esquerda" => esquerda[frames[i].node] \notin V
        /\ \A j \in 1..Len(frames) : j # i => frames[j].node # frames[i].node
    BY DEF Tour, Pending
  <2> QED
    BY <1>1, <1>3, <1>4, <2>1 DEF LinksKept
<1>11. Placed'
  BY <1>1, <1>2 DEF Tour, Placed, LinksKept
<1> QED
  BY <1>5, <1>7, <1>9, <1>10, <1>11 DEF Tour

LEMMA WriterKeepsLower ==
  ASSUME TreeInv, Shape, ReaderInv, AnswersAgree', Counting, Between, WriterStep,
         NEW V \in SUBSET Nodes, NEW S \in SUBSET Nodes, Tour(V), Lower(V, S)
  PROVE  Lower(V, S)'
<1> USE NodeFacts
<1>1. read' = read /\ rpc' = rpc /\ frames' = frames /\ Top' = Top
      /\ (deleted => deleted') /\ deleted' \in BOOLEAN
  BY WriterKeepsEntries DEF ReaderInv, ReaderTypeOK, reader, Top, EntriesStay
<1>2. possible \subseteq possible'
  BY WriterKeepsBetween
<1>3. CASE deleted /\ 0 \in possible
  BY <1>1, <1>2, <1>3 DEF Lower
<1>4. ASSUME NEW k \in Keys, Delete(k) PROVE Lower(V, S)'
  <2>1. Number' = 0 /\ deleted'
    BY <1>1, <1>4, DeleteMovesNumber DEF Delete, Counting
  <2>2. Answer' = 0 /\ Stores
    BY <1>1, <1>4, <2>1 DEF Counting, Delete, AnswersAgree
  <2>3. 0 \in possible'
    BY <2>2 DEF Stores, Counting
  <2> QED
    BY <2>1, <2>3 DEF Lower
<1>5. ASSUME Begun(V, S), Stored \subseteq Stored', deleted' = deleted
      PROVE  Begun(V, S)'
  <2>1. LinksKept /\ Stored \subseteq 1..used
    BY WriterKeepsLinks, StoredUsed
  <2>2. S \subseteq Stored /\ S \subseteq Stored' /\ ~deleted' /\ S \subseteq 1..used
    BY <1>5, <2>1 DEF Begun
  <2>3. Enough(S)'
    <3>1. PICK m \in possible :
            IF read.op = "size" THEN m <= Cardinality(S) ELSE m = 0 \/ \E n \in S : m <= depth[n]
      BY <1>5 DEF Begun, Enough
    <3>2. \A n \in S : depth'[n] = depth[n]
      BY <2>1, <2>2 DEF LinksKept
    <3>3. m \in possible'
      BY <1>2
    <3> QED
      BY <1>1, <3>1, <3>2, <3>3 DEF Enough
  <2>4. \A c \in S, p \in Nodes : ChildOf(c, p)' <=> ChildOf(c, p)
    BY <2>1, <2>2 DEF LinksKept, ChildOf
  <2>5. \A n \in S : n = Root \/ \E p \in S : ChildOf(n, p)'
    BY <1>5, <2>4 DEF Begun
  <2>6. ASSUME NEW c \in S, Due(c) PROVE Due(c)'
    <3>1. CASE Top.stage = "raiz" /\ c = Top.node
      BY <1>1, <3>1 DEF Due
    <3>2. ASSUME NEW i \in 1..Len(frames), DueIn(i, c) PROVE DueIn(i, c)'
      <4>1. frames[i].stage # "raiz"
        BY <3>2 DEF DueIn
      <4>2. frames[i].node \in Nodes
        BY <4>1, CallFacts DEF Counting
      <4>3. direita[frames[i].node] = c => direita'[frames[i].node] = c
        BY <2>1, <2>2, <4>2 DEF LinksKept
      <4> QED
        BY <1>1, <2>4, <3>2, <4>2, <4>3 DEF DueIn
    <3> QED
      BY <1>1, <2>6, <3>1, <3>2 DEF Due
  <2>7. Reached(V, S)'
    BY <1>5, <2>4, <2>6 DEF Begun, Reached
  <2> QED
    BY <2>2, <2>3, <2>5, <2>7 DEF Begun
<1> QED
  BY <1>3, <1>4, <1>5, WriterKeepsLinks DEF Lower

-----------------------------------------------------------------------------
(* The reader counts.                                                      *)

LEMMA LookFacts ==
  ASSUME Looks
  PROVE  /\ raiz' = raiz /\ esquerda' = esquerda /\ direita' = direita /\ depth' = depth
         /\ used' = used /\ Stored' = Stored /\ Number' = Number
         /\ read' = read /\ possible' = possible /\ deleted' = deleted
BY DEF Looks, nodes, history, Stored, Number, Tall

LEMMA LookKeepsBetween ==
  ASSUME Between, Looks, result' = result
  PROVE  Between'
BY LookFacts DEF Between

\* Only the calls of the two counting functions are there.
LEMMA CountStages ==
  ASSUME TreeInv, ReaderInv, Counting
  PROVE  \A i \in 1..Len(frames) : frames[i].stage \in {"raiz", "esquerda", "direita"}
BY CallFacts DEF Counting, Counts, InCall, Stages

LEMMA ReadBeginsTour ==
  ASSUME TreeInv, Shape, AnswersAgree', NEW r \in Counts, Read(r)
  PROVE  CountInv'
<1> USE NodeFacts
<1>1. /\ read' = r /\ rpc' = "reading" /\ result' = 0 /\ deleted' = FALSE
      /\ possible' = {Answer'} /\ UNCHANGED nodes /\ frames' = <<Call(Root, 1)>>
  BY DEF Read
<1>2. /\ raiz' = raiz /\ esquerda' = esquerda /\ direita' = direita /\ depth' = depth
      /\ used' = used /\ Stored' = Stored
  BY <1>1 DEF nodes, Stored
<1>3. /\ Len(frames') = 1 /\ frames'[1] = Call(Root, 1)
      /\ Call(Root, 1) = [node |-> Root, depth |-> 1, stage |-> "raiz"]
  BY <1>1 DEF Call
<1>4. Top' = Call(Root, 1)
  BY <1>3 DEF Top
<1>5. read.op' \in {"size", "height"} /\ possible' = {Number'}
  BY <1>1 DEF Counts, AnswersAgree
<1>6. Number' = IF read.op' = "size" THEN Cardinality(Stored) ELSE Tall(Stored, depth)
  BY <1>2 DEF Number, Tall
<1>7. Number' \in Nat
  BY <1>6, HeightFacts, StoredFinite, FS_CardinalityType
<1>8. Between'
  BY <1>1, <1>5, <1>7 DEF Between, NoGaps
<1>9. Tour({})'
  <2>1. Tallied({})'
    BY <1>1, <1>5, FS_EmptySet DEF Tallied
  <2>2. Covered({})'
    BY DEF Covered
  <2>3. Fresh({})'
    BY <1>2, <1>3, <1>4 DEF Fresh, Shape, Levels, ChildOf
  <2>4. Pending({})'
    BY <1>3 DEF Pending
  <2>5. Placed'
    BY <1>2, <1>3 DEF Placed, Shape, Levels
  <2> QED
    BY <2>1, <2>2, <2>3, <2>4, <2>5 DEF Tour
<1>10. Lower({}, Stored)'
  <2>1. Enough(Stored)'
    BY <1>2, <1>5, <1>6, <1>7, HeightFacts DEF Enough
  <2>2. \A n \in Stored : n = Root \/ \E p \in Stored : ChildOf(n, p)'
    BY <1>2 DEF Shape, Grown, Attached, ChildOf
  <2>3. Reached({}, Stored)'
    BY <1>4, <1>3 DEF Reached, Due
  <2> QED
    BY <1>1, <1>2, <2>1, <2>2, <2>3 DEF Lower, Begun
<1> QED
  BY <1>2, <1>8, <1>9, <1>10 DEF CountInv

LEMMA MaxOfTwo ==
  ASSUME NEW x \in Nat, NEW y \in Nat
  PROVE  Max({x, y}) \in {x, y} /\ x <= Max({x, y}) /\ y <= Max({x, y})
<1> DEFINE b == x + y
           T == {x, y}
<1>1. T \in SUBSET Nat /\ T # {} /\ b \in Nat /\ \A z \in T : z <= b
  OBVIOUS
<1> HIDE DEF b, T
<1>2. Max(T) \in T /\ \A z \in T : z <= Max(T)
  BY <1>1, MaxFacts
<1> QED
  BY <1>2 DEF T

LEMMA CountGoesOn ==
  ASSUME TreeInv, Shape, ReaderInv, Counting, Between, Count,
         NEW V \in SUBSET Nodes, NEW S \in SUBSET Nodes, Tour(V), Lower(V, S),
         NEW n, n = Top.node, NEW W, W = V \cup {n}
  PROVE  CountInv' /\ rpc' = "reading"
<1> DEFINE a == [Top EXCEPT !.stage = "esquerda"]
<1> USE NodeFacts
<1>1. /\ rpc = "reading" /\ Top.stage = "raiz" /\ n # NULL /\ raiz[n] # NULL /\ Looks
      /\ NextStage("esquerda")
      /\ result' = IF read.op = "size" THEN result + 1 ELSE Max({result, Top.depth})
  BY DEF Count, At
<1>2. /\ raiz' = raiz /\ esquerda' = esquerda /\ direita' = direita /\ depth' = depth
      /\ used' = used /\ Stored' = Stored /\ Number' = Number
      /\ read' = read /\ possible' = possible /\ deleted' = deleted
  BY <1>1, LookFacts
<1>3. /\ Len(frames) \in Nat \ {0} /\ frames # <<>> /\ Top \in Frame /\ Top = frames[1]
      /\ \A i \in 2..Len(frames) : frames[i].stage = "direita"
      /\ \A i \in 2..Len(frames) : frames[i].node \in Nodes
      /\ frames \in Seq(Frame)
  BY SMTT(20), CallFacts DEF Counting, ReaderInv, ReaderTypeOK
<1>4. /\ frames' = <<a>> \o Tail(frames)
      /\ a \in Frame /\ a.stage = "esquerda" /\ a.node = n /\ a.depth = Top.depth
  BY <1>1, <1>3 DEF NextStage, GoOn, Frame
<1> HIDE DEF a
<1>5. Len(frames') = Len(frames) /\ frames'[1] = a /\ Top' = a
      /\ \A i \in 2..Len(frames) : frames'[i] = frames[i]
  BY <1>3, <1>4, TopReplaced DEF Top
<1>6. /\ n \in Nodes /\ n \in Stored /\ n \notin V /\ n \in 1..used /\ Top.depth = depth[n]
      /\ \A p \in Nodes : ChildOf(n, p) => p \in V
      /\ \A i \in 2..Len(frames) : direita[frames[i].node] # n
  <2>1. n \in Nodes
    BY <1>1, <1>3 DEF Frame
  <2> QED
    BY <1>1, <1>3, <2>1 DEF Tour, Fresh, Placed, Stored
<1>7. read.op \in {"size", "height"} /\ result \in Nat /\ W \in SUBSET Nodes
  BY <1>6 DEF Counting, Counts, Between
<1>8. W \subseteq Stored
  <2>1. Root \in Stored
    BY <1>6 DEF Shape, Grown
  <2> QED
    BY <1>6, <2>1 DEF Tour, Covered
<1>9. /\ result' \in Nat /\ result' = IF read.op = "size" THEN Cardinality(W)
                         ELSE Max({result, depth[n]})
  <2>1. CASE read.op = "size"
    <3>1. Cardinality(W) = Cardinality(V) + 1
      BY <1>6, StoredFinite, FS_AddElement
    <3> QED
      BY <1>1, <1>7, <2>1, <3>1 DEF Tour, Tallied
  <2>2. CASE read.op = "height"
    <3>1. depth[n] \in Nat
      BY <1>6 DEF TreeInv, TreeTypeOK
    <3>2. Max({result, depth[n]}) \in {result, depth[n]}
      BY <1>7, <3>1, MaxOfTwo
    <3> QED
      BY <1>1, <1>6, <1>7, <2>2, <3>1, <3>2
  <2> QED
    BY <1>7, <2>1, <2>2
<1>10. read.op = "height" =>
         result' \in {result, depth[n]} /\ result <= result' /\ depth[n] <= result'
  <2>1. depth[n] \in Nat
    BY <1>6 DEF TreeInv, TreeTypeOK
  <2> QED
    BY <1>7, <1>9, <2>1, MaxOfTwo
<1>11. Between'
  <2>1. \E m \in possible : result' <= m
    <3>1. CASE read.op = "size"
      <4>1. Cardinality(W) <= Cardinality(Stored)
        BY <1>8, StoredFinite, FS_Subset
      <4> QED
        BY <1>9, <3>1, <4>1 DEF Between, Number
    <3>2. CASE read.op = "height"
      <4>1. depth[n] <= Number
        BY <1>6, <3>2, HeightFacts DEF Number
      <4> QED
        BY <1>10, <3>2, <4>1 DEF Between
    <3> QED
      BY <1>7, <3>1, <3>2
  <2> QED
    BY <1>2, <1>9, <2>1 DEF Between
<1>12. \A c \in Nodes : ChildOf(c, n) => c \notin W
  <2>1. ASSUME NEW c \in Nodes, ChildOf(c, n), c \in W PROVE FALSE
    <3>1. depth[c] = depth[n] + 1 /\ depth[n] \in Nat
      BY <1>6, <2>1 DEF Shape, Levels
    <3>2. c # n
      BY <3>1
    <3>3. c \in V
      BY <2>1, <3>2
    <3> QED
      BY <1>6, <2>1, <3>3 DEF Tour, Covered
  <2> QED
    BY <2>1
<1>13. Tour(W)'
  <2>1. Tallied(W)'
    <3>1. CASE read.op = "size"
      BY <1>2, <1>9, <3>1 DEF Tallied
    <3>2. CASE read.op = "height"
      <4>1. \A m \in V : depth[m] <= result /\ depth[m] \in Nat
        BY <3>2 DEF Tour, Tallied, TreeInv, TreeTypeOK
      <4>2. \A m \in W : depth[m] <= result'
        BY <1>7, <1>9, <1>10, <3>2, <4>1
      <4> QED
        BY <1>2, <3>2, <4>2 DEF Tallied
    <3> QED
      BY <1>7, <3>1, <3>2
  <2>2. Covered(W)'
    BY <1>2, <1>6, <1>8 DEF Tour, Covered, ChildOf
  <2>3. Fresh(W)'
    BY <1>4, <1>5 DEF Fresh
  <2>4. Pending(W)'
    <3> SUFFICES ASSUME NEW i \in 1..Len(frames)
        PROVE  /\ frames'[i].node \in W /\ direita[frames'[i].node] \notin W
               /\ frames'[i].stage = "esquerda" => esquerda[frames'[i].node] \notin W
               /\ \A j \in 1..Len(frames) : j # i => frames'[j].node # frames'[i].node
      BY <1>2, <1>5 DEF Pending
    <3>1. \A j \in 2..Len(frames) :
            /\ frames[j].node \in V /\ direita[frames[j].node] \notin V
            /\ direita[frames[j].node] # n
            /\ frames[j].node # n
            /\ \A k \in 1..Len(frames) : k # j => frames[k].node # frames[j].node
      BY SMTT(20), <1>3, <1>6 DEF Tour, Pending
    <3>2. CASE i = 1
      <4>1. direita[n] \notin W /\ esquerda[n] \notin W
        BY <1>6, <1>7, <1>12 DEF ChildOf
      <4>2. \A j \in 1..Len(frames) : j # 1 => frames'[j].node # n
        BY <1>3, <1>5, <3>1
      <4> QED
        BY <1>4, <1>5, <3>2, <4>1, <4>2
    <3>3. CASE i \in 2..Len(frames)
      <4>1. frames'[i] = frames[i] /\ frames[i].stage = "direita"
        BY <1>3, <1>5, <3>3
      <4>2. \A j \in 1..Len(frames) : j # i => frames'[j].node # frames'[i].node
        BY <1>3, <1>4, <1>5, <3>1, <3>3, <4>1
      <4> QED
        BY <3>1, <3>3, <4>1, <4>2
    <3> QED
      BY <1>3, <3>2, <3>3
  <2>5. Placed'
    <3> SUFFICES ASSUME NEW i \in 1..Len(frames), frames'[i].node # NULL
        PROVE  frames'[i].depth = depth[frames'[i].node] /\ frames'[i].node \in 1..used
      BY <1>2, <1>5 DEF Placed
    <3>1. CASE i = 1
      BY <1>4, <1>5, <1>6, <3>1
    <3>2. CASE i \in 2..Len(frames)
      BY <1>5, <3>2 DEF Tour, Placed
    <3> QED
      BY <1>3, <3>1, <3>2
  <2> QED
    BY <2>1, <2>2, <2>3, <2>4, <2>5 DEF Tour
<1>14. Lower(W, S)'
  <2>1. CASE deleted /\ 0 \in possible
    BY <1>2, <2>1 DEF Lower
  <2>2. CASE Begun(V, S)
    <3>1. Enough(S)'
      BY <1>2, <2>2 DEF Begun, Enough
    <3>2. Reached(W, S)'
      <4> SUFFICES ASSUME NEW c \in S, c = Root \/ \E p \in W : ChildOf(c, p), c \notin W
          PROVE  Due(c)'
        BY <1>2 DEF Reached, ChildOf
      <4>1. CASE ChildOf(c, n)
        <5>1. DueIn(1, c)'
          BY <1>2, <1>4, <1>5, <4>1 DEF DueIn, ChildOf
        <5> QED
          BY <1>3, <1>5, <5>1 DEF Due
      <4>2. CASE ~ChildOf(c, n)
        <5>1. Due(c)
          BY <2>2, <4>2 DEF Begun, Reached
        <5>2. PICK i \in 1..Len(frames) : DueIn(i, c)
          BY <5>1 DEF Due
        <5>3. i \in 2..Len(frames)
          BY <1>1, <1>3, <5>2 DEF DueIn
        <5>4. DueIn(i, c)'
          BY <1>2, <1>5, <5>2, <5>3 DEF DueIn, ChildOf
        <5> QED
          BY <1>5, <5>4 DEF Due
      <4> QED
        BY <4>1, <4>2
    <3> QED
      BY <1>2, <2>2, <3>1, <3>2 DEF Begun, Lower, ChildOf
  <2> QED
    BY <2>1, <2>2 DEF Lower
<1>15. rpc' = "reading"
  BY <1>1, <1>3, <1>4, TopReplaced DEF NextStage, GoOn, a
<1> QED
  BY <1>2, <1>7, <1>11, <1>13, <1>14, <1>15, Zenon DEF CountInv

\* When no call is left, everything that was there to count was counted: the
\* least deep entry that was not would have a parent that was.
LEMMA AllCounted ==
  ASSUME TreeInv, Shape, NEW V \in SUBSET Nodes, NEW S \in SUBSET Nodes,
         \A n \in S : n = Root \/ \E p \in S : ChildOf(n, p),
         \A c \in S : (c = Root \/ \E p \in V : ChildOf(c, p)) => c \in V
  PROVE  S \subseteq V
<1> DEFINE D == {depth[n] : n \in S \ V}
<1>1. \A n \in Nodes : depth[n] \in Nat
  BY DEF TreeInv, TreeTypeOK
<1>2. SUFFICES ASSUME S \ V # {} PROVE FALSE
  OBVIOUS
<1>3. D \in SUBSET Nat /\ D # {}
  BY <1>1, <1>2
<1>4. PICK d \in D : \A e \in D : d <= e
  BY <1>3, LeastExists
<1>5. PICK n \in S \ V : d = depth[n]
  BY <1>4
<1>6. PICK p \in S : ChildOf(n, p)
  BY <1>5
<1>7. depth[n] = depth[p] + 1 /\ depth[p] \in Nat
  BY <1>1, <1>5, <1>6 DEF Shape, Levels
<1>8. p \in V
  <2>1. SUFFICES ASSUME p \notin V PROVE FALSE
    OBVIOUS
  <2>2. depth[p] \in D
    BY <2>1
  <2>3. d <= depth[p]
    BY <1>4, <2>2
  <2> QED
    BY <1>5, <1>7, <2>3
<1> QED
  BY <1>5, <1>6, <1>8

\* Then the answer lies between two right ones.
LEMMA LastReturns ==
  ASSUME TreeInv, Shape, ReaderInv, Counting, Between, LookEmpty, Tail(frames) = <<>>,
         NEW V \in SUBSET Nodes, NEW S \in SUBSET Nodes, Tour(V), Lower(V, S)
  PROVE  result' \in possible' /\ rpc' = "done"
<1>1. /\ Top.stage = "raiz" /\ GoOn(Tail(frames)) /\ Looks /\ result' = result
      /\ Top.node = NULL \/ raiz[Top.node] = NULL
  BY DEF LookEmpty, At
<1>2. possible' = possible /\ rpc' = "done"
  BY <1>1, LookFacts DEF GoOn
<1>3. Len(frames) = 1 /\ Top = frames[1]
  <2>1. frames \in Seq(Frame) /\ frames # <<>> /\ Top = frames[1] /\ Len(frames) \in Nat
    BY CallFacts DEF Counting, ReaderInv, ReaderTypeOK
  <2>2. Len(Tail(frames)) = Len(frames) - 1
    BY <2>1, HeadTailProperties
  <2>3. Len(Tail(frames)) = 0
    BY EmptySeq
  <2>4. Len(frames) - 1 = 0
    BY <2>2, <2>3
  <2> QED
    BY <2>1, <2>4
<1>4. PICK m \in possible : m <= result
  <2>1. CASE deleted /\ 0 \in possible
    BY <2>1 DEF Between
  <2>2. CASE Begun(V, S)
    <3>1. ASSUME NEW c \in S, Due(c) PROVE FALSE
      <4>1. c \in Stored
        BY <2>2 DEF Begun
      <4>2. c = Top.node
        BY <1>1, <1>3, <3>1 DEF Due, DueIn
      <4>3. c \in Nodes /\ raiz[c] # NULL
        BY <4>1 DEF Stored
      <4> QED
        BY <1>1, <4>2, <4>3, NodeFacts
    <3>2. S \subseteq V
      BY <2>2, <3>1, AllCounted DEF Begun, Reached
    <3>3. CASE read.op = "size"
      <4>1. Cardinality(S) <= Cardinality(V)
        BY <3>2, StoredFinite, FS_Subset
      <4>2. PICK m \in possible : m <= Cardinality(S)
        BY <2>2, <3>3 DEF Begun, Enough
      <4>3. m \in Nat /\ Cardinality(S) \in Nat /\ Cardinality(V) \in Nat
        BY StoredFinite, FS_CardinalityType DEF Between, NoGaps
      <4>4. result = Cardinality(V)
        BY <3>3 DEF Tour, Tallied
      <4> QED
        BY <4>1, <4>2, <4>3, <4>4
    <3>4. CASE read.op = "height"
      <4>1. PICK m \in possible : m = 0 \/ \E n \in S : m <= depth[n]
        BY <2>2, <3>4 DEF Begun, Enough
      <4>2. m \in Nat /\ result \in Nat
        BY DEF Between, NoGaps
      <4>3. CASE m = 0
        BY <4>2, <4>3
      <4>4. ASSUME NEW n \in S, m <= depth[n] PROVE m <= result
        <5>1. depth[n] <= result /\ depth[n] \in Nat
          BY <3>2, <3>4 DEF Tour, Tallied, TreeInv, TreeTypeOK
        <5> QED
          BY <4>2, <4>4, <5>1
      <4> QED
        BY <4>1, <4>3, <4>4
    <3> QED
      BY <3>3, <3>4 DEF Counting, Counts
  <2> QED
    BY <2>1, <2>2 DEF Lower
<1>5. PICK k \in possible : result <= k
  BY DEF Between
<1>6. result \in possible
  BY <1>4, <1>5 DEF Between, NoGaps
<1> QED
  BY <1>1, <1>2, <1>6

LEMMA CallReturns ==
  ASSUME TreeInv, Shape, ReaderInv, Counting, Between, LookEmpty, Tail(frames) # <<>>,
         NEW V \in SUBSET Nodes, NEW S \in SUBSET Nodes, Tour(V), Lower(V, S)
  PROVE  CountInv'
<1> DEFINE t == Tail(frames)
<1>1. /\ Top.stage = "raiz" /\ GoOn(t) /\ Looks /\ result' = result
      /\ Top.node = NULL \/ raiz[Top.node] = NULL
  BY DEF LookEmpty, At
<1>2. /\ raiz' = raiz /\ esquerda' = esquerda /\ direita' = direita /\ depth' = depth
      /\ used' = used /\ Stored' = Stored
      /\ read' = read /\ possible' = possible /\ deleted' = deleted
  BY <1>1, LookFacts
<1>3. Between'
  BY <1>1, LookKeepsBetween
<1>4. /\ Len(frames) \in Nat \ {0} /\ frames # <<>> /\ Top = frames[1] /\ frames \in Seq(Frame)
      /\ \A i \in 2..Len(frames) : frames[i].stage = "direita"
  BY CallFacts DEF Counting, ReaderInv, ReaderTypeOK
<1>5. /\ frames' = t /\ Len(t) = Len(frames) - 1 /\ Len(t) \in Nat \ {0}
      /\ \A i \in 1..Len(t) : t[i] = frames[i + 1]
  <2>1. /\ t \in Seq(Frame) /\ Len(t) = Len(frames) - 1
        /\ \A i \in 1..Len(t) : t[i] = frames[i + 1]
    BY <1>4, HeadTailProperties
  <2>2. Len(t) \in Nat \ {0}
    BY <2>1, EmptySeq
  <2> QED
    BY <1>1, <2>1, <2>2 DEF GoOn
<1> HIDE DEF t
<1>6. \A i \in 1..Len(t) : i + 1 \in 2..Len(frames) /\ i + 1 \in 1..Len(frames)
  BY <1>4, <1>5
<1>7. \A i \in 1..Len(t) : frames'[i].stage = "direita"
  BY <1>4, <1>5, <1>6
<1>8. Top'.stage = "direita"
  BY <1>5, <1>7 DEF Top
<1>9. Tour(V)'
  <2>1. Tallied(V)' /\ Covered(V)'
    BY <1>1, <1>2 DEF Tour, Tallied, Covered, ChildOf
  <2>2. Fresh(V)'
    BY <1>8 DEF Fresh
  <2>3. Pending(V)'
    <3> SUFFICES ASSUME NEW i \in 1..Len(t)
        PROVE  /\ t[i].node \in V /\ direita[t[i].node] \notin V
               /\ t[i].stage # "esquerda"
               /\ \A j \in 1..Len(t) : j # i => t[j].node # t[i].node
      BY <1>2, <1>5 DEF Pending
    <3>1. frames[i + 1].stage = "direita" /\ i + 1 \in 1..Len(frames)
      BY <1>4, <1>6
    <3>2. /\ frames[i + 1].node \in V /\ direita[frames[i + 1].node] \notin V
          /\ \A j \in 1..Len(frames) : j # i + 1 => frames[j].node # frames[i + 1].node
      BY <3>1 DEF Tour, Pending
    <3>3. ASSUME NEW j \in 1..Len(t), j # i PROVE t[j].node # t[i].node
      <4>1. j + 1 \in 1..Len(frames) /\ j + 1 # i + 1
        BY <1>5, <1>6, <3>3
      <4> QED
        BY <1>5, <3>2, <4>1
    <3> QED
      BY <1>5, <3>1, <3>2, <3>3
  <2>4. Placed'
    BY <1>2, <1>5, <1>6 DEF Tour, Placed
  <2> QED
    BY <2>1, <2>2, <2>3, <2>4 DEF Tour
<1>10. Lower(V, S)'
  <2>1. CASE deleted /\ 0 \in possible
    BY <1>2, <2>1 DEF Lower
  <2>2. CASE Begun(V, S)
    <3>1. Enough(S)'
      BY <1>2, <2>2 DEF Begun, Enough
    <3>2. ASSUME NEW c \in S, Due(c) PROVE Due(c)'
      <4>1. c \in Nodes /\ raiz[c] # NULL
        BY <2>2 DEF Begun, Stored
      <4>2. c # Top.node
        BY <1>1, <4>1, NodeFacts
      <4>3. PICK i \in 1..Len(frames) : DueIn(i, c)
        BY <3>2, <4>2 DEF Due
      <4>4. i - 1 \in 1..Len(t) /\ (i - 1) + 1 = i
        BY <1>1, <1>4, <1>5, <4>3 DEF DueIn
      <4>5. frames'[i - 1] = frames[i]
        BY <1>5, <4>4
      <4>6. \E j \in 1..Len(t) : frames'[j] = frames[i]
        BY <4>4, <4>5
      <4> QED
        BY <1>2, <1>5, <4>3, <4>6 DEF Due, DueIn, ChildOf
    <3>3. Reached(V, S)'
      BY <1>2, <2>2, <3>2 DEF Begun, Reached, ChildOf
    <3> QED
      BY <1>2, <2>2, <3>1, <3>3 DEF Begun, Lower, ChildOf
  <2> QED
    BY <2>1, <2>2 DEF Lower
<1> QED
  BY <1>2, <1>3, <1>9, <1>10, Zenon DEF CountInv

\* GoLeft and GoRight: a call for c is put before the other calls, which are
\* all in the right subtree then.  GoLeft keeps the call it is made by.
CallMade(c, from) ==
    /\ Looks /\ result' = result /\ rpc' = "reading"
    /\ Len(frames') = Len(frames) + from
    /\ frames'[1] = Call(c, Top.depth + 1)
    /\ \A i \in 2..Len(frames) + from :
        /\ frames'[i].stage = "direita"
        /\ frames'[i].node = frames[i - from].node
        /\ frames'[i].depth = frames[i - from].depth

LEMMA CallMadeKeepsCount ==
  ASSUME TreeInv, Shape, ReaderInv, Counting, Between,
         NEW V \in SUBSET Nodes, NEW S \in SUBSET Nodes, Tour(V), Lower(V, S),
         NEW n, n = Top.node, Top.stage # "raiz", NEW c, NEW from, CallMade(c, from), c \notin V,
         \/ c = esquerda[n] /\ Top.stage = "esquerda" /\ from = 1
         \/ c = direita[n] /\ Top.stage = "direita" /\ from = 0
  PROVE  CountInv'
<1> USE NodeFacts
<1>1. Looks /\ result' = result /\ rpc' = "reading" /\ from \in {0, 1}
  BY DEF CallMade
<1>2. /\ raiz' = raiz /\ esquerda' = esquerda /\ direita' = direita /\ depth' = depth
      /\ used' = used /\ Stored' = Stored
      /\ read' = read /\ possible' = possible /\ deleted' = deleted
  BY <1>1, LookFacts
<1>3. Between'
  BY <1>1, LookKeepsBetween
<1>4. /\ Len(frames) \in Nat \ {0} /\ Top = frames[1] /\ n \in Nodes
      /\ \A i \in 2..Len(frames) : frames[i].stage = "direita"
      /\ \A i \in 1..Len(frames) : frames[i].node \in Nodes /\ frames[i].stage # "raiz"
  <2>1. /\ Len(frames) \in Nat \ {0} /\ Top = frames[1]
        /\ \A i \in 2..Len(frames) : frames[i].stage = "direita"
        /\ \A i \in 1..Len(frames) : frames[i].stage # "raiz" => frames[i].node \in Nodes
    BY CallFacts DEF Counting
  <2>2. \A i \in 1..Len(frames) : frames[i].stage # "raiz"
    BY <2>1
  <2> QED
    BY <2>1, <2>2
<1>5. /\ Len(frames') = Len(frames) + from /\ Top' = frames'[1]
      /\ Top'.node = c /\ Top'.depth = Top.depth + 1 /\ Top'.stage = "raiz"
  BY DEF CallMade, Call, Top
<1>6. \A i \in 2..Len(frames) + from :
        /\ i - from \in 1..Len(frames)
        /\ frames'[i].stage = "direita"
        /\ frames'[i].node = frames[i - from].node
        /\ frames'[i].depth = frames[i - from].depth
  BY <1>1, <1>4 DEF CallMade
<1>7. ChildOf(c, n) /\ c \in Nodes \cup {NULL} /\ n \in V
  <2>1. c \in Nodes \cup {NULL}
    BY <1>4 DEF TreeInv, TreeTypeOK
  <2> QED
    BY <1>4, <2>1 DEF ChildOf, Tour, Pending
<1>8. \A i \in 1..Len(frames) :
        /\ frames[i].node \in V /\ direita[frames[i].node] \notin V
        /\ \A j \in 1..Len(frames) : j # i => frames[j].node # frames[i].node
  BY <1>4 DEF Tour, Pending
<1>9. Tour(V)'
  <2>1. Tallied(V)' /\ Covered(V)'
    BY <1>1, <1>2 DEF Tour, Tallied, Covered, ChildOf
  <2>2. Fresh(V)'
    <3>1. SUFFICES ASSUME c # NULL
          PROVE  /\ \A p \in Nodes : ChildOf(c, p) => p \in V
                 /\ \A i \in 2..Len(frames) + from : direita[frames[i - from].node] # c
      <4>1. \A i \in 2..Len(frames') : direita[frames'[i].node] = direita[frames[i - from].node]
        BY <1>5, <1>6
      <4>2. c \notin V
        OBVIOUS
      <4> QED
        BY SMTT(20), <1>2, <1>5, <3>1, <4>1, <4>2 DEF Fresh, ChildOf
    <3>2. c \in Nodes
      BY <1>7, <3>1
    <3>3. \A p \in Nodes : ChildOf(c, p) => p = n
      BY <1>4, <1>7, <3>2 DEF Shape, OneParent, ChildOf
    <3>4. ASSUME NEW i \in 2..Len(frames) + from, direita[frames[i - from].node] = c
          PROVE  FALSE
      <4>1. i - from \in 1..Len(frames) /\ frames[i - from].node \in Nodes
        BY <1>4, <1>6
      <4>2. c # esquerda[n]
        BY <1>4, <3>2, <3>4, <4>1 DEF Shape, OneParent
      <4>3. c = direita[n] /\ from = 0
        BY <4>2
      <4>4. frames[i - from].node = n
        BY <1>4, <3>2, <3>4, <4>1, <4>3 DEF Shape, OneParent
      <4>5. i - from # 1 /\ 1 \in 1..Len(frames)
        BY <1>4, <4>3
      <4> QED
        BY <1>4, <1>8, <4>1, <4>4, <4>5
    <3> QED
      BY <1>7, <3>3, <3>4
  <2>3. Pending(V)'
    <3> SUFFICES ASSUME NEW i \in 2..Len(frames) + from
        PROVE  /\ frames'[i].node \in V /\ direita[frames'[i].node] \notin V
               /\ frames'[i].stage # "esquerda"
               /\ \A j \in 1..Len(frames) + from : j # i => frames'[j].node # frames'[i].node
      <4>1. frames'[1].stage = "raiz" /\ Len(frames) + from \in Nat
        BY <1>1, <1>4, <1>5
      <4> QED
        BY <1>2, <1>5, <4>1 DEF Pending
    <3>1. /\ frames'[i].node \in V /\ direita[frames'[i].node] \notin V
          /\ frames'[i].stage # "esquerda"
      BY <1>6, <1>8
    <3>2. ASSUME NEW j \in 1..Len(frames) + from, j # i PROVE frames'[j].node # frames'[i].node
      <4>1. CASE j = 1
        BY <1>5, <3>1, <4>1
      <4>2. CASE j # 1
        <5>1. j \in 2..Len(frames) + from /\ j - from # i - from
          BY <1>1, <1>4, <3>2, <4>2
        <5>2. i - from \in 1..Len(frames) /\ j - from \in 1..Len(frames)
          BY <1>6, <5>1
        <5>3. frames[j - from].node # frames[i - from].node
          BY <1>8, <5>1, <5>2
        <5> QED
          BY <1>6, <5>1, <5>3
      <4> QED
        BY <4>1, <4>2
    <3> QED
      BY <3>1, <3>2
  <2>4. Placed'
    <3> SUFFICES ASSUME NEW i \in 1..Len(frames) + from, frames'[i].node # NULL
        PROVE  frames'[i].depth = depth[frames'[i].node] /\ frames'[i].node \in 1..used
      BY <1>2, <1>5 DEF Placed
    <3>1. CASE i = 1
      <4>1. c \in Nodes /\ c \in 1..used /\ depth[c] = depth[n] + 1
        BY <1>4, <1>5, <1>7, <3>1 DEF Shape, Levels
      <4>2. Top.depth = depth[n]
        BY <1>4 DEF Tour, Placed
      <4> QED
        BY <1>5, <3>1, <4>1, <4>2
    <3>2. CASE i # 1
      <4>1. i \in 2..Len(frames) + from
        BY <3>2
      <4> QED
        BY <1>6, <4>1 DEF Tour, Placed
    <3> QED
      BY <3>1, <3>2
  <2> QED
    BY <2>1, <2>2, <2>3, <2>4 DEF Tour
<1>10. Lower(V, S)'
  <2>1. CASE deleted /\ 0 \in possible
    BY <1>2, <2>1 DEF Lower
  <2>2. CASE Begun(V, S)
    <3>1. Enough(S)'
      BY <1>2, <2>2 DEF Begun, Enough
    <3>2. ASSUME NEW e \in S, Due(e) PROVE Due(e)'
      <4>1. PICK k \in 1..Len(frames) : DueIn(k, e)
        BY <3>2 DEF Due
      <4>2. CASE e = c
        BY <1>5, <4>2 DEF Due
      <4>3. CASE e # c
        <5>1. k + from \in 2..Len(frames) + from /\ e = direita[frames[k].node]
          <6>1. CASE k = 1
            BY <1>4, <4>1, <4>3, <6>1 DEF DueIn, ChildOf
          <6>2. CASE k # 1
            BY <1>1, <1>4, <4>1, <6>2 DEF DueIn
          <6> QED
            BY <6>1, <6>2
        <5>2. (k + from) - from = k
          BY <1>1, <1>4
        <5>3. frames'[k + from].stage = "direita" /\ frames'[k + from].node = frames[k].node
          BY <1>6, <5>1, <5>2
        <5>4. \E j \in 1..Len(frames') :
                frames'[j].stage = "direita" /\ frames'[j].node = frames[k].node
          <6>1. k + from \in 1..Len(frames')
            BY <1>1, <1>5, <5>1
          <6> QED
            BY <5>3, <6>1
        <5> QED
          BY <1>2, <5>1, <5>4 DEF Due, DueIn
      <4> QED
        BY <4>2, <4>3
    <3>3. Reached(V, S)'
      BY <1>2, <2>2, <3>2 DEF Begun, Reached, ChildOf
    <3> QED
      BY <1>2, <2>2, <3>1, <3>3 DEF Begun, Lower, ChildOf
  <2> QED
    BY <2>1, <2>2 DEF Lower
<1> QED
  BY <1>2, <1>3, <1>9, <1>10, Zenon DEF CountInv

LEMMA GoLeftCalls ==
  ASSUME TreeInv, ReaderInv, Counting, GoLeft
  PROVE  CallMade(esquerda[Top.node], 1) /\ Top.stage = "esquerda"
<1> DEFINE a == Call(esquerda[Top.node], Top.depth + 1)
           b == [Top EXCEPT !.stage = "direita"]
           t == <<a, b>> \o Tail(frames)
<1>1. /\ Top.stage = "esquerda" /\ GoOn(t) /\ Looks /\ result' = result
  BY DEF GoLeft, At
<1>2. /\ Len(frames) \in Nat \ {0} /\ frames # <<>> /\ Top \in Frame /\ Top = frames[1]
      /\ \A i \in 2..Len(frames) : frames[i].stage = "direita"
      /\ \A i \in 1..Len(frames) : frames[i].stage # "raiz" => frames[i].node \in Nodes
      /\ frames \in Seq(Frame)
  BY CallFacts DEF Counting, ReaderInv, ReaderTypeOK
<1>3. a \in Frame
  <2>1. Top.node \in Nodes
    BY <1>1, <1>2
  <2>2. esquerda[Top.node] \in Nodes \cup {NULL}
    BY <2>1 DEF TreeInv, TreeTypeOK
  <2>3. Top.depth + 1 \in Nat
    BY <1>2 DEF Frame
  <2> QED
    BY <2>2, <2>3 DEF Call, Frame
<1>4. b \in Frame /\ b.stage = "direita" /\ b.node = Top.node /\ b.depth = Top.depth
  BY <1>2 DEF Frame
<1>5. a = Call(esquerda[Top.node], Top.depth + 1)
  OBVIOUS
<1> HIDE DEF a, b
<1>6. /\ t # <<>> /\ Len(t) = Len(frames) + 1 /\ t[1] = a /\ t[2] = b
      /\ \A i \in 3..Len(frames) + 1 : t[i] = frames[i - 1]
  BY <1>2, <1>3, <1>4, TopPushed
<1> HIDE DEF t
<1>7. ASSUME NEW i \in 2..Len(frames) + 1
      PROVE  /\ t[i].stage = "direita" /\ t[i].node = frames[i - 1].node
             /\ t[i].depth = frames[i - 1].depth
  <2>1. CASE i = 2
    BY <1>2, <1>4, <1>6, <2>1
  <2>2. CASE i # 2
    <3>1. i \in 3..Len(frames) + 1 /\ i - 1 \in 2..Len(frames)
      BY <1>2, <2>2
    <3> QED
      BY <1>2, <1>6, <3>1
  <2> QED
    BY <2>1, <2>2
<1> QED
  BY <1>1, <1>5, <1>6, <1>7 DEF GoOn, CallMade

LEMMA GoRightCalls ==
  ASSUME TreeInv, ReaderInv, Counting, GoRight
  PROVE  CallMade(direita[Top.node], 0) /\ Top.stage = "direita"
<1> DEFINE a == Call(direita[Top.node], Top.depth + 1)
           t == <<a>> \o Tail(frames)
<1>1. /\ Top.stage = "direita" /\ GoOn(t) /\ Looks /\ result' = result
  BY DEF GoRight, At
<1>2. /\ Len(frames) \in Nat \ {0} /\ frames # <<>> /\ Top \in Frame /\ Top = frames[1]
      /\ \A i \in 2..Len(frames) : frames[i].stage = "direita"
      /\ \A i \in 1..Len(frames) : frames[i].stage # "raiz" => frames[i].node \in Nodes
      /\ frames \in Seq(Frame)
  BY CallFacts DEF Counting, ReaderInv, ReaderTypeOK
<1>3. a \in Frame
  <2>1. Top.node \in Nodes
    BY <1>1, <1>2
  <2>2. direita[Top.node] \in Nodes \cup {NULL}
    BY <2>1 DEF TreeInv, TreeTypeOK
  <2>3. Top.depth + 1 \in Nat
    BY <1>2 DEF Frame
  <2> QED
    BY <2>2, <2>3 DEF Call, Frame
<1>4. a = Call(direita[Top.node], Top.depth + 1)
  OBVIOUS
<1> HIDE DEF a
<1>5. /\ t # <<>> /\ Len(t) = Len(frames) /\ t[1] = a
      /\ \A i \in 2..Len(frames) : t[i] = frames[i]
  BY <1>2, <1>3, TopReplaced
<1> HIDE DEF t
<1>6. Len(frames) + 0 = Len(frames) /\ \A i \in 2..Len(frames) : i - 0 = i
  BY <1>2
<1> QED
  BY <1>1, <1>2, <1>4, <1>5, <1>6 DEF GoOn, CallMade

\* A child of the innermost call's node that was not counted is called for.
LEMMA CallGoesOn ==
  ASSUME TreeInv, Shape, ReaderInv, Counting, Between, GoLeft \/ GoRight,
         NEW V \in SUBSET Nodes, NEW S \in SUBSET Nodes, Tour(V), Lower(V, S)
  PROVE  CountInv'
<1>1. 1 \in 1..Len(frames) /\ Top = frames[1]
  <2>1. Len(frames) \in Nat \ {0} /\ Top = frames[1]
    BY CallFacts DEF Counting
  <2> QED
    BY <2>1
<1>2. CASE GoLeft
  <2>1. CallMade(esquerda[Top.node], 1) /\ Top.stage = "esquerda"
    BY <1>2, GoLeftCalls
  <2>2. esquerda[Top.node] \notin V
    BY <1>1, <2>1 DEF Tour, Pending
  <2> QED
    BY <2>1, <2>2, CallMadeKeepsCount
<1>3. CASE GoRight
  <2>1. CallMade(direita[Top.node], 0) /\ Top.stage = "direita"
    BY <1>3, GoRightCalls
  <2>2. direita[Top.node] \notin V
    BY <1>1, <2>1 DEF Tour, Pending
  <2> QED
    BY <2>1, <2>2, CallMadeKeepsCount
<1> QED
  BY <1>2, <1>3

-----------------------------------------------------------------------------
(* tree_get.                                                               *)

Getting == rpc = "reading" /\ read \in Gets

\* A call below the root, or about to be made, finds nothing that is returned.
FoundNothing ==
    Top.depth > 1 \/ Top.stage \in {"side", "order"} => NoData \in possible \/ deleted

\* The entry whose key was compared is still the one to be copied, unless it
\* was deleted: what replaces it has the same key.
StillTheEntry ==
    Top.stage \in {"value", "dup", "copy"} /\ Top.depth = 1 /\ ~deleted =>
        /\ raiz[Root] # NULL
        /\ raiz[Root].key = read.key \/ (raiz[Root].key = FREED /\ task.key = read.key)

\* A pointer that was overwritten under the reader pointed to freed memory,
\* but for the ones a deletion overwrote.
HeldFreed == Top.stage \in Using /\ ~deleted => held \in {LINKED, FREED}

GetInv ==
    Getting =>
        /\ RootAnswers \subseteq possible
        /\ result = NoData
        /\ Len(frames) = 1 /\ Top.depth >= 1
        /\ Top.depth = 1 => Top.node = Root
        /\ FoundNothing
        /\ StillTheEntry
        /\ HeldFreed

LEMMA WriterKeepsGet ==
  ASSUME TreeInv, Shape, ReaderInv, AnswersAgree', Getting, GetInv, WriterStep
  PROVE  GetInv'
<1> USE NodeFacts
<1>1. /\ read' = read /\ rpc' = rpc /\ result' = result /\ frames' = frames /\ Top' = Top
      /\ (deleted => deleted') /\ deleted' \in BOOLEAN
  BY WriterKeepsEntries DEF ReaderInv, ReaderTypeOK, reader, Top, EntriesStay
<1>2. RootAnswers' \subseteq possible' /\ possible \subseteq possible'
  <2>1. CASE Stores
    BY <1>1, <2>1 DEF Stores, Getting, AnswersAgree
  <2>2. CASE (\E k \in Keys, v \in Values : BeginPut(k, v)) \/ Search
    <3>1. raiz' = raiz /\ esquerda' = esquerda /\ direita' = direita /\ depth' = depth
          /\ possible' = possible
      BY <2>2 DEF BeginPut, Search, nodes, history
    <3>2. RootAnswers' = RootAnswers
      BY <1>1, <3>1 DEF RootAnswers
    <3> QED
      BY <3>1, <3>2 DEF GetInv
  <2> QED
    BY <2>1, <2>2, ReplaceStores
       DEF WriterStep, Writer, ReplaceStep, LinkEntry, LinkLeft, LinkRight, Delete
<1>3. FoundNothing'
  BY <1>1, <1>2 DEF GetInv, FoundNothing
<1>4. ASSUME Top.stage \in {"value", "dup", "copy"}, Top.depth = 1, ~deleted'
      PROVE  /\ raiz'[Root] # NULL
             /\ \/ raiz'[Root].key = read.key
                \/ raiz'[Root].key = FREED /\ task'.key = read.key
  <2>1. /\ raiz[Root] # NULL
        /\ raiz[Root].key = read.key \/ (raiz[Root].key = FREED /\ task.key = read.key)
    BY <1>1, <1>4 DEF GetInv, StillTheEntry
  <2>2. /\ raiz[Root].key = FREED => place = Root /\ wpc = "storekey"
        /\ task.key \in Keys /\ read.key \in Keys /\ FREED \notin Keys
    BY <2>1, TreeRaceAssumption DEF TreeInv, FreedOnlyHere, TreeTypeOK, Getting, Gets
  <2>3. CASE \E k \in Keys, v \in Values : BeginPut(k, v)
    BY <2>1, <2>2, <2>3 DEF BeginPut, nodes
  <2>4. CASE Search
    BY <2>1, <2>4 DEF Search, nodes
  <2>5. CASE LinkEntry
    BY <2>1, <2>5, LinkEntryStores DEF LinkEntry
  <2>6. CASE LinkLeft \/ LinkRight
    BY <2>1, <2>6 DEF LinkLeft, LinkRight
  <2>7. CASE \E k \in Keys : Delete(k)
    BY <1>4, <2>7 DEF Delete, Getting
  <2>8. CASE ReplaceStep
    <3>1. EntryChanged
      BY <2>8, ReplaceStores
    <3>2. CASE place # Root
      BY <2>1, <3>1, <3>2 DEF EntryChanged, EntryStored
    <3>3. CASE place = Root
      <4>1. raiz'[Root] # NULL /\ task' = task
        BY <3>1, <3>3 DEF EntryChanged, EntryStored
      <4>2. CASE \E x : EntryStored("value", x, "key")
        BY <2>1, <3>3, <4>1, <4>2 DEF EntryStored
      <4>3. CASE wpc = "freekey" /\ EntryStored("key", FREED, "value")
        BY <2>1, <2>2, <3>3, <4>1, <4>3 DEF EntryStored, Shape, HalfReplaced
      <4>4. CASE wpc = "storekey" /\ EntryStored("key", task.key, "value")
        <5>1. raiz[Root].key = FREED
          BY <3>3, <4>4 DEF Shape, HalfReplaced
        <5>2. task.key = read.key
          BY <2>1, <2>2, <5>1
        <5> QED
          BY <3>3, <4>1, <4>4, <5>2 DEF EntryStored
      <4> QED
        BY <3>1, <4>2, <4>3, <4>4 DEF EntryChanged
    <3> QED
      BY <3>2, <3>3
  <2> QED
    BY <2>3, <2>4, <2>5, <2>6, <2>7, <2>8 DEF WriterStep, Writer, ReplaceStep
<1>5. StillTheEntry'
  BY <1>1, <1>4 DEF StillTheEntry
<1>6. HeldFreed'
  <2> SUFFICES ASSUME Top.stage \in Using, ~deleted' PROVE held' \in {LINKED, FREED}
    BY <1>1 DEF HeldFreed
  <2>1. held \in {LINKED, FREED}
    BY <1>1 DEF GetInv, HeldFreed
  <2>2. CASE held' = held
    BY <2>1, <2>2
  <2>3. CASE StoreKey
    <3>1. Overwrites(place, {"key"}) /\ raiz[place].key = FREED
      BY <2>3 DEF StoreKey, Replaces, Shape, HalfReplaced
    <3> QED
      BY <2>1, <3>1 DEF Overwrites
  <2>4. CASE StoreValue
    <3>1. Overwrites(place, {"value"}) /\ raiz[place].value = FREED
      BY <2>4 DEF StoreValue, Replaces, Shape, HalfReplaced
    <3> QED
      BY <2>1, <3>1 DEF Overwrites
  <2>5. ASSUME NEW k \in Keys, Delete(k) PROVE FALSE
    BY <2>5 DEF Delete, Getting
  <2> QED
    BY <2>2, <2>3, <2>4, <2>5
       DEF WriterStep, Writer, BeginPut, Search, LinkEntry, LinkLeft, LinkRight, FreeBytes,
           ClearData, FreeData, FreeKey
<1> QED
  BY <1>1, <1>2, <1>3, <1>5, <1>6 DEF GetInv

LEMMA ReadBeginsGet ==
  ASSUME TreeInv, AnswersAgree', NEW r \in Gets, Read(r)
  PROVE  GetInv'
<1>1. /\ read' = r /\ rpc' = "reading" /\ possible' = {Answer'}
      /\ result' = IF r \in Counts THEN 0 ELSE NoData
      /\ frames' = <<Call(Root, 1)>>
  BY DEF Read
<1>2. r \notin Counts
  BY DEF Counts, Gets
<1>3. Len(frames') = 1 /\ Top' = [node |-> Root, depth |-> 1, stage |-> "raiz"]
  BY <1>1 DEF Call, Top
<1> QED
  BY <1>1, <1>2, <1>3 DEF GetInv, FoundNothing, StillTheEntry, HeldFreed, Using, AnswersAgree

\* The reader looks on.
LEMMA GetGoesOn ==
  ASSUME Getting, GetInv, Looks, result' = result, rpc' = "reading", NEW a, frames' = <<a>>,
         a.depth >= 1, a.depth = 1 => a.node = Root,
         a.depth > 1 \/ a.stage \in {"side", "order"} => NoData \in possible \/ deleted,
         a.stage \in {"value", "dup", "copy"} /\ a.depth = 1 /\ ~deleted =>
            /\ raiz[Root] # NULL
            /\ raiz[Root].key = read.key \/ (raiz[Root].key = FREED /\ task.key = read.key),
         a.stage \in Using /\ ~deleted => held' \in {LINKED, FREED}
  PROVE  GetInv'
<1>1. /\ raiz' = raiz /\ esquerda' = esquerda /\ direita' = direita /\ depth' = depth
      /\ read' = read /\ possible' = possible /\ deleted' = deleted /\ task' = task
  BY LookFacts DEF Looks, writer
<1>2. RootAnswers' = RootAnswers
  BY <1>1 DEF RootAnswers
<1>3. Len(frames') = 1 /\ Top' = a
  BY DEF Top
<1> QED
  BY <1>1, <1>2, <1>3 DEF GetInv, FoundNothing, StillTheEntry, HeldFreed

\* tree_get has one call at a time, whose result nobody waits for.
LEMMA OnlyCall ==
  ASSUME TreeInv, ReaderInv, Getting, GetInv, NEW a
  PROVE  <<a>> \o Tail(frames) = <<a>>
<1>1. /\ frames # <<>> /\ frames \in Seq(Frame) /\ Len(frames) = 1
  BY CallFacts DEF Getting, GetInv, ReaderInv, ReaderTypeOK
<1>2. Tail(frames) = <<>>
  <2>1. Tail(frames) \in Seq(Frame) /\ Len(Tail(frames)) = Len(frames) - 1
    BY <1>1, HeadTailProperties
  <2>2. Len(Tail(frames)) = 0
    BY <1>1, <2>1
  <2> QED
    BY <2>1, <2>2, EmptySeq
<1>3. <<a>> \in Seq({a})
  OBVIOUS
<1>4. <<a>> \o <<>> = <<a>>
  BY <1>3, ConcatEmptySeq
<1> QED
  BY <1>2, <1>4

\* A call keeps its place when it goes to its next stage.
LEMMA GetNextStage ==
  ASSUME TreeInv, ReaderInv, Getting, GetInv, NEW st, NextStage(st)
  PROVE  \E a : /\ frames' = <<a>> /\ rpc' = "reading"
                /\ a.node = Top.node /\ a.depth = Top.depth /\ a.stage = st
<1> DEFINE a == [Top EXCEPT !.stage = st]
<1>1. Top \in Frame
  BY CallFacts DEF Getting
<1>2. a.node = Top.node /\ a.depth = Top.depth /\ a.stage = st
  BY <1>1 DEF Frame
<1> HIDE DEF a
<1>3. <<a>> \o Tail(frames) = <<a>> /\ <<a>> # <<>>
  BY OnlyCall
<1>4. frames' = <<a>> /\ rpc' = "reading"
  BY <1>3 DEF NextStage, GoOn, a
<1> QED
  BY <1>2, <1>4

-----------------------------------------------------------------------------
(* Together.                                                               *)

AnswerInv == CountInv /\ GetInv /\ AnswersWereRight

LEMMA InitAnswers == Init => AnswerInv
BY DEF Init, AnswerInv, CountInv, Counting, GetInv, Getting, AnswersWereRight

LEMMA WriterKeepsAnswers ==
  ASSUME TreeInv, Shape, ReaderInv, AnswerInv, AnswersAgree', WriterStep
  PROVE  AnswerInv'
<1>1. /\ read' = read /\ rpc' = rpc /\ result' = result /\ (deleted => deleted')
      /\ torn \subseteq torn'
  BY WriterKeepsEntries, WriterKeepsTorn DEF ReaderInv, ReaderTypeOK, reader, EntriesStay
<1>2. CASE Counting
  <2>1. PICK V, S \in SUBSET Nodes : Tour(V) /\ Lower(V, S)
    BY <1>2 DEF AnswerInv, CountInv
  <2>2. Between /\ Between'
    BY <1>2, WriterKeepsBetween DEF AnswerInv, CountInv
  <2>3. Tour(V)'
    BY <1>2, <2>1, WriterKeepsTour
  <2>4. Lower(V, S)'
    BY <1>2, <2>1, <2>2, WriterKeepsLower
  <2>5. Nodes' = Nodes
    BY DEF Nodes, MaxNodes
  <2>6. CountInv'
    BY <2>2, <2>3, <2>4, <2>5, Zenon DEF CountInv
  <2>7. ~Getting' /\ rpc' # "done"
    BY <1>1, <1>2 DEF Counting, Getting, Counts, Gets
  <2> QED
    BY <2>6, <2>7 DEF AnswerInv, GetInv, AnswersWereRight
<1>3. CASE Getting
  <2>1. GetInv'
    BY <1>3, WriterKeepsGet DEF AnswerInv
  <2>2. ~Counting' /\ rpc' # "done"
    BY <1>1, <1>3 DEF Counting, Getting, Counts, Gets
  <2> QED
    BY <2>1, <2>2 DEF AnswerInv, CountInv, AnswersWereRight
<1>4. CASE rpc # "reading"
  <2>1. possible' = possible
    BY <1>4, ReplaceStores DEF WriterStep, Writer, ReplaceStep, BeginPut, Search, LinkEntry,
       LinkLeft, LinkRight, Delete, Stores, history
  <2> QED
    BY <1>1, <1>4, <2>1
       DEF AnswerInv, CountInv, Counting, GetInv, Getting, AnswersWereRight
<1> QED
  BY <1>2, <1>3, <1>4 DEF Counting, Getting, ReaderInv, ReaderTypeOK

LEMMA ReadKeepsAnswers ==
  ASSUME TreeInv, Shape, AnswersAgree', NEW r \in Counts \cup Gets, Read(r)
  PROVE  AnswerInv'
<1>1. read' = r /\ rpc' = "reading" /\ Counts \cap Gets = {}
  BY DEF Read, Counts, Gets
<1>2. CASE r \in Counts
  BY <1>1, <1>2, ReadBeginsTour DEF AnswerInv, GetInv, Getting, AnswersWereRight
<1>3. CASE r \in Gets
  BY <1>1, <1>3, ReadBeginsGet DEF AnswerInv, CountInv, Counting, AnswersWereRight
<1> QED
  BY <1>2, <1>3

LEMMA CountingKeepsAnswers ==
  ASSUME TreeInv, Shape, ReaderInv, CountInv, Counting, Reader
  PROVE  AnswerInv'
<1>1. read' = read /\ Counts \cap Gets = {}
  BY DEF Counts, Gets, Reader, FollowNull, LookEmpty, Count, GoLeft, GoRight, GetBegins,
         Unlinked, LoadField, ReadsFreed, CompareKey, ChooseSide, DupNothing, Dup,
         CopyNothing, CopyValue, Faults, Looks
<1>2. GetInv'
  BY <1>1 DEF GetInv, Getting, Counting
<1>3. Between
  BY DEF CountInv
<1>4. PICK V, S \in SUBSET Nodes : Tour(V) /\ Lower(V, S)
  BY DEF CountInv
<1>5. CASE FollowNull \/ Unlinked \/ ReadsFreed
  <2>1. rpc' \in {"null", "freed"}
    BY <1>5 DEF FollowNull, Unlinked, ReadsFreed, Faults
  <2> QED
    BY <1>2, <2>1 DEF AnswerInv, CountInv, Counting, AnswersWereRight
<1>6. CASE LookEmpty
  <2>1. CASE Tail(frames) = <<>>
    <3>1. result' \in possible' /\ rpc' = "done"
      BY <1>3, <1>4, <1>6, <2>1, LastReturns
    <3> QED
      BY <1>2, <3>1 DEF AnswerInv, CountInv, Counting, AnswersWereRight
  <2>2. CASE Tail(frames) # <<>>
    <3>1. CountInv'
      BY <1>3, <1>4, <1>6, <2>2, CallReturns
    <3>2. rpc' = "reading"
      BY <1>6, <2>2 DEF LookEmpty, GoOn
    <3> QED
      BY <1>2, <3>1, <3>2 DEF AnswerInv, AnswersWereRight
  <2> QED
    BY <2>1, <2>2
<1>7. CASE Count
  <2>1. CountInv' /\ rpc' = "reading"
    BY <1>3, <1>4, <1>7, CountGoesOn
  <2> QED
    BY <1>2, <2>1 DEF AnswerInv, AnswersWereRight
<1>8. CASE GoLeft \/ GoRight
  <2>1. CountInv'
    BY <1>3, <1>4, <1>8, CallGoesOn
  <2>2. rpc' = "reading"
    BY <1>8, GoLeftCalls, GoRightCalls DEF CallMade
  <2> QED
    BY <1>2, <2>1, <2>2 DEF AnswerInv, AnswersWereRight
<1>9. /\ ~GetBegins /\ ~LoadField /\ ~CompareKey /\ ~ChooseSide
      /\ ~DupNothing /\ ~Dup /\ ~CopyNothing /\ ~CopyValue
  <2>1. Top.stage \in {"raiz", "esquerda", "direita"}
    <3>1. 1 \in 1..Len(frames) /\ Top = frames[1]
      <4>1. Len(frames) \in Nat \ {0} /\ Top = frames[1]
        BY CallFacts DEF Counting
      <4> QED
        BY <4>1
    <3> QED
      BY <3>1, CountStages
  <2> QED
    BY <1>1, <2>1 DEF GetBegins, LoadField, CompareKey, ChooseSide, DupNothing, Dup, CopyNothing,
       CopyValue, At, Counting, Loading
<1> QED
  BY <1>5, <1>6, <1>7, <1>8, <1>9 DEF Reader

LEMMA GettingKeepsAnswers ==
  ASSUME TreeInv, Shape, ReaderInv, GetInv, Getting, Reader
  PROVE  AnswerInv'
<1> USE NodeFacts
<1>1. /\ read' = read /\ possible' = possible /\ deleted' = deleted /\ torn' = torn
      /\ Counts \cap Gets = {}
  BY DEF Counts, Gets, Reader, FollowNull, LookEmpty, Count, GoLeft, GoRight, GetBegins,
         Unlinked, LoadField, ReadsFreed, CompareKey, ChooseSide, DupNothing, Dup,
         CopyNothing, CopyValue, Faults, Looks, history
<1>2. CountInv'
  BY <1>1 DEF CountInv, Getting, Counting
<1>3. ASSUME rpc' \in {"null", "freed"} PROVE AnswerInv'
  BY <1>2, <1>3 DEF AnswerInv, GetInv, Getting, AnswersWereRight
<1>4. ASSUME GetInv', rpc' = "reading" PROVE AnswerInv'
  BY <1>2, <1>4 DEF AnswerInv, AnswersWereRight
<1>5. ASSUME rpc' = "done",
             result' \in possible \/ deleted \/ (Root \in torn /\ result' = NoData)
      PROVE  AnswerInv'
  BY <1>1, <1>2, <1>5 DEF AnswerInv, GetInv, Getting, AnswersWereRight
<1>6. /\ frames # <<>> /\ Top \in Frame /\ Top.depth \in Nat /\ Len(frames) = 1
      /\ frames \in Seq(Frame)
      /\ Top.stage \in {"raiz"} \cup Loading \cup Using
      /\ Top.stage # "raiz" => Top.node \in Nodes
      /\ result = NoData /\ Top.depth >= 1 /\ (Top.depth = 1 => Top.node = Root)
      /\ FoundNothing /\ StillTheEntry /\ HeldFreed /\ RootAnswers \subseteq possible
  <2>1. /\ frames # <<>> /\ Top \in Frame /\ Top = frames[1] /\ Len(frames) = 1
        /\ frames \in Seq(Frame) /\ InCall(frames[1])
        /\ frames[1].stage # "raiz" => frames[1].node \in Nodes
    BY CallFacts DEF Getting, GetInv, ReaderInv, ReaderTypeOK
  <2>2. read.op = "get"
    BY DEF Getting, Gets
  <2> QED
    BY <2>1, <2>2 DEF GetInv, Frame, InCall, Stages
<1>7. CASE FollowNull \/ Unlinked \/ ReadsFreed \/ CopyNothing
  BY <1>3, <1>7 DEF FollowNull, Unlinked, ReadsFreed, CopyNothing, Faults
<1>8. CASE LookEmpty
  <2>1. Tail(frames) = <<>>
    <3>1. Tail(frames) \in Seq(Frame) /\ Len(Tail(frames)) = 0
      <4>1. Tail(frames) \in Seq(Frame) /\ Len(Tail(frames)) = Len(frames) - 1
        BY <1>6, HeadTailProperties
      <4> QED
        BY <1>6, <4>1
    <3> QED
      BY <3>1, EmptySeq
  <2>2. rpc' = "done" /\ result' = NoData
    BY <1>6, <1>8, <2>1 DEF LookEmpty, GoOn
  <2>3. Top.node # NULL /\ raiz[Top.node] = NULL
    BY <1>8 DEF LookEmpty, Getting, Gets
  <2>4. NoData \in possible \/ deleted
    <3>1. CASE Top.depth > 1
      BY <1>6, <3>1 DEF FoundNothing
    <3>2. CASE Top.depth = 1
      BY <1>6, <2>3, <3>2 DEF RootAnswers
    <3> QED
      BY <1>6, <3>1, <3>2
  <2> QED
    BY <1>5, <2>2, <2>4
<1>9. ~Count /\ ~GoLeft /\ ~GoRight
  BY <1>1, <1>6 DEF Count, GoLeft, GoRight, At, Getting, Loading, Using
<1>10. CASE GetBegins
  <2>1. NextStage("key") /\ Looks /\ result' = result
    BY <1>10 DEF GetBegins
  <2>2. PICK a : /\ frames' = <<a>> /\ rpc' = "reading"
                 /\ a.node = Top.node /\ a.depth = Top.depth /\ a.stage = "key"
    BY <2>1, GetNextStage
  <2>3. GetInv'
    BY <1>6, <2>1, <2>2, GetGoesOn DEF FoundNothing, Using
  <2> QED
    BY <1>4, <2>2, <2>3
<1>11. CASE LoadField
  <2> DEFINE st == CASE Top.stage = "key" -> "equal" [] Top.stage = "side" -> "order"
                     [] OTHER -> "dup"
  <2>1. /\ NextStage(st) /\ Looks /\ result' = result /\ Top.stage \in Loading
    BY <1>11 DEF LoadField
  <2>2. /\ st = "order" => Top.stage = "side"
        /\ st = "dup" => Top.stage = "value"
        /\ st \in {"equal", "order", "dup"}
    BY <2>1 DEF Loading
  <2> HIDE DEF st
  <2>3. PICK a : /\ frames' = <<a>> /\ rpc' = "reading"
                 /\ a.node = Top.node /\ a.depth = Top.depth /\ a.stage = st
    BY <2>1, GetNextStage
  <2>4. held' = LINKED
    BY <2>1 DEF NextStage, GoOn
  <2>5. a.depth > 1 \/ a.stage \in {"side", "order"} => NoData \in possible \/ deleted
    BY <1>6, <2>2, <2>3 DEF FoundNothing
  <2>6. a.stage \in {"value", "dup", "copy"} /\ a.depth = 1 /\ ~deleted =>
            /\ raiz[Root] # NULL
            /\ raiz[Root].key = read.key \/ (raiz[Root].key = FREED /\ task.key = read.key)
    BY <1>6, <2>2, <2>3 DEF StillTheEntry
  <2>7. GetInv'
    BY <1>6, <2>1, <2>3, <2>4, <2>5, <2>6, GetGoesOn
  <2> QED
    BY <1>4, <2>3, <2>7
<1>12. CASE CompareKey
  <2> DEFINE st == IF Sees = read.key THEN "value" ELSE "side"
  <2>1. /\ NextStage(st) /\ Looks /\ result' = result /\ Top.stage = "equal"
        /\ Sees # FREED
    BY <1>12 DEF CompareKey, At
  <2>2. st = (IF Sees = read.key THEN "value" ELSE "side") /\ st \in {"value", "side"}
    OBVIOUS
  <2> HIDE DEF st
  <2>3. PICK a : /\ frames' = <<a>> /\ rpc' = "reading"
                 /\ a.node = Top.node /\ a.depth = Top.depth /\ a.stage = st
    BY <2>1, GetNextStage
  <2>4. ~deleted => raiz[Top.node] # NULL /\ Sees = raiz[Top.node].key
    <3>1. Top.stage \in Using /\ HeldField = "key"
      BY <2>1 DEF Using, HeldField
    <3>2. ~deleted => held = LINKED
      BY <1>6, <2>1, <3>1 DEF HeldFreed, Sees
    <3> QED
      BY <3>1, <3>2 DEF Sees, ReaderInv, HeldOK, Getting
  <2>5. ASSUME Top.depth = 1, st = "side" PROVE NoData \in possible \/ deleted
    BY <1>6, <2>1, <2>2, <2>4, <2>5 DEF RootAnswers
  <2>6. a.depth > 1 \/ a.stage \in {"side", "order"} => NoData \in possible \/ deleted
    <3>1. Top.depth > 1 => NoData \in possible \/ deleted
      BY <1>6 DEF FoundNothing
    <3>2. Top.depth > 1 \/ Top.depth = 1
      BY <1>6
    <3> QED
      BY <2>2, <2>3, <2>5, <3>1, <3>2
  <2>7. a.stage \in {"value", "dup", "copy"} /\ a.depth = 1 /\ ~deleted =>
            raiz[Root] # NULL /\ raiz[Root].key = read.key
    BY <1>6, <2>1, <2>2, <2>3, <2>4
  <2>8. a.stage \notin Using
    BY <2>2, <2>3 DEF Using
  <2>9. GetInv'
    BY <1>6, <2>1, <2>3, <2>6, <2>7, <2>8, GetGoesOn
  <2> QED
    BY <1>4, <2>3, <2>9
<1>13. CASE ChooseSide
  <2> DEFINE n == IF Sees > read.key THEN esquerda[Top.node] ELSE direita[Top.node]
             a == Call(n, Top.depth + 1)
  <2>1. Top.stage = "order" /\ GoOn(<<a>>) /\ Looks /\ result' = result
    BY <1>13 DEF ChooseSide, At
  <2> HIDE DEF n
  <2>2. a.depth = Top.depth + 1 /\ a.stage = "raiz"
    BY DEF Call
  <2>3. a.depth > 1 /\ a.depth >= 1 /\ a.depth # 1 /\ a.stage \notin Using
    BY <1>6, <2>2 DEF Using
  <2> HIDE DEF a
  <2>4. frames' = <<a>> /\ rpc' = "reading"
    <3>1. <<a>> # <<>>
      OBVIOUS
    <3> QED
      BY <2>1, <3>1 DEF GoOn
  <2>5. NoData \in possible \/ deleted
    BY <1>6, <2>1 DEF FoundNothing
  <2>6. GetInv'
    BY <2>1, <2>2, <2>3, <2>4, <2>5, GetGoesOn
  <2> QED
    BY <1>4, <2>4, <2>6
<1>14. CASE DupNothing
  <2>1. /\ Top.stage = "dup" /\ rpc' = "done" /\ result' = NoData /\ Sees = EMPTY
    BY <1>6, <1>14 DEF DupNothing, At, GoOn
  <2>2. CASE Top.depth > 1
    BY <1>5, <1>6, <2>1, <2>2 DEF FoundNothing
  <2>3. CASE Top.depth = 1
    <3>1. Top.node \in torn
      BY <2>1, EmptiedIsTorn DEF Using, Getting
    <3> QED
      BY <1>5, <1>6, <2>1, <2>3, <3>1
  <2> QED
    BY <1>6, <2>2, <2>3
<1>15. CASE Dup
  <2> DEFINE a == [Top EXCEPT !.stage = "copy"]
  <2>1. /\ Top.stage = "dup" /\ frames' = <<a>> \o Tail(frames) /\ Looks /\ result' = result
        /\ rpc' = "reading" /\ held' = held
    BY <1>15 DEF Dup, At
  <2>2. a.node = Top.node /\ a.depth = Top.depth /\ a.stage = "copy"
    BY <1>6 DEF Frame
  <2> HIDE DEF a
  <2>3. frames' = <<a>>
    BY <2>1, OnlyCall
  <2>4. a.depth > 1 \/ a.stage \in {"side", "order"} => NoData \in possible \/ deleted
    BY <1>6, <2>2 DEF FoundNothing
  <2>5. a.stage \in {"value", "dup", "copy"} /\ a.depth = 1 /\ ~deleted =>
            /\ raiz[Root] # NULL
            /\ raiz[Root].key = read.key \/ (raiz[Root].key = FREED /\ task.key = read.key)
    BY <1>6, <2>1, <2>2 DEF StillTheEntry
  <2>6. ~deleted => held' \in {LINKED, FREED}
    BY <1>6, <2>1 DEF HeldFreed, Using
  <2>7. GetInv'
    BY <1>6, <2>1, <2>2, <2>3, <2>4, <2>5, <2>6, GetGoesOn
  <2> QED
    BY <1>4, <2>1, <2>7
<1>16. CASE CopyValue
  <2>1. /\ Top.stage = "copy" /\ Sees \in Values
        /\ result' = IF Top.depth = 1 THEN Sees ELSE NoData
        /\ rpc' = "done"
    BY <1>16 DEF CopyValue, At, GoOn
  <2>2. CASE Top.depth > 1
    <3>1. (NoData \in possible \/ deleted) /\ result' = NoData
      BY <1>6, <2>1, <2>2 DEF FoundNothing
    <3> QED
      BY <1>5, <2>1, <3>1
  <2>3. CASE deleted
    BY <1>5, <2>1, <2>3
  <2>4. CASE Top.depth = 1 /\ ~deleted
    <3>1. held = LINKED
      BY <1>6, <2>1, <2>4, TreeRaceAssumption DEF HeldFreed, Using, Sees
    <3>2. Sees = raiz[Root].value
      BY <1>6, <2>1, <2>4, <3>1 DEF Sees, HeldField
    <3>3. /\ raiz[Root] # NULL
          /\ raiz[Root].key = read.key \/ raiz[Root].key = FREED
      BY <1>6, <2>1, <2>4 DEF StillTheEntry
    <3>4. RootAnswers = {raiz[Root].value} \cap Values
      BY <3>3 DEF RootAnswers
    <3> QED
      BY <1>5, <1>6, <2>1, <2>4, <3>2, <3>4
  <2> QED
    BY <1>6, <2>2, <2>3, <2>4
<1> QED
  BY <1>7, <1>8, <1>9, <1>10, <1>11, <1>12, <1>13, <1>14, <1>15, <1>16 DEF Reader

LEMMA StutterKeepsAnswers == AnswerInv /\ UNCHANGED vars => AnswerInv'
<1> SUFFICES ASSUME AnswerInv, UNCHANGED vars PROVE AnswerInv'
  OBVIOUS
<1>1. /\ raiz' = raiz /\ esquerda' = esquerda /\ direita' = direita /\ depth' = depth
      /\ used' = used /\ task' = task /\ read' = read /\ frames' = frames /\ Top' = Top
      /\ result' = result /\ rpc' = rpc /\ possible' = possible /\ deleted' = deleted
      /\ held' = held /\ torn' = torn
  BY DEF vars, nodes, writer, reader, history, Top
<1>2. Stored' = Stored /\ RootAnswers' = RootAnswers /\ Number' = Number
  BY <1>1 DEF Stored, RootAnswers, Number, Tall
<1>3. GetInv' /\ AnswersWereRight'
  BY <1>1, <1>2 DEF AnswerInv, GetInv, Getting, FoundNothing, StillTheEntry, HeldFreed,
     AnswersWereRight
<1>4. Between => Between'
  BY <1>1, <1>2 DEF Between
<1>5. ASSUME NEW V, NEW S, Tour(V), Lower(V, S) PROVE Tour(V)' /\ Lower(V, S)'
  <2>1. Tour(V)'
    BY <1>1, <1>2, <1>5 DEF Tour, Tallied, Covered, Fresh, Pending, Placed, ChildOf
  <2>2. Lower(V, S)'
    BY <1>1, <1>2, <1>5 DEF Lower, Begun, Enough, Reached, Due, DueIn, ChildOf
  <2> QED
    BY <2>1, <2>2
<1>6. CountInv'
  <2>1. Counting' => Counting
    BY <1>1 DEF Counting
  <2>2. Nodes' = Nodes
    BY DEF Nodes, MaxNodes
  <2> QED
    BY <1>4, <1>5, <2>1, <2>2, Zenon DEF AnswerInv, CountInv
<1> QED
  BY <1>3, <1>6 DEF AnswerInv

LEMMA AnswersInductive ==
  IInv /\ Shape /\ AnswerInv /\ AnswersAgree' /\ [Next]_vars => AnswerInv'
<1> SUFFICES ASSUME TreeInv, ReaderInv, Shape, AnswerInv, AnswersAgree', [Next]_vars
    PROVE  AnswerInv'
  BY DEF IInv
<1>1. CASE WriterStep
  BY <1>1, WriterKeepsAnswers
<1>2. CASE \E r \in Counts \cup Gets : Read(r)
  BY <1>2, ReadKeepsAnswers
<1>3. CASE Reader
  <2>1. rpc = "reading"
    BY <1>3 DEF Reader, FollowNull, LookEmpty, Count, GoLeft, GoRight, GetBegins, Unlinked,
                LoadField, ReadsFreed, CompareKey, ChooseSide, DupNothing, Dup, CopyNothing,
                CopyValue, At
  <2>2. Counting \/ Getting
    BY <2>1 DEF ReaderInv, ReaderTypeOK, Counting, Getting
  <2> QED
    BY <1>3, <2>2, CountingKeepsAnswers, GettingKeepsAnswers DEF AnswerInv
<1>4. CASE UNCHANGED vars
  BY <1>4, StutterKeepsAnswers
<1> QED
  BY <1>1, <1>2, <1>3, <1>4 DEF Next, WriterStep

-----------------------------------------------------------------------------
(* The nodes as a map.  Each node that hangs in the tree has an area: the  *)
(* keys whose search comes to it.  The areas are bound by a quantifier, so *)
(* that the model need not carry them.                                     *)

KeyAt(n) == Entries[n].key

\* c is a child of p that the writer is not about to replace.
LeftOf(p, c) == esquerda[p] = c /\ ~(p = place /\ wpc = "left")
RightOf(p, c) == direita[p] = c /\ ~(p = place /\ wpc \in {"left", "right"})

Hangs(n) == n = Root \/ \E p \in Stored : LeftOf(p, n) \/ RightOf(p, n)

Smaller(K, k) == {j \in K : j < k}
Larger(K, k) == {j \in K : j > k}

\* No search comes to both nodes, or those that come to n pass m.
Outside(area, m, n) ==
    area[m] \cap area[n] = {} \/ (m \in Stored /\ area[n] \subseteq area[m] \ {KeyAt(m)})

Split(area) ==
    \A p \in Stored, c \in Nodes :
        /\ LeftOf(p, c) => area[c] = Smaller(area[p], KeyAt(p))
        /\ RightOf(p, c) => area[c] = Larger(area[p], KeyAt(p))

Apart(area) ==
    \A m, n \in Nodes :
        Hangs(m) /\ Hangs(n) /\ m # n => Outside(area, m, n) \/ Outside(area, n, m)

\* Below an entry that was just linked there is nothing but the new child.
NothingBelow(area) ==
    wpc \in {"left", "right"} =>
        \A m \in Nodes : Hangs(m) /\ m # place =>
            Outside(area, m, place) \/ (wpc = "right" /\ m = esquerda[place])

Areas(area) ==
    /\ area \in [Nodes -> SUBSET Keys]
    /\ area[Root] = Keys
    /\ \A n \in Stored : KeyAt(n) \in area[n]
    /\ Split(area) /\ Apart(area) /\ NothingBelow(area)
    /\ wpc = "search" => task.key \in area[place]

MapInv ==
    /\ \E area : Areas(area)
    /\ wpc = "storevalue" => raiz[place].key = task.key

LEMMA HangingFacts ==
  ASSUME TreeInv, Shape
  PROVE  /\ \A n \in Stored : Hangs(n)
         /\ wpc \in {"search", "left", "right"} => Hangs(place)
         /\ Stored # {} => Root \in Stored
<1> USE NodeFacts
<1>1. ASSUME NEW n \in Nodes, Attached(n), n \in Stored \/ wpc = "search" PROVE Hangs(n)
  BY <1>1 DEF Attached, ChildOf, Hangs, LeftOf, RightOf, Shape, BareChildren
<1> QED
  BY <1>1 DEF Shape, Grown, BareChildren, Stored

LEMMA EntryFacts ==
  ASSUME TreeInv, NEW n \in Stored
  PROVE  /\ Entries[n] \in [key : Keys, value : Values]
         /\ KeyAt(n) \in Keys /\ Entries[n].value \in Values
<1>1. n \in Nodes /\ raiz[n] # NULL /\ raiz[n] \in Entry /\ task \in [key : Keys, value : Values]
  BY DEF Stored, TreeInv, TreeTypeOK
<1>2. ~(Replacing /\ n = place) => raiz[n].key # FREED /\ raiz[n].value \in Values
  BY <1>1 DEF TreeInv, FreedOnlyHere, Replacing
<1>3. Entries[n] \in [key : Keys, value : Values]
  BY <1>1, <1>2 DEF Entries, Entry, KeyStates
<1> QED
  BY <1>3 DEF KeyAt

\* No key is stored twice: one of the two searches would pass it.
LEMMA OneNodeEach ==
  ASSUME TreeInv, Shape, NEW area, Areas(area), NEW m \in Stored, NEW n \in Stored,
         KeyAt(m) = KeyAt(n)
  PROVE  m = n
<1>1. m \in Nodes /\ n \in Nodes /\ Hangs(m) /\ Hangs(n)
  BY NodeFacts, HangingFacts
<1>2. KeyAt(m) \in area[m] /\ KeyAt(n) \in area[n]
  BY DEF Areas
<1>3. ~Outside(area, m, n) /\ ~Outside(area, n, m)
  BY <1>2 DEF Outside
<1> QED
  BY <1>1, <1>3 DEF Areas, Apart

\* The put's key is nowhere else than where its search is.
LEMMA SearchedHere ==
  ASSUME TreeInv, Shape, NEW area, Areas(area), wpc = "search", NEW n \in Stored,
         KeyAt(n) = task.key, raiz[place] = NULL \/ raiz[place].key = task.key
  PROVE  n = place
<1>1. n \in Nodes /\ place \in Nodes /\ Hangs(n) /\ Hangs(place)
  BY NodeFacts, HangingFacts
<1>2. task.key \in area[n] /\ task.key \in area[place]
  BY DEF Areas
<1>3. ~Outside(area, n, place)
  BY <1>2 DEF Outside
<1>4. place \in Stored => KeyAt(place) = task.key
  BY DEF Stored, KeyAt, Entries, Replacing
<1>5. ~Outside(area, place, n)
  BY <1>2, <1>4 DEF Outside
<1> QED
  BY <1>1, <1>3, <1>5 DEF Areas, Apart

-----------------------------------------------------------------------------
(* The areas after each store.                                             *)

LEMMA InitMap == Init => MapInv
<1> SUFFICES ASSUME Init PROVE MapInv
  OBVIOUS
<1> DEFINE area == [n \in Nodes |-> Keys]
<1>1. Root \in Nodes
  BY TreeRaceAssumption DEF Nodes, MaxNodes, Root
<1>2. Stored = {} /\ wpc = "idle"
  BY DEF Init, Stored
<1>3. \A n \in Nodes : Hangs(n) => n = Root
  BY <1>2 DEF Hangs
<1>4. Areas(area)
  BY <1>1, <1>2, <1>3 DEF Areas, Split, Apart, NothingBelow
<1> QED
  BY <1>2, <1>4 DEF MapInv

\* A step that moves no entry to another key.
KeysStay ==
    /\ Stored' = Stored /\ esquerda' = esquerda /\ direita' = direita
    /\ \A n \in Stored : KeyAt(n)' = KeyAt(n)
    /\ wpc \notin {"left", "right"} /\ wpc' \notin {"left", "right"}

LEMMA KeysStayAreas ==
  ASSUME TreeInv, NEW area, Areas(area), KeysStay, wpc' = "search" => task'.key \in area[place']
  PROVE  Areas(area)'
<1>1. \A p, c : (LeftOf(p, c)' <=> LeftOf(p, c)) /\ (RightOf(p, c)' <=> RightOf(p, c))
  BY DEF KeysStay, LeftOf, RightOf
<1>2. \A n : Hangs(n)' <=> Hangs(n)
  BY <1>1 DEF KeysStay, Hangs
<1>3. Split(area)'
  BY <1>1 DEF KeysStay, Areas, Split
<1>4. Apart(area)'
  BY <1>2 DEF KeysStay, Areas, Apart, Outside
<1>5. NothingBelow(area)'
  BY DEF KeysStay, NothingBelow
<1> QED
  BY <1>3, <1>4, <1>5 DEF KeysStay, Areas

LEMMA BeginPutKeepsMap ==
  ASSUME TreeInv, MapInv, NEW k \in Keys, NEW v \in Values, BeginPut(k, v)
  PROVE  MapInv' /\ View' = View
<1>1. PICK area : Areas(area)
  BY DEF MapInv
<1>2. /\ raiz' = raiz /\ esquerda' = esquerda /\ direita' = direita /\ task'.key = k
      /\ wpc = "idle" /\ wpc' = "search" /\ place' = Root
  BY DEF BeginPut, nodes
<1>3. Stored' = Stored /\ Entries' = Entries
  BY <1>2 DEF Stored, Entries, Replacing
<1>4. KeysStay
  BY <1>2, <1>3 DEF KeysStay, KeyAt
<1>5. task'.key \in area[place']
  BY <1>1, <1>2 DEF Areas
<1>6. Areas(area)'
  BY <1>1, <1>4, <1>5, KeysStayAreas
<1>7. View' = View
  BY <1>2, <1>3 DEF View
<1> QED
  BY <1>2, <1>6, <1>7 DEF MapInv

LEMMA SearchKeepsMap ==
  ASSUME TreeInv, MapInv, Search
  PROVE  MapInv' /\ View' = View
<1> USE NodeFacts
<1>1. PICK area : Areas(area)
  BY DEF MapInv
<1>2. /\ raiz' = raiz /\ esquerda' = esquerda /\ direita' = direita /\ task' = task
      /\ wpc = "search" /\ wpc' = "search" /\ place \in Stored /\ raiz[place].key # task.key
      /\ place' = IF raiz[place].key < task.key THEN direita[place] ELSE esquerda[place]
  BY DEF Search, nodes, Stored
<1>3. Stored' = Stored /\ Entries' = Entries
  BY <1>2 DEF Stored, Entries, Replacing
<1>4. KeysStay
  BY <1>2, <1>3 DEF KeysStay, KeyAt
<1>5. task.key \in area[place']
  <2>1. KeyAt(place) = raiz[place].key /\ task.key \in area[place]
    BY <1>1, <1>2 DEF KeyAt, Entries, Replacing, Areas
  <2>2. KeyAt(place) \in Nat /\ task.key \in Nat
    BY <1>2, EntryFacts, TreeRaceAssumption DEF TreeInv, TreeTypeOK
  <2>3. place' \in Nodes
    BY <1>2 DEF TreeInv, EntriesOpen, IsOpen, Stored
  <2>4. CASE raiz[place].key < task.key
    <3>1. RightOf(place, place')
      BY <1>2, <2>4 DEF RightOf
    <3>2. area[place'] = Larger(area[place], KeyAt(place))
      BY <1>1, <1>2, <2>3, <3>1 DEF Areas, Split
    <3> QED
      BY <2>1, <2>2, <2>4, <3>2 DEF Larger
  <2>5. CASE ~(raiz[place].key < task.key)
    <3>1. LeftOf(place, place')
      BY <1>2, <2>5 DEF LeftOf
    <3>2. area[place'] = Smaller(area[place], KeyAt(place))
      BY <1>1, <1>2, <2>3, <3>1 DEF Areas, Split
    <3>3. task.key < KeyAt(place)
      BY <1>2, <2>1, <2>2, <2>5
    <3> QED
      BY <2>1, <3>2, <3>3 DEF Smaller
  <2> QED
    BY <2>4, <2>5
<1>6. Areas(area)'
  BY <1>1, <1>2, <1>4, <1>5, KeysStayAreas
<1>7. View' = View
  BY <1>2, <1>3 DEF View
<1> QED
  BY <1>2, <1>6, <1>7 DEF MapInv

LEMMA LinkEntryAreas ==
  ASSUME TreeInv, Shape, NEW area, Areas(area), LinkEntry
  PROVE  Areas(area)'
<1> USE NodeFacts
<1>1. /\ Stored' = Stored \cup {place} /\ place \notin Stored
      /\ \A n \in Nodes : raiz'[n] = IF n = place THEN task ELSE raiz[n]
  BY LinkEntryStores
<1>2. /\ esquerda' = esquerda /\ direita' = direita /\ place' = place /\ task' = task
      /\ wpc = "search" /\ wpc' = "left" /\ Hangs(place)
  BY HangingFacts DEF LinkEntry
<1>3. /\ \A n \in Stored : KeyAt(n)' = KeyAt(n)
      /\ KeyAt(place)' = task.key /\ task.key \in area[place]
  BY <1>1, <1>2 DEF KeyAt, Entries, Replacing, Areas
<1>4. \A p \in Stored', c \in Nodes :
        /\ LeftOf(p, c)' <=> p \in Stored /\ LeftOf(p, c)
        /\ RightOf(p, c)' <=> p \in Stored /\ RightOf(p, c)
  BY <1>1, <1>2 DEF LeftOf, RightOf
<1>5. \A n \in Nodes : Hangs(n)' <=> Hangs(n)
  BY <1>1, <1>4 DEF Hangs
<1>6. Split(area)'
  BY <1>3, <1>4 DEF Areas, Split
<1>7. \A m, n \in Nodes : Outside(area, m, n) => Outside(area, m, n)'
  BY <1>1, <1>3 DEF Outside
<1>8. Apart(area)'
  BY <1>5, <1>7 DEF Areas, Apart
<1>9. NothingBelow(area)'
  <2>1. \A m \in Nodes : Outside(area, place, m) => Outside(area, m, place)
    BY <1>1 DEF Outside
  <2>2. \A m \in Nodes : Hangs(m) /\ m # place => Outside(area, m, place)
    BY <1>2, <2>1 DEF Areas, Apart
  <2> QED
    BY <1>2, <1>5, <1>7, <2>2 DEF NothingBelow
<1> QED
  BY <1>1, <1>2, <1>3, <1>6, <1>8, <1>9 DEF Areas

\* The child the writer creates is the only new node in the tree.
LEMMA ChildHangs ==
  ASSUME TreeInv, Shape, LinkLeft \/ LinkRight
  PROVE  /\ used + 1 \in Nodes \ Stored /\ ~Hangs(used + 1) /\ Stored' = Stored
         /\ \A p \in Stored, n \in Nodes :
              /\ LeftOf(p, n)' <=> LeftOf(p, n) \/ (LinkLeft /\ p = place /\ n = used + 1)
              /\ RightOf(p, n)' <=> RightOf(p, n) \/ (LinkRight /\ p = place /\ n = used + 1)
         /\ \A n \in Nodes : Hangs(n)' <=> Hangs(n) \/ n = used + 1
         /\ Entries' = Entries /\ \A n : KeyAt(n)' = KeyAt(n)
         /\ place' = place /\ place \in Stored /\ raiz' = raiz
<1> USE NodeFacts
<1>1. /\ used + 1 \in Nodes /\ raiz' = raiz /\ Stored' = Stored /\ used + 1 \notin Stored
      /\ used + 1 \notin 1..used /\ \A n \in Nodes : ~ChildOf(used + 1, n)
  BY NewNodeFacts
<1>2. ~Hangs(used + 1)
  BY <1>1 DEF Hangs, LeftOf, RightOf, ChildOf
<1>3. place' = place /\ place \in Stored
  BY LinkLeftStores, LinkRightStores DEF LinkLeft, LinkRight, Shape, BareChildren, Stored
<1>4. \A p \in Stored, n \in Nodes :
        /\ LeftOf(p, n)' <=> LeftOf(p, n) \/ (LinkLeft /\ p = place /\ n = used + 1)
        /\ RightOf(p, n)' <=> RightOf(p, n) \/ (LinkRight /\ p = place /\ n = used + 1)
  <2>1. CASE LinkLeft
    <3>1. wpc = "left" /\ ~LinkRight
      BY <2>1 DEF LinkLeft, LinkRight
    <3>2. /\ direita' = direita /\ wpc' = "right"
          /\ \A n \in Nodes : esquerda'[n] = IF n = place THEN used + 1 ELSE esquerda[n]
      BY <2>1, LinkLeftStores
    <3> QED
      BY <1>3, <2>1, <3>1, <3>2 DEF LeftOf, RightOf
  <2>2. CASE LinkRight
    <3>1. wpc = "right" /\ ~LinkLeft
      BY <2>2 DEF LinkLeft, LinkRight
    <3>2. /\ esquerda' = esquerda /\ wpc' = "idle"
          /\ \A n \in Nodes : direita'[n] = IF n = place THEN used + 1 ELSE direita[n]
      BY <2>2, LinkRightStores
    <3> QED
      BY <1>3, <2>2, <3>1, <3>2 DEF LeftOf, RightOf
  <2> QED
    BY <2>1, <2>2
<1>5. \A n \in Nodes : Hangs(n)' <=> Hangs(n) \/ n = used + 1
  BY <1>1, <1>3, <1>4 DEF Hangs
<1>6. ~Replacing /\ ~Replacing'
  BY DEF LinkLeft, LinkRight, Replacing
<1>7. Entries' = Entries /\ \A n : KeyAt(n)' = KeyAt(n)
  BY <1>1, <1>6 DEF Entries, KeyAt
<1> QED
  BY <1>1, <1>2, <1>3, <1>4, <1>5, <1>7

\* Keys that may be given to a child of the entry just linked, ...
Vacant(area, A) ==
    /\ A \in SUBSET Keys /\ A \subseteq area[place] \ {KeyAt(place)}
    /\ \A m \in Nodes : Hangs(m) /\ m # place => Outside(area, m, place) \/ area[m] \cap A = {}

\* ... and the areas when they are.
Given(area, A, area1) ==
    /\ area1 \in [Nodes -> SUBSET Keys] /\ area1[Root] = Keys /\ area1[used + 1] = A
    /\ \A n \in Nodes \ {used + 1} : area1[n] = area[n]
    /\ \A m, n \in Nodes \ {used + 1} : Outside(area, m, n) => Outside(area1, m, n)'
    /\ Apart(area1)'

LEMMA ChildAreas ==
  ASSUME TreeInv, Shape, NEW area, Areas(area), LinkLeft \/ LinkRight,
         NEW A, Vacant(area, A), NEW area1, area1 = [area EXCEPT ![used + 1] = A]
  PROVE  Given(area, A, area1)
<1> USE NodeFacts
<1>0. PICK c : c = used + 1
  OBVIOUS
<1>1. /\ c \in Nodes \ Stored /\ ~Hangs(c) /\ Stored' = Stored
      /\ \A n \in Nodes : Hangs(n)' <=> Hangs(n) \/ n = c
      /\ \A n : KeyAt(n)' = KeyAt(n)
      /\ place \in Stored
  BY <1>0, ChildHangs
<1>2. /\ area1 \in [Nodes -> SUBSET Keys] /\ area1[c] = A
      /\ \A n \in Nodes \ {c} : area1[n] = area[n]
  BY <1>0, <1>1 DEF Areas, Vacant
<1>3. Root # c
  BY <1>1 DEF Hangs
<1>4. \A m, n \in Nodes \ {c} : Outside(area, m, n) => Outside(area1, m, n)'
  BY <1>1, <1>2 DEF Outside
<1>5. ASSUME NEW m \in Nodes, Hangs(m), m # c
      PROVE  Outside(area1, m, c)'
  <2>1. CASE m = place
    BY <1>1, <1>2, <1>5, <2>1 DEF Outside, Vacant
  <2>2. CASE m # place /\ Outside(area, m, place)
    BY <1>1, <1>2, <1>5, <2>2 DEF Outside, Vacant
  <2>3. CASE m # place /\ area[m] \cap A = {}
    BY <1>2, <1>5, <2>3 DEF Outside, Vacant
  <2> QED
    BY <1>5, <2>1, <2>2, <2>3 DEF Vacant
<1>6. Apart(area1)'
  <2> SUFFICES ASSUME NEW m \in Nodes, NEW n \in Nodes, Hangs(m)', Hangs(n)', m # n
      PROVE  Outside(area1, m, n)' \/ Outside(area1, n, m)'
    BY DEF Apart
  <2>1. CASE m # c /\ n # c
    BY <1>1, <1>4, <2>1 DEF Areas, Apart
  <2>2. CASE m = c \/ n = c
    BY <1>1, <1>5, <2>2
  <2> QED
    BY <2>1, <2>2
<1> QED
  BY <1>0, <1>2, <1>3, <1>4, <1>6 DEF Areas, Given

LEMMA LinkLeftAreas ==
  ASSUME TreeInv, Shape, NEW area, Areas(area), LinkLeft
  PROVE  \E area1 : Areas(area1)'
<1> USE NodeFacts
<1>0. PICK c, A, area1 :
        c = used + 1 /\ A = Smaller(area[place], KeyAt(place)) /\ area1 = [area EXCEPT ![c] = A]
  OBVIOUS
<1>1. /\ c \in Nodes \ Stored /\ ~Hangs(c) /\ Stored' = Stored
      /\ \A p \in Stored, n \in Nodes :
           /\ LeftOf(p, n)' <=> LeftOf(p, n) \/ (p = place /\ n = c)
           /\ RightOf(p, n)' <=> RightOf(p, n)
      /\ \A n \in Nodes : Hangs(n)' <=> Hangs(n) \/ n = c
      /\ \A n : KeyAt(n)' = KeyAt(n)
      /\ place' = place /\ place \in Stored
  <2>1. ~LinkRight
    BY DEF LinkLeft, LinkRight
  <2> QED
    BY <1>0, <2>1, ChildHangs
<1>2. wpc = "left" /\ wpc' = "right" /\ esquerda'[place] = c
  BY <1>0, LinkLeftStores DEF LinkLeft
<1>3. A \in SUBSET Keys /\ A \subseteq area[place] \ {KeyAt(place)}
  <2>1. area[place] \subseteq Keys /\ KeyAt(place) \in Nat
    BY <1>1, EntryFacts, TreeRaceAssumption DEF Areas
  <2> QED
    BY <1>0, <2>1, TreeRaceAssumption DEF Smaller
<1>4. \A m \in Nodes : Hangs(m) /\ m # place => Outside(area, m, place)
  BY <1>2 DEF Areas, NothingBelow
<1>5. /\ area1 \in [Nodes -> SUBSET Keys] /\ area1[Root] = Keys /\ area1[c] = A
      /\ \A n \in Nodes \ {c} : area1[n] = area[n]
      /\ \A m, n \in Nodes \ {c} : Outside(area, m, n) => Outside(area1, m, n)'
      /\ Apart(area1)'
  <2>1. Vacant(area, A)
    BY <1>3, <1>4 DEF Vacant
  <2>2. area1 = [area EXCEPT ![used + 1] = A]
    BY <1>0
  <2>3. Given(area, A, area1)
    BY <2>1, <2>2, ChildAreas
  <2> QED
    BY <1>0, <2>3 DEF Given
<1>6. ASSUME NEW p \in Stored, NEW n \in Nodes
      PROVE  /\ LeftOf(p, n)' => area1[n] = Smaller(area1[p], KeyAt(p)')
             /\ RightOf(p, n)' => area1[n] = Larger(area1[p], KeyAt(p)')
  <2>1. p # c /\ p \in Nodes
    BY <1>1
  <2>2. LeftOf(p, n) \/ RightOf(p, n) => n # c
    BY <1>1 DEF Hangs
  <2>3. CASE p = place /\ n = c
    BY <1>0, <1>1, <1>5, <2>1, <2>2, <2>3
  <2>4. CASE ~(p = place /\ n = c)
    BY <1>1, <1>5, <2>1, <2>2, <2>4 DEF Areas, Split
  <2> QED
    BY <2>3, <2>4
<1>7. Split(area1)'
  BY <1>1, <1>6 DEF Split
<1>8. NothingBelow(area1)'
  <2>1. place # c
    BY <1>1
  <2> QED
    BY <1>0, <1>1, <1>2, <1>4, <1>5, <2>1 DEF NothingBelow
<1>9. \A n \in Stored : KeyAt(n)' \in area1[n]
  BY <1>1, <1>5 DEF Areas
<1> QED
  BY <1>1, <1>2, <1>5, <1>7, <1>8, <1>9 DEF Areas

LEMMA LinkRightAreas ==
  ASSUME TreeInv, Shape, NEW area, Areas(area), LinkRight
  PROVE  \E area1 : Areas(area1)'
<1> USE NodeFacts
<1>0. PICK c, A, area1 :
        c = used + 1 /\ A = Larger(area[place], KeyAt(place)) /\ area1 = [area EXCEPT ![c] = A]
  OBVIOUS
<1>1. /\ c \in Nodes \ Stored /\ ~Hangs(c) /\ Stored' = Stored
      /\ \A p \in Stored, n \in Nodes :
           /\ LeftOf(p, n)' <=> LeftOf(p, n)
           /\ RightOf(p, n)' <=> RightOf(p, n) \/ (p = place /\ n = c)
      /\ \A n \in Nodes : Hangs(n)' <=> Hangs(n) \/ n = c
      /\ \A n : KeyAt(n)' = KeyAt(n)
      /\ place' = place /\ place \in Stored
  <2>1. ~LinkLeft
    BY DEF LinkLeft, LinkRight
  <2> QED
    BY <1>0, <2>1, ChildHangs
<1>2. wpc = "right" /\ wpc' = "idle"
  BY LinkRightStores DEF LinkRight
<1>3. /\ A \in SUBSET Keys /\ A \subseteq area[place] \ {KeyAt(place)}
      /\ Smaller(area[place], KeyAt(place)) \cap A = {}
  <2>1. area[place] \subseteq Nat /\ area[place] \subseteq Keys /\ KeyAt(place) \in Nat
    BY <1>1, EntryFacts, TreeRaceAssumption DEF Areas
  <2> QED
    BY <1>0, <2>1 DEF Smaller, Larger
<1>4. \A m \in Nodes : Hangs(m) /\ m # place =>
        Outside(area, m, place) \/ area[m] \cap A = {}
  <2>1. ASSUME NEW m \in Nodes, m = esquerda[place] PROVE area[m] \cap A = {}
    <3>1. LeftOf(place, m)
      BY <1>2, <2>1 DEF LeftOf
    <3>2. area[m] = Smaller(area[place], KeyAt(place))
      BY <1>1, <3>1 DEF Areas, Split
    <3> QED
      BY <1>3, <3>2
  <2> QED
    BY <1>2, <2>1 DEF Areas, NothingBelow
<1>5. /\ area1 \in [Nodes -> SUBSET Keys] /\ area1[Root] = Keys /\ area1[c] = A
      /\ \A n \in Nodes \ {c} : area1[n] = area[n]
      /\ Apart(area1)'
  <2>1. Vacant(area, A)
    BY <1>3, <1>4 DEF Vacant
  <2>2. area1 = [area EXCEPT ![used + 1] = A]
    BY <1>0
  <2>3. Given(area, A, area1)
    BY <2>1, <2>2, ChildAreas
  <2> QED
    BY <1>0, <2>3 DEF Given
<1>6. ASSUME NEW p \in Stored, NEW n \in Nodes
      PROVE  /\ LeftOf(p, n)' => area1[n] = Smaller(area1[p], KeyAt(p)')
             /\ RightOf(p, n)' => area1[n] = Larger(area1[p], KeyAt(p)')
  <2>1. p # c /\ p \in Nodes
    BY <1>1
  <2>2. LeftOf(p, n) \/ RightOf(p, n) => n # c
    BY <1>1 DEF Hangs
  <2>3. CASE p = place /\ n = c
    BY <1>0, <1>1, <1>5, <2>1, <2>2, <2>3
  <2>4. CASE ~(p = place /\ n = c)
    BY <1>1, <1>5, <2>1, <2>2, <2>4 DEF Areas, Split
  <2> QED
    BY <2>3, <2>4
<1>7. Split(area1)'
  BY <1>1, <1>6 DEF Split
<1>8. NothingBelow(area1)'
  BY <1>2 DEF NothingBelow
<1>9. \A n \in Stored : KeyAt(n)' \in area1[n]
  BY <1>1, <1>5 DEF Areas
<1> QED
  BY <1>1, <1>2, <1>5, <1>7, <1>8, <1>9 DEF Areas

LEMMA LinkChildKeepsMap ==
  ASSUME TreeInv, Shape, MapInv, LinkLeft \/ LinkRight
  PROVE  MapInv' /\ View' = View
<1>1. PICK area : Areas(area)
  BY DEF MapInv
<1>2. (\E area1 : Areas(area1))'
  BY <1>1, LinkLeftAreas, LinkRightAreas
<1>3. wpc' # "storevalue"
  BY DEF LinkLeft, LinkRight
<1>4. Stored' = Stored /\ Entries' = Entries
  BY ChildHangs
<1>5. View' = View
  BY <1>4 DEF View
<1> QED
  BY <1>2, <1>3, <1>5 DEF MapInv

-----------------------------------------------------------------------------
(* What each store does to the map.                                        *)

\* What entry_replace leaves of the entries: from its first store on, the
\* entry is the put's.
LEMMA ReplacedEntries ==
  ASSUME TreeInv, Shape, MapInv, ReplaceStep
  PROVE  /\ Stored' = Stored /\ place \in Stored /\ place' = place /\ task' = task
         /\ Entries'[place] = task
         /\ \A n \in Stored \ {place} : Entries'[n] = Entries[n]
         /\ wpc = "search" => KeyAt(place) = task.key /\ raiz[place].key = task.key
         /\ wpc # "search" => Entries[place] = task
         /\ wpc' = "storevalue" => raiz'[place].key = task.key
         /\ wpc' \notin {"search", "left", "right"} /\ wpc \notin {"left", "right"}
<1> USE NodeFacts
<1>1. EntryChanged /\ Stored' = Stored
  BY ReplaceStores, EntryChangedStored
<1>2. place \in Stored /\ place' = place /\ task' = task
  BY <1>1 DEF EntryChanged, Stored
<1>3. \A n \in Nodes \ {place} : raiz'[n] = raiz[n]
  BY <1>1 DEF EntryChanged, EntryStored
<1>4. \A n \in Stored \ {place} : Entries'[n] = Entries[n]
  BY <1>1, <1>2, <1>3 DEF Entries
<1>5. CASE wpc = "storevalue"
  <2>1. /\ wpc' = "idle" /\ raiz'[place] \in Entry \cup {NULL} /\ raiz'[place] # NULL
        /\ raiz'[place].value = task.value /\ raiz'[place].key = raiz[place].key
    BY <1>1, <1>5 DEF EntryChanged, EntryStored
  <2>2. raiz'[place].key = task.key
    BY <1>5, <2>1 DEF MapInv
  <2>3. raiz'[place] = task
    <3>1. task = [key |-> task.key, value |-> task.value]
      BY DEF TreeInv, TreeTypeOK
    <3>2. raiz'[place] = [key |-> raiz'[place].key, value |-> raiz'[place].value]
      BY <2>1 DEF Entry
    <3> QED
      BY <2>1, <2>2, <3>1, <3>2
  <2>4. Entries'[place] = task /\ Entries[place] = task
    BY <1>1, <1>2, <1>5, <2>1, <2>3 DEF Entries, Replacing
  <2> QED
    BY <1>1, <1>2, <1>4, <1>5, <2>1, <2>4
<1>6. CASE wpc # "storevalue"
  <2>1. Replacing' /\ wpc' \notin {"search", "left", "right"} /\ wpc \notin {"left", "right"}
    BY <1>1, <1>6 DEF EntryChanged, Replacing
  <2>2. Entries'[place] = task
    BY <1>1, <1>2, <2>1 DEF Entries
  <2>3. CASE wpc = "search"
    <3>1. raiz[place].key = task.key /\ wpc' = "cleardata"
      BY <1>1, <2>3 DEF EntryChanged
    <3>2. Entries[place] = raiz[place]
      BY <1>2, <2>3 DEF Entries, Replacing
    <3> QED
      BY <1>1, <1>2, <1>4, <2>2, <2>3, <3>1, <3>2 DEF KeyAt
  <2>4. CASE wpc # "search"
    <3>1. /\ Replacing
          /\ wpc' = "storevalue" => EntryStored("key", task.key, "value")
      BY <1>1, <1>6, <2>4 DEF EntryChanged, Replacing
    <3>2. Entries[place] = task
      BY <1>2, <3>1 DEF Entries
    <3>3. wpc' = "storevalue" => raiz'[place].key = task.key
      BY <3>1 DEF EntryStored
    <3> QED
      BY <1>1, <1>2, <1>4, <2>1, <2>2, <2>4, <3>1, <3>2, <3>3
  <2> QED
    BY <2>3, <2>4
<1> QED
  BY <1>5, <1>6

LEMMA ReplaceKeepsMap ==
  ASSUME TreeInv, Shape, MapInv, ReplaceStep
  PROVE  MapInv'
<1>1. PICK area : Areas(area)
  BY DEF MapInv
<1>2. \A n \in Stored : KeyAt(n)' = KeyAt(n)
  BY ReplacedEntries DEF KeyAt
<1>3. esquerda' = esquerda /\ direita' = direita
  BY ReplaceStores DEF EntryChanged
<1>4. KeysStay
  BY <1>2, <1>3, ReplacedEntries DEF KeysStay
<1>5. Areas(area)'
  BY <1>1, <1>4, ReplacedEntries, KeysStayAreas
<1> QED
  BY <1>5, ReplacedEntries DEF MapInv

LEMMA LinkEntryKeepsMap ==
  ASSUME TreeInv, Shape, MapInv, LinkEntry
  PROVE  MapInv'
<1>1. PICK area : Areas(area)
  BY DEF MapInv
<1>2. Areas(area)'
  BY <1>1, LinkEntryAreas
<1> QED
  BY <1>2 DEF MapInv, LinkEntry

\* What a look at the view finds.
LEMMA Found ==
  ASSUME NEW S, NEW e, NEW n \in S, \A m \in S : e[m].key = e[n].key => m = n
  PROVE  /\ \E m \in S : e[m].key = e[n].key
         /\ (CHOOSE m \in S : e[m].key = e[n].key) = n
OBVIOUS

\* The store that ends a search puts the new entry where its key is, if it
\* is anywhere.
LEMMA PutIsOneStep ==
  ASSUME TreeInv, Shape, MapInv, wpc = "search",
         Stored' = Stored \cup {place}, Entries'[place] = task,
         \A n \in Stored \ {place} : Entries'[n] = Entries[n],
         raiz[place] = NULL \/ raiz[place].key = task.key
  PROVE  View' = Map!tree_put(View, task.key, task.value)
<1> USE NodeFacts
<1>1. PICK area : Areas(area)
  BY DEF MapInv
<1>2. task.key \in Keys /\ task.value \in Values /\ NoData \notin Values
  BY TreeRaceAssumption DEF TreeInv, TreeTypeOK
<1>3. \A m, n \in Stored : Entries[m].key = Entries[n].key => m = n
  BY <1>1, OneNodeEach DEF KeyAt
<1>4. \A n \in Stored : Entries[n].key = task.key => n = place
  BY <1>1, SearchedHere DEF KeyAt
<1>5. place \in Stored => Entries[place].key = task.key
  BY DEF Stored, Entries, Replacing
<1>6. \A n \in Stored \cup {place} : Entries'[n].key = task.key => n = place
  BY <1>4
<1>7. \A m, n \in Stored \cup {place} : Entries'[m].key = Entries'[n].key => m = n
  BY <1>3, <1>6
<1>8. ASSUME NEW k \in Keys PROVE View'.data[k] = [View.data EXCEPT ![task.key] = task.value][k]
  <2>1. View'.data[k] =
          IF \E n \in Stored \cup {place} : Entries'[n].key = k
          THEN Entries'[CHOOSE n \in Stored \cup {place} : Entries'[n].key = k].value
          ELSE NoData
    BY DEF View
  <2>2. View.data[k] =
          IF \E n \in Stored : Entries[n].key = k
          THEN Entries[CHOOSE n \in Stored : Entries[n].key = k].value
          ELSE NoData
    BY DEF View
  <2>3. [View.data EXCEPT ![task.key] = task.value][k] =
          IF k = task.key THEN task.value ELSE View.data[k]
    BY <1>2 DEF View
  <2>4. CASE k = task.key
    <3>1. (CHOOSE n \in Stored \cup {place} : Entries'[n].key = k) = place
      BY <1>6, <2>4
    <3> QED
      BY <2>1, <2>3, <2>4, <3>1
  <2>5. CASE k # task.key /\ \E n \in Stored : Entries[n].key = k
    <3>1. PICK n \in Stored : Entries[n].key = k
      BY <2>5
    <3>2. n # place /\ Entries'[n] = Entries[n]
      BY <1>5, <2>5, <3>1
    <3>3. (CHOOSE m \in Stored : Entries[m].key = k) = n
      BY <1>3, <3>1
    <3>4. (CHOOSE m \in Stored \cup {place} : Entries'[m].key = k) = n
      BY <1>7, <3>1, <3>2
    <3> QED
      BY <2>1, <2>2, <2>3, <2>5, <3>1, <3>2, <3>3, <3>4
  <2>6. CASE k # task.key /\ ~\E n \in Stored : Entries[n].key = k
    <3>1. ~\E n \in Stored \cup {place} : Entries'[n].key = k
      BY <2>6
    <3> QED
      BY <2>1, <2>2, <2>3, <2>6, <3>1
  <2> QED
    BY <2>4, <2>5, <2>6
<1>9. View'.root = IF View.root = NULL THEN task.key ELSE View.root
  <2>1. View'.root = IF Root \in Stored \cup {place} THEN Entries'[Root].key ELSE NULL
    BY DEF View
  <2>2. View.root = IF Root \in Stored THEN Entries[Root].key ELSE NULL
    BY DEF View
  <2>3. CASE Root \in Stored
    <3>1. Entries[Root].key # NULL
      BY <2>3, EntryFacts, TreeRaceAssumption DEF KeyAt
    <3>2. Entries'[Root].key = Entries[Root].key
      BY <1>5, <2>3
    <3> QED
      BY <2>1, <2>2, <2>3, <3>1, <3>2
  <2>4. CASE Root \notin Stored
    <3>1. Stored = {} /\ Hangs(place)
      BY <2>4, HangingFacts
    <3>2. place = Root
      BY <3>1 DEF Hangs
    <3> QED
      BY <2>1, <2>2, <2>4, <3>2
  <2> QED
    BY <2>3, <2>4
<1>10. View'.data = [View.data EXCEPT ![task.key] = task.value]
  <2>1. DOMAIN View'.data = Keys /\ DOMAIN View.data = Keys
    BY DEF View
  <2>2. View'.data = [k \in Keys |-> View'.data[k]]
    BY DEF View
  <2>3. [View.data EXCEPT ![task.key] = task.value]
          = [k \in Keys |-> [View.data EXCEPT ![task.key] = task.value][k]]
    BY <2>1
  <2> QED
    BY <1>8, <2>2, <2>3
<1>11. View' = [root |-> View'.root, data |-> View'.data]
  BY DEF View
<1> QED
  BY <1>2, <1>9, <1>10, <1>11 DEF Map!tree_put

LEMMA PutStep ==
  ASSUME TreeInv, Shape, MapInv, LinkEntry \/ FreeBytes
  PROVE  View' = Map!tree_put(View, task.key, task.value)
<1>1. CASE LinkEntry
  <2>1. /\ Stored' = Stored \cup {place} /\ place \in Nodes
        /\ \A n \in Nodes : raiz'[n] = IF n = place THEN task ELSE raiz[n]
    BY <1>1, LinkEntryStores, NodeFacts
  <2>2. wpc = "search" /\ wpc' = "left" /\ raiz[place] = NULL
    BY <1>1 DEF LinkEntry
  <2>3. Entries'[place] = task /\ \A n \in Stored \ {place} : Entries'[n] = Entries[n]
    BY <2>1, <2>2, NodeFacts DEF Entries, Replacing
  <2> QED
    BY <2>1, <2>2, <2>3, PutIsOneStep
<1>2. CASE FreeBytes
  <2>1. ReplaceStep /\ wpc = "search"
    BY <1>2 DEF ReplaceStep, FreeBytes, Replaces
  <2> QED
    BY <2>1, ReplacedEntries, PutIsOneStep
<1> QED
  BY <1>1, <1>2

LEMMA ReplaceGoesOn ==
  ASSUME TreeInv, Shape, MapInv,
         ClearData \/ FreeData \/ FreeKey \/ StoreKey \/ StoreValue
  PROVE  View' = View
<1>1. ReplaceStep /\ wpc # "search"
  BY DEF ReplaceStep, ClearData, FreeData, FreeKey, StoreKey, StoreValue, Replaces
<1>2. Stored' = Stored /\ \A n \in Stored : Entries'[n] = Entries[n]
  BY <1>1, ReplacedEntries
<1>3. Entries' = Entries
  BY <1>2 DEF Entries
<1> QED
  BY <1>2, <1>3 DEF View

LEMMA SizeOfView ==
  ASSUME TreeInv, Shape, MapInv
  PROVE  Map!tree_size(View) = Cardinality(Stored)
<1>1. PICK area : Areas(area)
  BY DEF MapInv
<1> DEFINE K == {k \in Keys : \E n \in Stored : Entries[n].key = k}
           f == [n \in Stored |-> Entries[n].key]
<1>2. \A m, n \in Stored : Entries[m].key = Entries[n].key => m = n
  BY <1>1, OneNodeEach DEF KeyAt
<1>3. Map!KeysOf(View) = K
  <2>1. ASSUME NEW k \in Keys PROVE View.data[k] # NoData <=> k \in K
    <3>1. CASE k \in K
      <4>1. PICK n \in Stored : Entries[n].key = k
        BY <3>1
      <4>2. (CHOOSE m \in Stored : Entries[m].key = k) = n
        BY <1>2, <4>1
      <4>3. View.data[k] = Entries[n].value
        BY <4>1, <4>2 DEF View
      <4>4. Entries[n].value \in Values
        BY EntryFacts
      <4> QED
        BY <3>1, <4>3, <4>4, TreeRaceAssumption
    <3>2. CASE k \notin K
      BY <3>2 DEF View
    <3> QED
      BY <3>1, <3>2
  <2> QED
    BY <2>1 DEF Map!KeysOf
<1>4. f \in [Stored -> K]
  BY EntryFacts DEF KeyAt
<1>5. (\A m, n \in Stored : f[m] = f[n] => m = n) /\ \A k \in K : \E n \in Stored : f[n] = k
  BY <1>2
<1> HIDE DEF f, K
<1>6. f \in Bijection(Stored, K)
  BY <1>4, <1>5 DEF Bijection, Injection, Surjection, IsInjective
<1>7. Cardinality(Stored) = Cardinality(K)
  BY <1>6, StoredFinite, FS_Bijection DEF ExistsBijection
<1> QED
  BY <1>3, <1>7 DEF Map!tree_size, Map!Cardinality, Cardinality

LEMMA DeleteStep ==
  ASSUME TreeInv, Shape, MapInv, NEW k \in Keys, Delete(k)
  PROVE  MapInv' /\ View' = Map!tree_del(View, View.root) /\ Stored = {Root} /\ Stored' = {}
<1>1. Stored = {Root} /\ Stored' = {} /\ wpc' = "idle"
  BY DeleteKeepsShape DEF Delete
<1>2. PICK area : Areas(area)
  BY DEF MapInv
<1>3. \A n \in Nodes : Hangs(n)' => n = Root
  BY <1>1 DEF Hangs
<1>4. Areas(area)'
  BY <1>1, <1>2, <1>3 DEF Areas, Split, Apart, NothingBelow
<1>5. View' = Map!tree_create
  BY <1>1 DEF View, Map!tree_create
<1>6. Map!tree_size(View) = 1
  BY <1>1, SizeOfView, FS_Singleton
<1>7. Map!tree_del(View, View.root) = Map!tree_create
  BY <1>6 DEF Map!tree_del
<1> QED
  BY <1>1, <1>4, <1>5, <1>7 DEF MapInv

LEMMA SameMap ==
  ASSUME TreeInv, MapInv, UNCHANGED <<nodes, writer>>
  PROVE  MapInv' /\ View' = View /\ Stored' = Stored /\ wpc' = wpc
<1>1. /\ raiz' = raiz /\ esquerda' = esquerda /\ direita' = direita /\ wpc' = wpc
      /\ place' = place /\ task' = task
  BY DEF nodes, writer
<1>2. Stored' = Stored /\ Entries' = Entries
  BY <1>1 DEF Stored, Entries, Replacing
<1>3. View' = View
  BY <1>2 DEF View
<1>4. PICK area : Areas(area)
  BY DEF MapInv
<1>5. \A n : KeyAt(n)' = KeyAt(n)
  BY <1>2 DEF KeyAt
<1>6. \A p, c : (LeftOf(p, c)' <=> LeftOf(p, c)) /\ (RightOf(p, c)' <=> RightOf(p, c))
  BY <1>1 DEF LeftOf, RightOf
<1>7. \A n : Hangs(n)' <=> Hangs(n)
  BY <1>2, <1>6 DEF Hangs
<1>8. \A m, n : Outside(area, m, n)' <=> Outside(area, m, n)
  BY <1>2, <1>5 DEF Outside
<1>9. Areas(area)'
  BY <1>1, <1>2, <1>4, <1>5, <1>6, <1>7, <1>8 DEF Areas, Split, Apart, NothingBelow
<1> QED
  BY <1>1, <1>2, <1>3, <1>9 DEF MapInv

\* One step of StoresAreAtomic.
MapStep ==
    View' =
      IF wpc = "search" /\ wpc' # "search" THEN Map!tree_put(View, task.key, task.value)
      ELSE IF Root \in Stored \ Stored' THEN Map!tree_del(View, View.root)
      ELSE View

LEMMA WriterKeepsMap ==
  ASSUME TreeInv, Shape, MapInv, WriterStep
  PROVE  MapInv' /\ MapStep
<1>1. ASSUME NEW k \in Keys, Delete(k) PROVE MapInv' /\ MapStep
  BY <1>1, DeleteStep DEF Delete, MapStep
<1>2. ASSUME NEW k \in Keys, NEW v \in Values, BeginPut(k, v) PROVE MapInv' /\ MapStep
  BY <1>2, BeginPutKeepsMap DEF BeginPut, nodes, MapStep, Stored
<1>3. CASE Search
  BY <1>3, SearchKeepsMap DEF Search, nodes, MapStep, Stored
<1>4. CASE LinkEntry
  BY <1>4, LinkEntryKeepsMap, PutStep DEF LinkEntry, MapStep
<1>5. CASE LinkLeft \/ LinkRight
  BY <1>5, LinkChildKeepsMap DEF LinkLeft, LinkRight, MapStep, Stored
<1>6. CASE FreeBytes
  BY <1>6, ReplaceKeepsMap, PutStep DEF FreeBytes, Replaces, ReplaceStep, MapStep
<1>7. CASE ClearData \/ FreeData \/ FreeKey \/ StoreKey \/ StoreValue
  <2>1. ReplaceStep /\ wpc # "search"
    BY <1>7 DEF ReplaceStep, ClearData, FreeData, FreeKey, StoreKey, StoreValue, Replaces
  <2> QED
    BY <1>7, <2>1, ReplaceKeepsMap, ReplaceGoesOn, ReplacedEntries DEF MapStep
<1> QED
  BY <1>1, <1>2, <1>3, <1>4, <1>5, <1>6, <1>7 DEF WriterStep, Writer

LEMMA MapInductive == IInv /\ Shape /\ MapInv /\ [Next]_vars => Shape' /\ MapInv' /\ MapStep
<1> SUFFICES ASSUME TreeInv, Shape, MapInv, [Next]_vars PROVE Shape' /\ MapInv' /\ MapStep
  BY DEF IInv
<1>1. CASE WriterStep
  BY <1>1, WriterKeepsShape, WriterKeepsMap
<1>2. CASE ~WriterStep
  <2>1. UNCHANGED <<nodes, writer>>
    BY <1>2, ReaderSteps DEF Next, WriterStep, Read, vars
  <2> QED
    BY <2>1, SameShape, SameMap DEF MapStep
<1> QED
  BY <1>1, <1>2

LEMMA MapInvHolds == Spec => [](IInv /\ Shape /\ MapInv)
<1>1. Init => Shape /\ MapInv
  BY InitShape, InitMap
<1> QED
  BY <1>1, InvHolds, MapInductive, PTL DEF Spec

\* A put of tree_put (tree.c:65-99) is one step of RootedMap's tree_put, the
\* store that ends its search, however many stores it makes and in however
\* many nodes; tree_del (tree.c:136-181) is one step of tree_del.
THEOREM PutsAreAtomic == Spec => StoresAreAtomic
<1>1. IInv /\ Shape /\ MapInv /\ [Next]_vars => [MapStep]_vars
  BY MapInductive
<1> QED
  BY <1>1, MapInvHolds, PTL DEF Spec, StoresAreAtomic, MapStep

-----------------------------------------------------------------------------
(* The right answers are the map's.                                        *)

LEMMA AnswersOfMap ==
  ASSUME TreeInv, ReaderInv, Shape, MapInv
  PROVE  AnswersAgree
<1>1. ASSUME read \in Counts PROVE Answer = Number
  BY <1>1, SizeOfView DEF Answer, Number, Tall, Counts
<1>2. ASSUME read \in Gets PROVE RootAnswers \subseteq {Answer}
  <2>1. read.key \in Keys /\ read.op = "get"
    BY <1>2 DEF Gets
  <2>2. Answer = IF View.root = read.key THEN View.data[read.key] ELSE NoData
    BY <2>1 DEF Answer, Map!tree_get
  <2>3. CASE Root \notin Stored
    <3>1. raiz[Root] = NULL /\ View.root = NULL
      BY <2>3, NodeFacts DEF Stored, View
    <3>2. read.key # NULL
      BY <2>1, TreeRaceAssumption
    <3> QED
      BY <2>2, <3>1, <3>2 DEF RootAnswers
  <2>4. CASE Root \in Stored
    <3>1. raiz[Root] # NULL /\ View.root = Entries[Root].key
      BY <2>4 DEF Stored, View
    <3>2. CASE raiz[Root].key \notin {read.key, FREED}
      <4>1. Entries[Root].key = raiz[Root].key
        BY <2>4, <3>2 DEF Entries, Replacing, Shape, HalfReplaced, MapInv
      <4> QED
        BY <2>2, <3>1, <3>2, <4>1 DEF RootAnswers
    <3>3. CASE raiz[Root].value \notin Values /\ raiz[Root].key \in {read.key, FREED}
      BY <3>1, <3>3 DEF RootAnswers
    <3>4. CASE raiz[Root].value \in Values /\ raiz[Root].key \in {read.key, FREED}
      <4>1. raiz[Root].key = read.key /\ Entries[Root] = raiz[Root]
        BY <2>4, <3>4 DEF Entries, Shape, HalfReplaced
      <4>2. PICK area : Areas(area)
        BY DEF MapInv
      <4>3. (CHOOSE n \in Stored : Entries[n].key = read.key) = Root
        BY <2>4, <4>1, <4>2, OneNodeEach DEF KeyAt
      <4>4. View.data[read.key] = raiz[Root].value
        BY <2>1, <2>4, <4>1, <4>3 DEF View
      <4> QED
        BY <2>2, <3>1, <4>1, <4>4 DEF RootAnswers
    <3> QED
      BY <3>2, <3>3, <3>4
  <2> QED
    BY <2>3, <2>4
<1> QED
  BY <1>1, <1>2 DEF AnswersAgree

\* A read that does not go wrong answers what the map that PutsAreAtomic has
\* changed step by step would have answered at some moment while it ran:
\* tree_size and tree_height (tree.c:207-235) with no lock, whatever tree_put
\* and tree_del do meanwhile; tree_get (tree.c:110-130) unless a deletion
\* overlapped it, or a put was replacing the root, in which case it may also
\* have answered that the key is not there.
THEOREM AnswersRight == Spec => []AnswersWereRight
<1>1. Init => AnswerInv
  BY InitAnswers
<1>2. AnswerInv => AnswersWereRight
  BY DEF AnswerInv
<1>3. IInv /\ Shape /\ MapInv => AnswersAgree
  BY AnswersOfMap DEF IInv
<1> QED
  BY <1>1, <1>2, <1>3, MapInvHolds, AnswersInductive, PTL DEF Spec
=============================================================================
