------------------------------ MODULE TreeRace ------------------------------
(***************************************************************************)
(* The tree while two threads use it: invoke (main thread) calls tree_get, *)
(* tree_size, tree_height and tree_get_keys with no lock, while            *)
(* process_task (secondary thread) is inside tree_put or tree_del with     *)
(* tree_lock, which nobody else takes.  A step is a store or a free of the *)
(* writer, or one load of the reader, in program order: a pointer is       *)
(* loaded in one step and followed in a later one, except that the loads   *)
(* of raiz and of a field of its entry are one, for an entry is never      *)
(* freed and one that was unlinked keeps its fields, and that memcpy's     *)
(* load of data->data and its copy are one, for both are lost to a free.   *)
(*                                                                         *)
(* Nodes are addresses 1..used.  An entry is kept in its node, with what   *)
(* its key and its data_t hold: it is filled before it is linked, and the  *)
(* one tree_del unlinks is never freed.                                    *)
(* The writer sees only its own stores, so that its search is a step per   *)
(* node, and its test of the size of a tree is no step.                    *)
(***************************************************************************)
EXTENDS Naturals, Sequences, FiniteSets, FiniteSetsExt

CONSTANTS
    Keys, Values,
    NULL, NoData,
    FREED,          \* a key, or a data_t, that was freed
    DANGLING,       \* a data_t whose bytes were freed
    EMPTY,          \* a data_t whose pointer to the bytes is NULL
    LINKED,         \* the pointer held is still the one in the entry
    MaxWrites       \* bound on the writes the secondary thread executes

ASSUME TreeRaceAssumption ==
    /\ Keys \subseteq Nat
    /\ NULL \notin Nat \cup [key : Keys \cup {FREED}, value : Values \cup {FREED, DANGLING, EMPTY}]
    /\ NoData \notin Values
    /\ {FREED, DANGLING, EMPTY, LINKED} \cap (Keys \cup Values) = {}
    /\ FREED \notin {DANGLING, EMPTY, LINKED} /\ DANGLING \notin {EMPTY, LINKED} /\ EMPTY # LINKED
    /\ MaxWrites \in Nat

VARIABLES
    raiz, esquerda, direita,    \* the fields of the nodes
    depth,      \* how deep each node was linked
    used,       \* how many nodes were created
    writes,     \* writes begun
    task,       \* the put being executed
    place,      \* the node the writer is at
    wpc,        \* its next store
    read,       \* what the reader was asked
    frames,     \* its calls, the innermost first
    result,     \* what it counted or found so far
    rpc,        \* whether it is reading, or followed a wrong pointer
    held,       \* the key or data_t it loaded: LINKED, or what is there now
    possible,   \* history: right answers at some moment since it began
    deleted,    \* history: an entry was deleted since it began
    torn        \* history: where entry_replace was at work since it began

nodes == <<raiz, esquerda, direita, depth, used>>
writer == <<writes, task, place, wpc>>
reader == <<read, frames, result, rpc>>
history == <<possible, deleted, torn>>
vars == <<nodes, writer, reader, held, history>>

-----------------------------------------------------------------------------
MaxNodes == 2 * MaxWrites + 1
Nodes == 1..MaxNodes
Root == 1

KeyStates == Keys \cup {FREED}
DataStates == Values \cup {FREED, DANGLING, EMPTY}
Entry == [key : KeyStates, value : DataStates]

\* About to load a pointer of the entry, or to use the one just loaded.
Loading == {"key", "side", "value"}
Using == {"equal", "order", "dup", "copy"}

Frame == [node : Nodes \cup {NULL}, depth : Nat,
          stage : {"raiz", "esquerda", "direita"} \cup Loading \cup Using]

Counts == [op : {"size", "height"}]
Gets == [op : {"get"}, key : Keys]

TreeTypeOK ==
    /\ raiz \in [Nodes -> Entry \cup {NULL}]
    /\ esquerda \in [Nodes -> Nodes \cup {NULL}]
    /\ direita \in [Nodes -> Nodes \cup {NULL}]
    /\ depth \in [Nodes -> Nat]
    /\ used \in Nodes
    /\ writes \in 0..MaxWrites
    /\ task \in [key : Keys, value : Values]
    /\ place \in 1..used
    /\ wpc \in {"idle", "search", "left", "right",
               "cleardata", "freedata", "freekey", "storekey", "storevalue"}

ReaderTypeOK ==
    /\ read \in Counts \cup Gets
    /\ frames \in Seq(Frame)
    /\ rpc \in {"idle", "reading", "done", "null", "freed"}
    /\ rpc = "reading" <=> frames # <<>>
    /\ held \in KeyStates \cup DataStates \cup {LINKED}
    /\ deleted \in BOOLEAN /\ torn \subseteq Nodes

TypeOK == TreeTypeOK /\ ReaderTypeOK

Stored == {n \in Nodes : raiz[n] # NULL}

\* entry_replace is at work.
Replacing == wpc \in {"cleardata", "freedata", "freekey", "storekey", "storevalue"}

\* The entries as process_task sees them: one that entry_replace has begun to
\* take apart counts as the new one.
Entries == [n \in Stored |-> IF Replacing /\ n = place THEN task ELSE raiz[n]]

\* The nodes as RootedMap sees them: the root key and what is under each key.
View ==
    [root |-> IF Root \in Stored THEN Entries[Root].key ELSE NULL,
     data |-> [k \in Keys |->
        IF \E n \in Stored : Entries[n].key = k
        THEN Entries[CHOOSE n \in Stored : Entries[n].key = k].value
        ELSE NoData]]

Map == INSTANCE RootedMap WITH NoKey <- NULL

\* What the calls of tree_put and tree_del, each taken to be one step, have
\* made right to answer.
Answer ==
    CASE read.op = "size" -> Map!tree_size(View)
      [] read.op = "height" -> Max({depth[n] : n \in Stored} \cup {0})
      [] read.op = "get" -> Map!tree_get(View, read.key)

Init ==
    /\ raiz = [n \in Nodes |-> NULL]
    /\ esquerda = [n \in Nodes |-> NULL] /\ direita = [n \in Nodes |-> NULL]
    /\ depth = [n \in Nodes |-> 1] /\ used = 1
    /\ writes = 0 /\ place = Root /\ wpc = "idle"
    /\ task \in [key : Keys, value : Values]
    /\ read = [op |-> "size"] /\ frames = <<>> /\ result = 0 /\ rpc = "idle"
    /\ held = LINKED /\ possible = {} /\ deleted = FALSE /\ torn = {}

-----------------------------------------------------------------------------
(* The secondary thread.  Each store may add a right answer.               *)

Stores ==
    /\ UNCHANGED reader
    /\ possible' = IF rpc = "reading" THEN possible \cup {Answer'} ELSE possible
    /\ torn' = IF Replacing' /\ rpc = "reading" THEN torn \cup {place} ELSE torn

BeginPut(k, v) ==
    /\ wpc = "idle" /\ writes < MaxWrites
    /\ writes' = writes + 1
    /\ task' = [key |-> k, value |-> v]
    /\ place' = Root /\ wpc' = "search"
    /\ UNCHANGED <<nodes, reader, held, history>>

(* Mutant: the test for the same key is left out. *)
SearchPastKey ==
    /\ wpc = "search" /\ raiz[place] # NULL
    /\ place' = IF raiz[place].key < task.key THEN direita[place] ELSE esquerda[place]
    /\ UNCHANGED <<nodes, writes, task, wpc, reader, held, history>>

\* strcmp with the key of a node that has one: further down.
Search ==
    /\ wpc = "search" /\ raiz[place] # NULL /\ raiz[place].key # task.key
    /\ place' = IF raiz[place].key < task.key THEN direita[place] ELSE esquerda[place]
    /\ UNCHANGED <<nodes, writes, task, wpc, reader, held, history>>

\* tree->raiz = entry_create(chave, dados)
LinkEntry ==
    /\ wpc = "search" /\ raiz[place] = NULL
    /\ raiz' = [raiz EXCEPT ![place] = task]
    /\ wpc' = "left"
    /\ UNCHANGED <<esquerda, direita, depth, used, writes, task, place, held, deleted>>
    /\ Stores

NewNode == used' = used + 1 /\ depth' = [depth EXCEPT ![used + 1] = depth[place] + 1]

\* tree->esquerda = tree_create()
LinkLeft ==
    /\ wpc = "left"
    /\ NewNode /\ esquerda' = [esquerda EXCEPT ![place] = used + 1]
    /\ wpc' = "right"
    /\ UNCHANGED <<raiz, direita, writes, task, place, held, deleted>>
    /\ Stores

\* tree->direita = tree_create()
LinkRight ==
    /\ wpc = "right"
    /\ NewNode /\ direita' = [direita EXCEPT ![place] = used + 1]
    /\ wpc' = "idle"
    /\ UNCHANGED <<raiz, esquerda, writes, task, place, held, deleted>>
    /\ Stores

StoreIn(field, x) == raiz' = [raiz EXCEPT ![place] = [@ EXCEPT ![field] = x]]

Replaces(from, to, field, x) ==
    /\ wpc = from
    /\ StoreIn(field, x)
    /\ wpc' = to
    /\ UNCHANGED <<esquerda, direita, depth, used, writes, task, place, deleted>>
    /\ Stores

Top == frames[1]

\* The field of the entry the reader loaded a pointer from.
HeldField == IF Top.stage \in {"equal", "order"} THEN "key" ELSE "value"

\* A pointer loaded before its field is overwritten goes on pointing to what
\* it pointed to.
Overwrites(n, fields) ==
    held' = IF /\ rpc = "reading" /\ Top.stage \in Using
               /\ Top.node = n /\ held = LINKED /\ HeldField \in fields
            THEN raiz[n][HeldField]
            ELSE held

\* data_destroy(entry->value): the bytes, the pointer to them, the data_t; ...
FreeBytes ==
    /\ raiz[place] # NULL /\ raiz[place].key = task.key
    /\ Replaces("search", "cleardata", "value", DANGLING)
    /\ UNCHANGED held
ClearData == Replaces("cleardata", "freedata", "value", EMPTY) /\ UNCHANGED held
FreeData == Replaces("freedata", "freekey", "value", FREED) /\ UNCHANGED held

\* ... free(entry->key); and only then the new key and value are stored.
FreeKey == Replaces("freekey", "storekey", "key", FREED) /\ UNCHANGED held
StoreKey ==
    Replaces("storekey", "storevalue", "key", task.key) /\ Overwrites(place, {"key"})
(* Mutant: the value is stored before the old one is destroyed. *)
StoreValueThenFree ==
    Replaces("storevalue", "idle", "value", FREED) /\ Overwrites(place, {"value"})

StoreValue ==
    Replaces("storevalue", "idle", "value", task.value) /\ Overwrites(place, {"value"})

\* tree_del removes a lone root, by one store; else it changes nothing.
Delete(k) ==
    /\ wpc = "idle" /\ writes < MaxWrites
    /\ Stored = {Root} /\ raiz[Root].key = k
    /\ raiz' = [raiz EXCEPT ![Root] = NULL]
    /\ writes' = writes + 1
    /\ deleted' = (deleted \/ rpc = "reading")
    /\ Overwrites(Root, {"key", "value"})
    /\ UNCHANGED <<esquerda, direita, depth, used, task, place, wpc>>
    /\ Stores

Writer ==
    \/ Search \/ LinkEntry \/ LinkLeft \/ LinkRight
    \/ FreeBytes \/ ClearData \/ FreeData \/ FreeKey \/ StoreKey \/ StoreValue

-----------------------------------------------------------------------------
(* The main thread.                                                        *)

Call(n, d) == [node |-> n, depth |-> d, stage |-> "raiz"]

Read(r) ==
    /\ rpc # "reading"
    /\ read' = r
    /\ frames' = <<Call(Root, 1)>>
    /\ result' = IF r \in Counts THEN 0 ELSE NoData
    /\ rpc' = "reading" /\ held' = LINKED
    /\ UNCHANGED <<nodes, writer>>
    /\ possible' = {Answer'} /\ deleted' = FALSE
    /\ torn' = IF Replacing THEN {place} ELSE {}

At(stage) == rpc = "reading" /\ Top.stage = stage

Looks == UNCHANGED <<nodes, writer, read, history>>

GoOn(stack) ==
    /\ frames' = stack /\ held' = LINKED
    /\ rpc' = IF stack = <<>> THEN "done" ELSE "reading"

NextStage(stage) == GoOn(<<[Top EXCEPT !.stage = stage]>> \o Tail(frames))

Faults(how) ==
    /\ frames' = <<>> /\ held' = LINKED /\ rpc' = how
    /\ Looks /\ UNCHANGED result

\* tree->raiz of a NULL tree; tree_size alone looks before.
FollowNull == At("raiz") /\ Top.node = NULL /\ read.op # "size" /\ Faults("null")

\* tree == NULL (tree_size) or tree->raiz == NULL.
LookEmpty ==
    /\ At("raiz")
    /\ IF Top.node = NULL THEN read.op = "size" ELSE raiz[Top.node] = NULL
    /\ GoOn(Tail(frames))
    /\ Looks /\ UNCHANGED result

\* One entry more, or one level.
Count ==
    /\ At("raiz") /\ Top.node # NULL /\ raiz[Top.node] # NULL /\ read \in Counts
    /\ result' = IF read.op = "size" THEN result + 1 ELSE Max({result, Top.depth})
    /\ NextStage("esquerda")
    /\ Looks

GoLeft ==
    /\ At("esquerda")
    /\ GoOn(<<Call(esquerda[Top.node], Top.depth + 1), [Top EXCEPT !.stage = "direita"]>>
            \o Tail(frames))
    /\ Looks /\ UNCHANGED result

GoRight ==
    /\ At("direita")
    /\ GoOn(<<Call(direita[Top.node], Top.depth + 1)>> \o Tail(frames))
    /\ Looks /\ UNCHANGED result

GetBegins ==
    /\ At("raiz") /\ Top.node # NULL /\ raiz[Top.node] # NULL /\ read \in Gets
    /\ NextStage("key")
    /\ Looks /\ UNCHANGED result

\* raiz is NULL now: the entry tree_get had found was unlinked.
Unlinked ==
    /\ rpc = "reading" /\ Top.stage \in Loading /\ raiz[Top.node] = NULL
    /\ Faults("null")

\* The pointer to the key, or to the data_t, to be used in the next step.
LoadField ==
    /\ rpc = "reading" /\ Top.stage \in Loading /\ raiz[Top.node] # NULL
    /\ NextStage(CASE Top.stage = "key" -> "equal" [] Top.stage = "side" -> "order"
                   [] OTHER -> "dup")
    /\ Looks /\ UNCHANGED result

\* What is behind the pointer.
Sees == IF held = LINKED THEN raiz[Top.node][HeldField] ELSE held

\* strcmp reads a key, data_dup a data_t, or memcpy the bytes of one, that
\* were freed.
ReadsFreed ==
    /\ rpc = "reading" /\ Top.stage \in Using
    /\ Sees = FREED \/ (Top.stage = "copy" /\ Sees = DANGLING)
    /\ Faults("freed")

\* The first strcmp.
CompareKey ==
    /\ At("equal") /\ Sees # FREED
    /\ NextStage(IF Sees = read.key THEN "value" ELSE "side")
    /\ Looks /\ UNCHANGED result

\* The second strcmp, and the recursion, whose result is dropped.
ChooseSide ==
    /\ At("order") /\ Sees # FREED
    /\ GoOn(<<Call(IF Sees > read.key THEN esquerda[Top.node] ELSE direita[Top.node],
                   Top.depth + 1)>>)
    /\ Looks /\ UNCHANGED result

\* data_dup tests data->data == NULL and returns NULL, ...
DupNothing ==
    /\ At("dup") /\ Sees = EMPTY
    /\ GoOn(<<>>)
    /\ Looks /\ UNCHANGED result

\* ... or goes on to load data->data once more, ...
Dup ==
    /\ At("dup") /\ Sees \notin {EMPTY, FREED}
    /\ frames' = <<[Top EXCEPT !.stage = "copy"]>> \o Tail(frames)
    /\ Looks /\ UNCHANGED <<result, rpc, held>>

\* ... which may be NULL by now, ...
CopyNothing == At("copy") /\ Sees = EMPTY /\ Faults("null")

(* Mutant: the results of the recursive calls are returned. *)
CopyValueAnywhere ==
    /\ At("copy") /\ Sees \in Values
    /\ result' = Sees
    /\ GoOn(<<>>)
    /\ Looks

\* ... and copies the bytes.  Only the outermost call returns what it found.
CopyValue ==
    /\ At("copy") /\ Sees \in Values
    /\ result' = IF Top.depth = 1 THEN Sees ELSE NoData
    /\ GoOn(<<>>)
    /\ Looks

Reader ==
    \/ FollowNull \/ LookEmpty \/ Count \/ GoLeft \/ GoRight \/ GetBegins
    \/ Unlinked \/ LoadField \/ ReadsFreed \/ CompareKey \/ ChooseSide
    \/ DupNothing \/ Dup \/ CopyNothing \/ CopyValue

Next ==
    \/ \E k \in Keys : Delete(k) \/ \E v \in Values : BeginPut(k, v)
    \/ Writer
    \/ \E r \in Counts \cup Gets : Read(r)
    \/ Reader

Spec == Init /\ [][Next]_vars

-----------------------------------------------------------------------------
\* A read that ends answers what the map of RootedMap would have answered at
\* some moment while it ran, however many puts it overlapped.  There are two
\* ways for tree_get to go wrong: a deletion, after which the root may hold
\* another entry when its value is read; and a put that replaces the root,
\* which makes it answer that the key is not there.
AnswersWereRight ==
    rpc = "done" =>
        \/ result \in possible
        \/ read \in Gets /\ deleted
        \/ read \in Gets /\ Root \in torn /\ result = NoData

\* tree_size, and tree_get_keys which calls it, never follow a wrong pointer.
SizeSurvives == read.op = "size" => rpc \notin {"null", "freed"}

\* The stores of a put, taken together, are one step of the map: the one that
\* ends the search (tree.c:79, or the first of entry_replace).  A deletion is
\* one store.  No other store changes what is under any key, so the server
\* modules may take a call of tree_put or tree_del to be one step.
StoresAreAtomic ==
    [][ View' =
          IF wpc = "search" /\ wpc' # "search" THEN Map!tree_put(View, task.key, task.value)
          ELSE IF Root \in Stored \ Stored' THEN Map!tree_del(View, View.root)
          ELSE View ]_vars

\* A read goes wrong only because of a put or deletion it overlapped.  It is
\* given a NULL child only between tree.c:79 and 81; it meets freed memory, or
\* a data_t already emptied, only at a node where entry_replace was at work
\* since it began, though it may meet it when entry_replace has returned; and
\* it loses an entry it had found only to a deletion.
FaultsInWindow ==
    [][rpc = "reading" /\ frames' # frames =>
        /\ rpc' = "freed" => Top.node \in torn
        /\ rpc' = "reading" /\ frames'[1].node = NULL => wpc \in {"left", "right"}
        /\ rpc' = "null" /\ Top.stage = "copy" => Top.node \in torn
        /\ rpc' = "null" /\ Top.stage \in Loading => deleted]_vars

=============================================================================
