\* Three keys, so that puts go to both sides and below; one value per key
\* and one to replace it.
SPECIFICATION Spec
CONSTANTS
    Keys = {1, 2, 3}
    Values = {v1, v2}
    NULL = NULL
    FREED = FREED
    DANGLING = DANGLING
    EMPTY = EMPTY
    LINKED = LINKED
    NoData = NoData
    MaxWrites = 4
INVARIANTS
    AnswersWereRight
PROPERTIES
    FaultsInWindow
    StoresAreAtomic
CHECK_DEADLOCK FALSE
