\* What tree.h says of tree_get, on the trees of MCBinaryTree.cfg.
SPECIFICATION Spec
CONSTANTS
    Keys <- MCKeys
    Values = {a, b}
    NULL = NULL
    NoKey = NoKey
    NoData = NoData
    Segfault = Segfault
INVARIANT
    GetFindsKey
