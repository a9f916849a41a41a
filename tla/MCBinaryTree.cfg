\* Every tree of up to four keys and two values, built by any sequence of calls.
SPECIFICATION Spec
CONSTANTS
    Keys <- MCKeys
    Values = {a, b}
    NULL = NULL
    NoKey = NoKey
    NoData = NoData
    Segfault = Segfault
INVARIANTS
    SearchOrder
    HeightFitsSize
PROPERTY
    ImplementsStore
