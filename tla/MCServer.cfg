\* A server, backup or primary: every message a peer sends it, a backup of its
\* own that comes and goes.
SPECIFICATION FairSpec
CONSTANTS
    Keys = {k1, k2}
    Values = {a}
    NoKey = NoKey
    NoData = NoData
    NoRequest = NoRequest
    Requests <- ServerRequests
    MaxOps = 3
    SockBuf = 1
INVARIANTS
    HeadPresent
    NoLostWakeup
    ExecutionOrder
PROPERTIES
    VerifyZeroIsPending
    OnlyVerifyDiscards
    ImplementsAsyncStore
