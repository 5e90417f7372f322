CONSTANTS
    o1 = o1
    o2 = o2
    o3 = o3
    Addrs <- MCAddrs
    MaxMsgs <- MCMaxMsgs
    OutPtrs <- MCOutPtrsAll
    ErrOutPtrs <- MCErrOutPtrsValid
SPECIFICATION Spec
INVARIANT
    NothingLost
