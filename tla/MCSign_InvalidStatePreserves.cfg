CONSTANTS
    t1 = t1
    t2 = t2
    k1 = k1
    d1 = d1
    d2 = d2
    NoHandle = NoHandle
    SignHandles <- MCSignHandles
    Shares <- MCShares
    Digests <- MCDigests
    HashLens <- MCHashLens
    SeedLens <- MCSeedLens
SPECIFICATION Spec
SYMMETRY MCSymmetry
PROPERTIES
    InvalidStatePreserves
