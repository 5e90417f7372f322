CONSTANTS
    h1 = h1
    h2 = h2
    k1 = k1
    k2 = k2
    NoHandle = NoHandle
    UBChecks = FALSE
    Handles <- MCHandles
    Shares <- MCShares
    Participants <- MCParticipants
    CommitLens <- MCCommitLens
    SeedLens <- MCSeedLensValid
    PkLens <- MCPkLens
SPECIFICATION Spec
SYMMETRY MCSymmetry
INVARIANTS
    TypeOK
    OwnershipAgreement
    Round3Commitments
PROPERTIES
    RoundMonotone
    BoundaryErrorsPreserve
    KeygenImplementsLifecycle
