SPECIFICATION Spec
CONSTANTS
    q1 = q1
    h1 = h1
    h2 = h2
    h3 = h3
    h4 = h4
    convention = convention
    before = before
    after = after
    none = none
    wrong = wrong
    Requests <- OneRequest
    References <- OneReference
    Contents <- TwoContents
    Handlers <- FourHandlers
    Kinds <- AllKinds
    None = none
    Wrong = wrong
    LinkTTL = 2
    OTPTTL = 0
    MaxOTPAttempts = 2
    Horizon = 2
INVARIANTS ProofInOrder OnlyStaleWritesReopen
SYMMETRY Sym
\* Every handler may have ended.
CHECK_DEADLOCK FALSE
