SPECIFICATION PartSpec
CONSTANTS
    Parts = {"people"}
    f1 = f1
    h1 = h1
    h2 = h2
    h3 = h3
    opco = opco
    session = session
    ref = ref
    none = none
    noFile = noFile
    c1 = c1
    c2 = c2
    d1 = d1
    d2 = d2
    n1 = n1
    n2 = n2
    key = key
    acme = acme
    acmeSas = acmeSas
    Files <- OneFile
    Stages <- ThreeStages
    Fundings <- OneFunding
    Sessions <- OneSession
    None = none
    NoFile = noFile
    Handlers <- ThreeHandlers
    Kinds <- AllKinds
    Facts <- QuoteThenConvention
    StageOrder <- TwoStages
    LearnerFiles <- TwoFiles
    Items <- TwoItems
    Keys <- OneKey
    PageSize = 2
    Clerks <- TwoClerks
    Stories <- FourStories
    LegalNames <- TwoNames
    PlanCodes <- TwoPlans
    Trial = "trial"
    StripeEvents <- FourEvents
    Tolerance = 0
    Horizon = 1
    MaxSent = 2
INVARIANT ErasedOnEveryFile
SYMMETRY Sym
\* Every handler may have ended.
CHECK_DEADLOCK FALSE
