SPECIFICATION PartSpec
CONSTANTS
    Parts = {"learning", "attendance", "followup"}
    h1 = h1
    h2 = h2
    h3 = h3
    m1 = m1
    m2 = m2
    alice = alice
    bob = bob
    carol = carol
    f1 = f1
    f2 = f2
    k1 = k1
    k2 = k2
    none = none
    DurationMs = 5
    SegmentMs = 2
    MaxRate = 2
    ClockTolerance = 1
    Handlers <- ThreeHandlers
    Beats <- ManyBeats
    Quizzes <- AllQuizzes
    MaxAttempts <- Limits
    MinSegments = 2
    Horizon = 1
    Sessions <- FourSessions
    Modules <- TwoModules
    Attendees <- OneAttendee
    Methods <- TwoMethods
    Instants <- TwoInstants
    None = none
    Learners <- ThreeLearners
    Reachable <- TwoReachable
    FileOf <- TwoFiles
    Desks <- TwoDesks
    MaxTokens = 2
    MaxAnswers = 2
    Calendar <- ThreeDates
    MonthLength <- Lengths
    Dues <- OneDue
INVARIANTS AttemptsJournalled CompletionEarned CompletionJournalled WatchEarned GapsExact PresencesJournalled SheetCoversSession TasksFollowClosure ReturnsAccounted DueCatchesUp
PROPERTIES OnlyStaleCopiesForget SheetSettles OnlyRunsReopen
SYMMETRY Sym
\* Every handler may have ended.
CHECK_DEADLOCK FALSE
