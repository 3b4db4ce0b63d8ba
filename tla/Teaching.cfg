SPECIFICATION PartSpec
CONSTANTS
    Parts = {"catalogue", "attribution", "video", "quizzes"}
    None = none
    film = film
    book = book
    anatomy = anatomy
    posture = posture
    h1 = h1
    h2 = h2
    ada = ada
    bob = bob
    yoga = yoga
    pilates = pilates
    Instances <- TwoHandlers
    MaxAsked = 6
    MaxJobs = 3
    NoCard = none
    Edits <- SomeEdits
    Contents <- SomeContents
    Videos <- OneVideo
    Entries <- OneEntry
    Sections <- TwoSections
    Clerks <- TwoHandlers
    Stories <- SomeStories
    MaxCourses = 3
    MaxModules = 3
    Learners <- TwoLearners
    Courses <- TwoCourses
    Handlers <- TwoHandlers
    MaxRequests = 3
    MaxSessions = 2
    MaxFiles = 2
    PageSize = 1
    Questionnaires <- SomeForms
    Answers <- SomeAnswers
    Candidates = {"lea"}
    Editors <- TwoHandlers
    MaxVersions = 2
    MaxEdits = 4
    MaxAttempts = 1
    Words = {9}
    Samples <- OptionSamples
    Given <- ValuesGiven
SYMMETRY Sym
CHECK_DEADLOCK FALSE
INVARIANTS ReadyIsEncoded GradedOnRelease
PROPERTIES OnlyRacesPublishIncomplete OnlyStaleWritesRevert DuplicatesOnlyUnseen OnlyRacesEncodeTwice OnlyRacesRewrite
