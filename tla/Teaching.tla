------------------------------ MODULE Teaching -------------------------------
(* What is taught, and to whom: the videos (Video), the catalogue and the library of      *)
(* courses (Catalogue), their attribution to learners (Attribution) and the               *)
(* questionnaires (Quizzes).  The four write records of their own.                        *)
EXTENDS Video

CONSTANTS
    None,
    \* Catalogue
    Edits, Contents, Videos, Entries, Sections, Clerks, Stories, MaxCourses, MaxModules,
    \* Attribution
    Learners, Courses, Handlers, MaxRequests, MaxSessions, MaxFiles, PageSize,
    \* Quizzes
    Questionnaires, Answers, Candidates, Editors, MaxVersions, MaxEdits, MaxAttempts,
    Words, Samples, Given

VARIABLES kinds, requests, courses, modules, listed, library, sections, cards, clerk,
          served, published, sessions, agenda, files, pipeline, enrolments, journal, undone, work,
          versions, shownAs, page, attempts, releases, edits, desk

C == INSTANCE Catalogue WITH Handlers <- Clerks, asked <- requests, job <- clerk

A == INSTANCE Attribution

Q == INSTANCE Quizzes WITH Learners <- Candidates

catalogue == <<kinds, requests, courses, modules, listed, library, sections, cards, clerk>>
attribution == <<served, published, sessions, agenda, files, pipeline, enrolments, journal, undone, work>>
quizzes == <<versions, shownAs, page, attempts, releases, edits, desk>>

OnlyRacesPublishIncomplete == C!OnlyRacesPublishIncomplete
OnlyStaleWritesRevert == C!OnlyStaleWritesRevert
ImportedVideosFollow == C!ImportedVideosFollow
DuplicatesOnlyUnseen == A!DuplicatesOnlyUnseen
OnlyRacesRewrite == Q!OnlyRacesRewrite
GradedOnRelease == Q!GradedOnRelease
GradedAsShown == Q!GradedAsShown
=============================================================================
