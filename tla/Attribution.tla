----------------------------- MODULE Attribution -----------------------------
(***************************************************************************)
(* Giving a course to a learner (httpapi/attribution.go): one request      *)
(* finds or opens the session, finds or opens the file, and enrols; beside *)
(* it, sessions are planned, files opened and learners enrolled one by one *)
(* (httpapi/catalog.go, catalog/service.go).                               *)
(*                                                                         *)
(* Sessions and files are looked up in pages of indexes that lag behind    *)
(* the table, enrolments in the table.  An enrolment, the link of its file *)
(* and its event are one transaction, under the condition that the         *)
(* enrolment is new; a funding is a put of the file that was read.         *)
(* Sessions and files are numbered as they are created.  Dates, stages and *)
(* prices are left out, so that a page may hold anything up to its size,   *)
(* and any open session of the course in it may come first; the other      *)
(* writers of a file are in CrmFile, the steps of a closing in FollowUp.   *)
(***************************************************************************)
EXTENDS Integers, Sequences, FiniteSets

CONSTANTS
    Learners, Courses,
    Handlers,      \* instances, each serves one request after another
    MaxRequests, MaxSessions, MaxFiles,
    PageSize,      \* the size of a page, of the agenda or of a stage
    None

PlannedSession == [course : Courses, closed : BOOLEAN]
OpenedFile == [learner : Learners, course : Courses, session : Nat \cup {None}]

AttributionConstants == /\ MaxRequests \in Nat /\ MaxSessions \in Nat /\ MaxFiles \in Nat /\ PageSize \in Nat
                        /\ None \notin PlannedSession /\ None \notin OpenedFile

VARIABLES
    served,      \* the number of requests
    published,   \* the courses that are open
    sessions,    \* sessions[s]: its course, whether it is closed
    agenda,      \* agenda[s]: what the index shows of s, or None
    files,       \* files[f]: its learner, course and session
    pipeline,    \* pipeline[f]: what the index shows of f, or None
    enrolments,  \* the enrolments: session, learner and file
    journal,     \* journal[f]: the enrolments recorded on f, and whether they linked it
    undone,      \* undone[f]: the fundings put over a later change of f; in no table
    work         \* work[h]: where handler h is

store == <<published, sessions, agenda, files, pipeline, enrolments, journal, undone>>
attributionVars == <<served, store, work>>

-----------------------------------------------------------------------------

Rest == [pc |-> "rest", learner |-> None, course |-> None, session |-> None, bare |-> FALSE,
         file |-> None, copy |-> None, met |-> {}, shown |-> {}]

Init ==
    /\ served = 0 /\ published = Courses
    /\ sessions = << >> /\ agenda = << >>
    /\ files = << >> /\ pipeline = << >> /\ journal = << >> /\ undone = << >>
    /\ enrolments = {}
    /\ work = [h \in Handlers |-> Rest]

Become(h, w) == work' = [work EXCEPT ![h] = w]

Serve(h) == work[h].pc = "rest" /\ served < MaxRequests /\ served' = served + 1

Step(h, pc) == work[h].pc = pc /\ UNCHANGED served

-----------------------------------------------------------------------------
(* One by one *)

OpenSession(course) ==
    /\ Len(sessions) < MaxSessions
    /\ sessions' = Append(sessions, [course |-> course, closed |-> FALSE])
    /\ agenda' = Append(agenda, None)

OpenFile(learner, course) ==
    /\ Len(files) < MaxFiles
    /\ files' = Append(files, [learner |-> learner, course |-> course, session |-> None])
    /\ pipeline' = Append(pipeline, None)
    /\ journal' = Append(journal, << >>)
    /\ undone' = Append(undone, 0)

\* Any course may be planned, published or not.
PlanSession(h) ==
    /\ Serve(h)
    /\ \E c \in Courses : OpenSession(c)
    /\ UNCHANGED <<published, files, pipeline, enrolments, journal, undone, work>>

CreateFile(h) ==
    /\ Serve(h)
    /\ \E l \in Learners, c \in Courses : OpenFile(l, c)
    /\ UNCHANGED <<published, sessions, agenda, enrolments, work>>

\* The file that is given is not compared with the learner, nor with the session.
EnrollAlone(h) ==
    /\ Serve(h)
    /\ \E l \in Learners, s \in DOMAIN sessions, f \in DOMAIN files \cup {None} :
          Become(h, [Rest EXCEPT !.pc = "enroll", !.learner = l, !.session = s, !.file = f])
    /\ UNCHANGED store

SetPublished(h) ==
    /\ Serve(h)
    /\ \E c \in Courses : published' = IF c \in published THEN published \ {c} ELSE published \cup {c}
    /\ UNCHANGED <<sessions, agenda, files, pipeline, enrolments, journal, undone, work>>

CloseSession(h) ==
    /\ Serve(h)
    /\ \E s \in DOMAIN sessions : ~ sessions[s].closed /\ sessions' = [sessions EXCEPT ![s].closed = TRUE]
    /\ UNCHANGED <<published, agenda, files, pipeline, enrolments, journal, undone, work>>

-----------------------------------------------------------------------------
(* The attribution *)

Attribute(h) ==
    /\ Serve(h)
    /\ \E l \in Learners, c \in published, wanted \in DOMAIN sessions \cup {None}, bare \in BOOLEAN :
          Become(h, [Rest EXCEPT !.pc = "session", !.learner = l, !.course = c, !.session = wanted,
                                 !.bare = bare])
    /\ UNCHANGED store

Listed(index) == {k \in DOMAIN index : index[k] # None}

\* The first page of the agenda, of any course, closed or not.
AgendaPages == {page \in SUBSET Listed(agenda) : Cardinality(page) <= PageSize}

\* The first pages of the five stages, together.
PipelinePages == {page \in SUBSET Listed(pipeline) : Cardinality(page) <= 5 * PageSize}

\* The sessions of a course that a page shows as open.
OpenOnes(course, page) == {s \in page : agenda[s].course = course /\ ~ agenda[s].closed}

\* How often file f was changed.
Changes(f) == Len(journal[f]) + undone[f]

\* What a page shows as it is; a file with the number of its changes.
InAgenda(page) == {s \in page : agenda[s] = sessions[s]}
InPipeline(page) == {<<f, Changes(f)>> : f \in {g \in page : pipeline[g] = files[g]}}

\* The session that is asked for, which may be of another course.
TakeWanted(h) ==
    /\ Step(h, "session") /\ work[h].session # None
    /\ Become(h, IF sessions[work[h].session].closed THEN Rest ELSE [work[h] EXCEPT !.pc = "file"])
    /\ UNCHANGED store

\* Or one that the first page of the agenda shows; if none, or if it cannot be read, a new one.
TakeOpen(h) ==
    /\ Step(h, "session") /\ work[h].session = None
    /\ \E page \in AgendaPages :
          \/ \E s \in OpenOnes(work[h].course, page) : Become(h, [work[h] EXCEPT !.pc = "file", !.session = s])
          \/ /\ OpenOnes(work[h].course, page) = {}
             /\ Become(h, [work[h] EXCEPT !.pc = "open", !.met = InAgenda(page)])
    /\ UNCHANGED store

AgendaFails(h) ==
    /\ Step(h, "session") /\ work[h].session = None
    /\ Become(h, [work[h] EXCEPT !.pc = "open"])
    /\ UNCHANGED store

CreateSession(h) ==
    /\ Step(h, "open")
    /\ OpenSession(work[h].course)
    /\ Become(h, [work[h] EXCEPT !.pc = "file", !.session = Len(sessions) + 1])
    /\ UNCHANGED <<published, files, pipeline, enrolments, journal, undone>>

\* Faulty: a file that is already linked to a session is passed over.
FaultyTheirs(learner, course, page) ==
    {f \in page : pipeline[f].learner = learner /\ pipeline[f].course = course /\ pipeline[f].session = None}

Theirs(learner, course, page) ==
    {f \in page : pipeline[f].learner = learner /\ pipeline[f].course = course}

TakeFile(h) ==
    /\ Step(h, "file")
    /\ \/ work[h].bare /\ Become(h, [work[h] EXCEPT !.pc = "check"])
       \/ /\ ~ work[h].bare
          /\ \E page \in PipelinePages :
                \/ \E f \in Theirs(work[h].learner, work[h].course, page) :
                      Become(h, [work[h] EXCEPT !.pc = "check", !.file = f])
                \/ /\ Theirs(work[h].learner, work[h].course, page) = {}
                   /\ Become(h, [work[h] EXCEPT !.pc = "openFile", !.shown = InPipeline(page)])
    /\ UNCHANGED store

\* A stage that cannot be listed is passed over.
PipelineFails(h) ==
    /\ Step(h, "file") /\ ~ work[h].bare
    /\ Become(h, [work[h] EXCEPT !.pc = "openFile"])
    /\ UNCHANGED store

\* The request names the origin of the funds, or not.
OpenTheirs(h) ==
    /\ Step(h, "openFile")
    /\ OpenFile(work[h].learner, work[h].course)
    /\ \E pc \in {"fund", "check"} : Become(h, [work[h] EXCEPT !.pc = pc, !.file = Len(files) + 1])
    /\ UNCHANGED <<published, sessions, agenda, enrolments>>

ReadFunding(h) ==
    /\ Step(h, "fund")
    /\ Become(h, [work[h] EXCEPT !.pc = "put", !.copy = files[work[h].file]])
    /\ UNCHANGED store

\* The file that was read is put back with its funding, without a condition.
PutFunding(h) ==
    LET f == work[h].file IN
    /\ Step(h, "put")
    /\ files' = [files EXCEPT ![f] = work[h].copy]
    /\ undone' = IF files[f] = work[h].copy THEN undone ELSE [undone EXCEPT ![f] = @ + 1]
    /\ Become(h, [work[h] EXCEPT !.pc = "check", !.copy = None])
    /\ UNCHANGED <<published, sessions, agenda, pipeline, enrolments, journal>>

\* Its failure is passed over.
FundingFails(h) ==
    /\ work[h].pc \in {"fund", "put"}
    /\ Become(h, [work[h] EXCEPT !.pc = "check", !.copy = None])
    /\ UNCHANGED <<served, store>>

Enrolled(s, l) == \E e \in enrolments : e.session = s /\ e.learner = l

\* To be enrolled already is not an error.
CheckEnrolled(h) ==
    /\ Step(h, "check")
    /\ Become(h, IF Enrolled(work[h].session, work[h].learner) THEN Rest ELSE [work[h] EXCEPT !.pc = "enroll"])
    /\ UNCHANGED store

-----------------------------------------------------------------------------
(* The enrolment *)

ReadForEnroll(h) ==
    /\ Step(h, "enroll")
    /\ \/ sessions[work[h].session].closed /\ Become(h, Rest)
       \/ /\ ~ sessions[work[h].session].closed
          /\ Become(h, [work[h] EXCEPT !.pc = "write",
                                       !.copy = IF work[h].file = None THEN None ELSE files[work[h].file]])
    /\ UNCHANGED store

\* The file could not be read: the enrolment goes on without linking it.
LinkFails(h) ==
    /\ Step(h, "enroll") /\ ~ sessions[work[h].session].closed /\ work[h].file # None
    /\ Become(h, [work[h] EXCEPT !.pc = "write"])
    /\ UNCHANGED store

Linked(copy, s) == [copy EXCEPT !.session = s, !.course = sessions[s].course]

Enroll(h) ==
    LET w == work[h]
        known == Enrolled(w.session, w.learner)
    IN
    /\ Step(h, "write")
    /\ enrolments' = IF known THEN enrolments
                     ELSE enrolments \cup {[session |-> w.session, learner |-> w.learner, file |-> w.file]}
    /\ files' = IF known \/ w.copy = None THEN files
                ELSE [files EXCEPT ![w.file] = Linked(w.copy, w.session)]
    /\ journal' = IF known \/ w.file = None THEN journal
                  ELSE [journal EXCEPT ![w.file] = Append(@, [session |-> w.session, linked |-> w.copy # None])]
    /\ Become(h, Rest)
    /\ UNCHANGED <<published, sessions, agenda, pipeline, undone>>

-----------------------------------------------------------------------------

\* An index catches up with a record.
Index ==
    /\ \/ \E s \in DOMAIN sessions : /\ agenda[s] # sessions[s]
                                     /\ agenda' = [agenda EXCEPT ![s] = sessions[s]]
                                     /\ UNCHANGED pipeline
       \/ \E f \in DOMAIN files : /\ pipeline[f] # files[f]
                                  /\ pipeline' = [pipeline EXCEPT ![f] = files[f]]
                                  /\ UNCHANGED agenda
    /\ UNCHANGED <<served, published, sessions, files, enrolments, journal, undone, work>>

\* An error of the store, or the death of the instance.
GiveUp(h) == work[h].pc # "rest" /\ Become(h, Rest) /\ UNCHANGED <<served, store>>

HandleAttribuerFormation(h) ==
    \/ Attribute(h) \/ TakeWanted(h) \/ TakeOpen(h) \/ AgendaFails(h) \/ CreateSession(h)
    \/ TakeFile(h) \/ PipelineFails(h) \/ OpenTheirs(h)
    \/ ReadFunding(h) \/ PutFunding(h) \/ FundingFails(h) \/ CheckEnrolled(h)

HandleEnroll(h) == EnrollAlone(h) \/ ReadForEnroll(h) \/ LinkFails(h) \/ Enroll(h)

Next ==
    \/ \E h \in Handlers : \/ HandleAttribuerFormation(h) \/ HandleEnroll(h)
                           \/ PlanSession(h) \/ CreateFile(h) \/ SetPublished(h) \/ CloseSession(h)
                           \/ GiveUp(h)
    \/ Index

Spec == Init /\ [][Next]_attributionVars

-----------------------------------------------------------------------------
(* Properties *)

\* A step of an attribution that opens a session, or a file, beside one that it had seen.
DuplicatedUnseen ==
    \A h \in Handlers :
        LET w == work[h] IN
        /\ w.pc = "open" /\ Len(sessions') > Len(sessions) /\ work'[h] # w =>
              \A s \in w.met : sessions[s].course # w.course \/ sessions[s].closed
        /\ w.pc = "openFile" /\ Len(files') > Len(files) /\ work'[h] # w =>
              \A seen \in w.shown :
                 LET f == seen[1] IN
                 \/ files[f].learner # w.learner \/ files[f].course # w.course
                 \/ Changes(f) > seen[2]

\* An attribution opens a second session beside an open one of the course, or a second file
\* for the learner and the course, only if it could not see the first: the index did not
\* show it as it was, its list failed, it was past the page (200 sessions of the organisation,
\* whatever their course and closed ones too; 200 files of a stage), or it was opened since;
\* or, for a file, if since then an enrolment has moved it to the course, or a funding that
\* was put over an enrolment has moved it back (attribution.go:117-137, 176-259).
DuplicatesOnlyUnseen == [][DuplicatedUnseen]_attributionVars
=============================================================================
