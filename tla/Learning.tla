------------------------------ MODULE Learning ------------------------------
(***************************************************************************)
(* The progress of one learner on one module of a session                  *)
(* (learning/service.go, learning/quiz_store.go, httpapi/learning.go,      *)
(* catalog/model.go): the signals of the video player, the quizzes, and    *)
(* the enrollment both of them write.                                      *)
(*                                                                         *)
(* The player signals every few seconds, possibly from two tabs, while a   *)
(* quiz is submitted.  A signal reads and puts the watch record, then      *)
(* reads and puts the enrollment; a submission counts the attempts, reads  *)
(* the enrollment and the watch record, then puts its attempt and the      *)
(* enrollment.  No put has a condition.  Only what validates the module or *)
(* grades a quiz is journalled, in one step (AuditLog implements Ledger).  *)
(*                                                                         *)
(* The module has a video and a quiz.  The enrollment exists.  Of a grade, *)
(* only pass or fail is kept; an attempt goes by the handler that          *)
(* submitted it.                                                           *)
(***************************************************************************)
EXTENDS Coverage

CONSTANTS
    Handlers,        \* handler executions
    Beats,           \* signals the player may send
    Quizzes,         \* the kinds of quizzes, a subset of AllQuizzes
    MaxAttempts,     \* MaxAttempts[quiz]: the attempts a quiz allows, 0 for no limit
    MinSegments,     \* slices that validate the module
    Horizon          \* bound on the clock

\* "satisfaction" stands for the kinds that change nothing of the enrollment.
AllQuizzes == {"positioning", "post_module", "final", "satisfaction"}

ASSUME LearningConstants ==
    /\ Quizzes \subseteq AllQuizzes
    /\ IsFiniteSet(Handlers)
    /\ Beats \subseteq [from : Int, to : Int, focused : BOOLEAN]
    /\ MaxAttempts \in [Quizzes -> Nat] /\ MinSegments \in Nat /\ Horizon \in Nat

VARIABLES
    clock,       \* the servers' clock
    watch,       \* the watch record of the module
    enrollment,  \* the enrollment, with its progress on the module
    attempts,    \* attempts[quiz]: the attempts stored, by number
    chain,       \* the audit chain
    job          \* job[h]: where handler h is, with the copies it read

vars == <<clock, watch, enrollment, attempts, chain, job>>

NewEnrollment == [started |-> FALSE, covered |-> 0, quizPassed |-> FALSE, completed |-> FALSE,
                  positioned |-> FALSE, finalPassed |-> FALSE]

\* No watch record: what a read that finds none, or fails, returns.
NoCoverage == [NewCoverage EXCEPT !.duration = 0]

NoBeat == [from |-> 0, to |-> 0, focused |-> FALSE]

Idle == [pc |-> "idle", kind |-> "beat", beat |-> NoBeat, quiz |-> "post_module",
         passed |-> FALSE, number |-> 0, now |-> 0, accepted |-> FALSE, seen |-> NoCoverage,
         copy |-> NewEnrollment]

Init == /\ clock = 0
        /\ watch = NoCoverage
        /\ enrollment = NewEnrollment
        /\ attempts = [quiz \in Quizzes |-> <<>>]
        /\ chain = <<>>
        /\ job = [h \in Handlers |-> Idle]

Submitted(h) == [action |-> "quiz.submitted", by |-> h, quiz |-> job[h].quiz,
                 number |-> job[h].number, passed |-> job[h].passed, covered |-> 0]

Completed(h, covered) == [action |-> "module.completed", by |-> h, quiz |-> "post_module",
                          number |-> 0, passed |-> TRUE, covered |-> covered]

-----------------------------------------------------------------------------
(* Progress *)

\* Faulty: attendance or the quiz is enough.
FaultyComplete(progress) == progress.covered >= MinSegments \/ progress.quizPassed

Complete(progress) == progress.covered >= MinSegments /\ progress.quizPassed

\* Faulty: a failed retake takes the pass away.
FaultyReport(copy, c, graded, passed) ==
    [copy EXCEPT !.started = TRUE, !.covered = IF c.duration > 0 THEN CoveredSegments(c) ELSE @,
                 !.quizPassed = IF graded THEN passed ELSE @]

\* The coverage, if a watch record was read, and the grade, if there is one, carried
\* over to the enrollment.
Report(copy, c, graded, passed) ==
    [copy EXCEPT !.started = TRUE, !.covered = IF c.duration > 0 THEN CoveredSegments(c) ELSE @,
                 !.quizPassed = @ \/ (graded /\ passed)]

\* The date of completion is set once.
ApplyProgress(copy, c, graded, passed) ==
    LET progress == Report(copy, c, graded, passed)
    IN  [progress EXCEPT !.completed = @ \/ Complete(progress)]

-----------------------------------------------------------------------------
(* Heartbeat *)

\* loadWatch: the duration is the one the module has now.
Loaded == [watch EXCEPT !.duration = DurationMs]

ReadWatch(h, beat) ==
    /\ job[h].pc = "idle"
    /\ job' = [job EXCEPT ![h] = [Idle EXCEPT !.pc = "watch", !.beat = beat, !.now = clock,
                                              !.seen = Loaded]]
    /\ UNCHANGED <<clock, watch, enrollment, attempts, chain>>

\* The signal takes its time after the read; accepted or not, the record is put.
PutWatch(h) ==
    /\ job[h].pc = "watch"
    /\ \E at \in job[h].now .. clock :
          LET accepted == Accepted(job[h].seen, job[h].beat, at)
              c == Apply(job[h].seen, job[h].beat, at)
          IN  /\ watch' = c
              /\ job' = [job EXCEPT ![h].seen = c, ![h].accepted = accepted,
                                    ![h].pc = IF accepted THEN "enrollment" ELSE "refused"]
    /\ UNCHANGED <<clock, enrollment, attempts, chain>>

ReadEnrollment(h) ==
    /\ job[h].pc = "enrollment"
    /\ job' = [job EXCEPT ![h].pc = "progress", ![h].copy = enrollment]
    /\ UNCHANGED <<clock, watch, enrollment, attempts, chain>>

\* Faulty: the enrollment is put, a validated module is journalled later.
FaultyPutProgress(h) ==
    /\ job[h].pc = "progress"
    /\ LET e == ApplyProgress(job[h].copy, job[h].seen, FALSE, FALSE)
       IN  /\ enrollment' = e
           /\ \E lost \in BOOLEAN :
                 chain' = IF e.completed /\ ~ job[h].copy.completed /\ ~ lost
                          THEN Append(chain, Completed(h, e.covered)) ELSE chain
    /\ job' = [job EXCEPT ![h].pc = "done"]
    /\ UNCHANGED <<clock, watch, attempts>>

\* refreshProgress: journalled only if the module has just been validated.
PutProgress(h) ==
    /\ job[h].pc = "progress"
    /\ LET e == ApplyProgress(job[h].copy, job[h].seen, FALSE, FALSE)
       IN  /\ enrollment' = e
           /\ chain' = IF e.completed /\ ~ job[h].copy.completed
                       THEN Append(chain, Completed(h, e.covered)) ELSE chain
    /\ job' = [job EXCEPT ![h].pc = "done"]
    /\ UNCHANGED <<clock, watch, attempts>>

-----------------------------------------------------------------------------
(* SubmitQuiz *)

\* Faulty: one attempt too many.
FaultyAllowed(quiz, number) == MaxAttempts[quiz] > 0 => number <= MaxAttempts[quiz] + 1

Allowed(quiz, number) == MaxAttempts[quiz] > 0 => number <= MaxAttempts[quiz]

\* The attempts are counted by a query that may lag behind the last writes.
CountAttempts(h, quiz, passed) ==
    /\ job[h].pc = "idle"
    /\ \E counted \in 0 .. Len(attempts[quiz]) :
          /\ Allowed(quiz, counted + 1)
          /\ job' = [job EXCEPT ![h] = [Idle EXCEPT !.pc = "grade", !.kind = "quiz", !.quiz = quiz,
                                                    !.passed = passed, !.number = counted + 1]]
    /\ UNCHANGED <<clock, watch, enrollment, attempts, chain>>

\* The grade, then the enrollment; a module quiz needs the watch record too.
ReadForQuiz(h) ==
    /\ job[h].pc = "grade"
    /\ job' = [job EXCEPT ![h].pc = IF job[h].quiz = "post_module" THEN "coverage" ELSE "submit",
                          ![h].copy = enrollment]
    /\ UNCHANGED <<clock, watch, enrollment, attempts, chain>>

\* A read that fails is not an error: the submission goes on without the coverage.
ReadCoverage(h) ==
    /\ job[h].pc = "coverage"
    /\ \E read \in {watch, NoCoverage} : job' = [job EXCEPT ![h].pc = "submit", ![h].seen = read]
    /\ UNCHANGED <<clock, watch, enrollment, attempts, chain>>

\* What a submission makes of the enrollment it read.
Graded(h) ==
    LET copy == job[h].copy
    IN  CASE job[h].quiz = "post_module" -> ApplyProgress(copy, job[h].seen, TRUE, job[h].passed)
          [] job[h].quiz = "positioning" -> [copy EXCEPT !.positioned = TRUE]
          [] job[h].quiz = "final"       -> [copy EXCEPT !.finalPassed = job[h].passed]
          [] OTHER                       -> copy

\* The attempts once h has put its own under its number.
Stored(h) == [n \in DOMAIN attempts[job[h].quiz] \cup {job[h].number} |->
                 IF n = job[h].number THEN h ELSE attempts[job[h].quiz][n]]

\* The attempt, the enrollment and one or two events, in one transaction.
PutSubmission(h) ==
    /\ job[h].pc = "submit"
    /\ attempts' = [attempts EXCEPT ![job[h].quiz] = Stored(h)]
    /\ enrollment' = Graded(h)
    /\ chain' = IF Graded(h).completed /\ ~ job[h].copy.completed
                THEN chain \o <<Submitted(h), Completed(h, Graded(h).covered)>>
                ELSE Append(chain, Submitted(h))
    /\ job' = [job EXCEPT ![h].pc = "done"]
    /\ UNCHANGED <<clock, watch>>

-----------------------------------------------------------------------------
(* Failures and time *)

\* An error of the store or the death of the instance: the handler stops there.
Stop(h) ==
    /\ job[h].pc \notin {"idle", "done", "refused", "stopped"}
    /\ job' = [job EXCEPT ![h].pc = "stopped"]
    /\ UNCHANGED <<clock, watch, enrollment, attempts, chain>>

Tick == /\ clock < Horizon
        /\ clock' = clock + 1
        /\ UNCHANGED <<watch, enrollment, attempts, chain, job>>

Heartbeat(h) == \/ \E beat \in Beats : ReadWatch(h, beat)
                \/ PutWatch(h) \/ ReadEnrollment(h) \/ PutProgress(h)

SubmitQuiz(h) == \/ \E quiz \in Quizzes, passed \in BOOLEAN : CountAttempts(h, quiz, passed)
                 \/ ReadForQuiz(h) \/ ReadCoverage(h) \/ PutSubmission(h)

Next == Tick \/ \E h \in Handlers : Heartbeat(h) \/ SubmitQuiz(h) \/ Stop(h)

Spec == Init /\ [][Next]_vars

-----------------------------------------------------------------------------
(* Properties *)

Record == [duration : {0, DurationMs}, segments : SUBSET (0 .. SegmentCount - 1),
           watched : Int, started : BOOLEAN, firstAt : 0 .. Horizon, lastAt : 0 .. Horizon]

Progress == [started : BOOLEAN, covered : 0 .. SegmentCount, quizPassed : BOOLEAN,
             completed : BOOLEAN, positioned : BOOLEAN, finalPassed : BOOLEAN]

Event == [action : {"quiz.submitted", "module.completed"}, by : Handlers, quiz : AllQuizzes,
          number : Nat, passed : BOOLEAN, covered : 0 .. SegmentCount]

Places == {"idle", "watch", "refused", "enrollment", "progress", "grade", "coverage", "submit",
           "done", "stopped"}

Job == [pc : Places, kind : {"beat", "quiz"}, beat : Beats \cup {NoBeat}, quiz : AllQuizzes,
        passed : BOOLEAN, number : Nat, now : 0 .. Horizon, accepted : BOOLEAN,
        seen : Record, copy : Progress]

\* The handlers whose signal was accepted, and what the signals played.
Listened == {h \in Handlers : job[h].accepted}

Earned(i) == \E h \in Listened : /\ job[h].beat.focused
                                 /\ job[h].beat.from < (i + 1) * SegmentMs
                                 /\ i * SegmentMs < job[h].beat.to

\* Records, enrollments and copies are what the handlers build, slices stay within the
\* module, and the attempts of a quiz are numbered from 1 without a gap, though two of
\* them may share a number (quiz/grade.go:82).
TypeOK ==
    /\ clock \in 0 .. Horizon
    /\ watch \in Record
    /\ enrollment \in Progress
    /\ attempts \in [Quizzes -> Seq(Handlers)]
    /\ chain \in Seq(Event)
    /\ job \in [Handlers -> Job]

\* An attempt that is stored is the last one journalled under its number, and no number
\* exceeds what its quiz allows, if it has a limit: the copy of an attempt and the chain
\* agree even when two submissions took the same number.
AttemptsJournalled ==
    \A quiz \in Quizzes :
        LET ranks(n) == {k \in DOMAIN chain : /\ chain[k].action = "quiz.submitted"
                                              /\ chain[k].quiz = quiz /\ chain[k].number = n}
        IN  /\ MaxAttempts[quiz] > 0 => Len(attempts[quiz]) <= MaxAttempts[quiz]
            /\ \A n \in DOMAIN attempts[quiz] :
                   \E k \in ranks(n) : /\ chain[k].by = attempts[quiz][n]
                                       /\ \A j \in ranks(n) : j <= k

\* A module is validated in the chain only after a passed quiz, and with a coverage
\* that is enough and that signals accepted by then have earned
\* (catalog/model.go:276-287: really seen and passed, both).
CompletionEarned ==
    \A k \in DOMAIN chain : chain[k].action = "module.completed" =>
        /\ \E j \in 1 .. k - 1 : /\ chain[j].action = "quiz.submitted"
                                 /\ chain[j].quiz = "post_module" /\ chain[j].passed
        /\ chain[k].covered >= MinSegments
        /\ chain[k].covered <= Cardinality({i \in 0 .. SegmentCount - 1 : Earned(i)})

\* The enrollment never shows a validated module that the chain does not, whatever
\* stale copies were put (learning/service.go:191-195).
CompletionJournalled ==
    enrollment.completed => \E k \in DOMAIN chain : chain[k].action = "module.completed"

\* A write never forgets the pass that its own copy shows: only a copy read before the
\* pass can take it away (learning/service.go:298-300).
OnlyStaleCopiesForget ==
    [][enrollment.quizPassed /\ ~ enrollment'.quizPassed =>
          \E h \in Handlers : job'[h] # job[h] /\ ~ job[h].copy.quizPassed]_vars

\* What the record holds was earned: each lit slice was played by an accepted signal,
\* and the time watched fits between the first and the last signal, at the fastest rate,
\* with one tolerance per signal; lost updates never add anything (lms/coverage.go:92-95).
WatchEarned ==
    /\ \A i \in watch.segments : Earned(i)
    /\ watch.started =>
           watch.watched <= DurationMs + (watch.lastAt - watch.firstAt) * MaxRate
                              + (Cardinality(Listened) - 1) * ClockTolerance

\* The gaps shown to the trainer are exactly the time not covered: in order, apart from
\* each other, and a slice is in a gap if and only if it was not seen.
GapsExact ==
    LET gaps == Gaps(watch)
    IN  /\ \A k \in DOMAIN gaps : gaps[k][1] < gaps[k][2] /\ gaps[k][2] <= DurationMs
        /\ \A k \in DOMAIN gaps : k > 1 => gaps[k - 1][2] < gaps[k][1]
        /\ \A i \in 0 .. SegmentCount - 1 :
               i \notin watch.segments <=>
                   \E k \in DOMAIN gaps : gaps[k][1] <= i * SegmentMs /\ i * SegmentMs < gaps[k][2]
=============================================================================
