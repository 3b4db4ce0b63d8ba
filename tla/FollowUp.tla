------------------------------ MODULE FollowUp -------------------------------
(***************************************************************************)
(* The survey that follows a training three months later: the closing of   *)
(* a session plans it (catalog/close.go, httpapi/followup.go), a daily run *)
(* mails it (followup/followup.go, runTask of cmd/api), a public link      *)
(* records the answer.                                                     *)
(*                                                                         *)
(* Closing writes the event of each file in turn, the session with the     *)
(* first one, and plans the tasks after the last; a failure ends it, and a *)
(* closed session is not closed again.  A run lists the tasks of two       *)
(* months that are due, one list after the other, which is twice the same  *)
(* on the last days of a long month, then mails and rewrites each from the *)
(* copy it read; runs may overlap (the invocation is repeated when it      *)
(* fails).  The two lists are read in one step.  One session.  A date is a *)
(* month and a day.  Tokens are numbered; the expiry of a link and the     *)
(* text of the mails are left out.  A journalled write is one step.        *)
(***************************************************************************)
EXTENDS Integers, Sequences, FiniteSets

CONSTANTS
    Learners,    \* contacts that may be enrolled
    Reachable,   \* those who have an address
    FileOf,      \* FileOf[l]: the file of l's enrolment, or None
    Handlers,    \* instances, each serves one request after another
    MaxTokens,   \* bound on the mails of the runs
    MaxAnswers,  \* bound on the answers of a learner
    Calendar,    \* dates that come one after the other, the bound of the clock
    MonthLength, \* MonthLength[m]: the number of days of month m
    Dues,        \* dates on which the tasks may be due
    None         \* no file, no token

Statuses == {"planned", "sent", "answered"}

Task == [status : Statuses, token : Nat \cup {None}]

Date == [month : Nat, day : Nat]

FollowUpConstants ==
    /\ Reachable \subseteq Learners
    /\ None \notin Learners /\ None \notin Nat /\ None \notin Task
    /\ MaxTokens \in Nat /\ MaxAnswers \in Nat
    /\ Calendar \in Seq(Date) /\ Calendar # <<>>
    /\ \A k \in DOMAIN Calendar : /\ MonthLength[Calendar[k].month] \in Nat
                                  /\ Calendar[k].day \in 1 .. MonthLength[Calendar[k].month]
    /\ Dues \subseteq {Calendar[k] : k \in DOMAIN Calendar}

VARIABLES
    today,     \* the rank of today in the calendar
    due,       \* three months after the end of the session
    closed,    \* the session is closed
    enrolled,  \* the learners enrolled
    surveyed,  \* a cold survey is published
    tasks,     \* tasks[l]: the task of learner l, or None
    pointers,  \* the links that lead to a task: token and learner
    mails,     \* the mails that were delivered: token and learner
    drawn,     \* the tokens drawn so far
    answers,   \* answers[l]: the answers recorded for l
    journal,   \* the events of the files: what, and for which file or learner
    job        \* job[h]: where handler h is

state == <<closed, enrolled, surveyed, tasks, pointers, mails, drawn, answers, journal>>
vars == <<today, due, state, job>>

-----------------------------------------------------------------------------

Idle == [pc |-> "idle", learner |-> None, todo |-> {}, again |-> {}, files |-> {},
         token |-> None, copy |-> None]

Planned == [status |-> "planned", token |-> None]

Init ==
    /\ today = 1 /\ due \in Dues
    /\ closed = FALSE /\ enrolled = {} /\ surveyed \in BOOLEAN
    /\ tasks = [l \in Learners |-> None]
    /\ pointers = {} /\ mails = {} /\ drawn = 0
    /\ answers = [l \in Learners |-> 0]
    /\ journal = <<>>
    /\ job = [h \in Handlers |-> Idle]

\* Handler h goes on as j.
Goto(h, j) == job' = [job EXCEPT ![h] = j] /\ UNCHANGED <<today, due>>

Files(learners) == {FileOf[l] : l \in learners} \ {None}

-----------------------------------------------------------------------------
(* Enrolment, from a session that was read open *)

ReadEnroll(h, l) ==
    /\ job[h].pc = "idle" /\ ~ closed
    /\ Goto(h, [Idle EXCEPT !.pc = "enroll", !.learner = l])
    /\ UNCHANGED state

WriteEnroll(h) ==
    /\ job[h].pc = "enroll" /\ job[h].learner \notin enrolled
    /\ enrolled' = enrolled \cup {job[h].learner}
    /\ Goto(h, Idle)
    /\ UNCHANGED <<closed, surveyed, tasks, pointers, mails, drawn, answers, journal>>

-----------------------------------------------------------------------------
(* Closing *)

Event(what, file, l) == [what |-> what, file |-> file, learner |-> l]

\* The session is open; the learners are listed.
ReadClose(h) ==
    /\ job[h].pc = "idle" /\ ~ closed
    /\ Goto(h, [Idle EXCEPT !.pc = IF Files(enrolled) = {} THEN "bare" ELSE "closing",
                            !.todo = enrolled, !.files = Files(enrolled)])
    /\ UNCHANGED state

\* No file: the session alone.
CloseBare(h) ==
    /\ job[h].pc = "bare"
    /\ closed' = TRUE
    /\ Goto(h, [job[h] EXCEPT !.pc = "closed"])
    /\ UNCHANGED <<enrolled, surveyed, tasks, pointers, mails, drawn, answers, journal>>

\* Faulty: the handler goes on after the first file.
FaultyCloseFile(h) ==
    /\ job[h].pc = "closing"
    /\ \E file \in job[h].files : journal' = Append(journal, Event("closed", file, None))
    /\ closed' = TRUE
    /\ Goto(h, [job[h] EXCEPT !.files = {}, !.pc = "closed"])
    /\ UNCHANGED <<enrolled, surveyed, tasks, pointers, mails, drawn, answers>>

\* The closing is journalled on one more file, and the session put with the first.
CloseFile(h) ==
    /\ job[h].pc = "closing"
    /\ \E file \in job[h].files :
          /\ closed' = (closed \/ job[h].files = Files(job[h].todo))
          /\ journal' = Append(journal, Event("closed", file, None))
          /\ Goto(h, [job[h] EXCEPT !.files = @ \ {file},
                                    !.pc = IF job[h].files = {file} THEN "closed" ELSE "closing"])
    /\ UNCHANGED <<enrolled, surveyed, tasks, pointers, mails, drawn, answers>>

\* Without a published survey the handler ends there.
LookForSurvey(h) ==
    /\ job[h].pc = "closed"
    /\ Goto(h, IF surveyed /\ job[h].todo # {} THEN [job[h] EXCEPT !.pc = "plan"] ELSE Idle)
    /\ UNCHANGED state

\* Faulty: a task that exists is planned anew.
FaultySchedule(h) ==
    /\ job[h].pc = "plan"
    /\ \E l \in job[h].todo :
          /\ tasks' = IF l \in Reachable THEN [tasks EXCEPT ![l] = Planned] ELSE tasks
          /\ Goto(h, IF job[h].todo = {l} THEN Idle ELSE [job[h] EXCEPT !.todo = @ \ {l}])
    /\ UNCHANGED <<closed, enrolled, surveyed, pointers, mails, drawn, answers, journal>>

\* One task for each learner, unless there is no address, or a task already.
Schedule(h) ==
    /\ job[h].pc = "plan"
    /\ \E l \in job[h].todo :
          /\ tasks' = IF l \in Reachable /\ tasks[l] = None
                      THEN [tasks EXCEPT ![l] = Planned] ELSE tasks
          /\ Goto(h, IF job[h].todo = {l} THEN Idle ELSE [job[h] EXCEPT !.todo = @ \ {l}])
    /\ UNCHANGED <<closed, enrolled, surveyed, pointers, mails, drawn, answers, journal>>

-----------------------------------------------------------------------------
(* The daily run *)

Before(a, b) == a.month < b.month \/ (a.month = b.month /\ a.day <= b.day)

\* AddDate(0, -1, 0): a day the previous month does not have falls in the month itself.
PreviousMonth(date) ==
    IF date.day > MonthLength[date.month - 1] THEN date.month ELSE date.month - 1

\* The tasks of a month that are due and were not sent.
DueIn(month, at) == {l \in Learners : /\ tasks[l] # None /\ tasks[l].status = "planned"
                                      /\ Before(due, at) /\ due.month = month}

\* Faulty: the current month only.
FaultyQueries(at) == <<DueIn(at.month, at), {}>>

\* The current month, then the previous one, if it is another.
Queries(at) == <<DueIn(at.month, at), DueIn(PreviousMonth(at), at)>>

Due(at) == Queries(at)[1] \cup Queries(at)[2]

\* The run goes through the first list, then through the second.
Listing(j, first, second) ==
    IF first # {} THEN [j EXCEPT !.pc = "mail", !.learner = None, !.todo = first, !.again = second]
    ELSE IF second # {} THEN [j EXCEPT !.pc = "mail", !.learner = None, !.todo = second, !.again = {}]
    ELSE Idle

BeginRun(h) ==
    /\ job[h].pc = "idle" /\ Due(Calendar[today]) # {}
    /\ Goto(h, Listing(Idle, Queries(Calendar[today])[1], Queries(Calendar[today])[2]))
    /\ UNCHANGED state

\* On to the next task of the run, or its end.
NextTask(h, l) == Listing(job[h], job[h].todo \ {l}, job[h].again)

\* A token of its own, and the mail.
Mail(h, l) ==
    /\ job[h].pc = "mail" /\ l \in job[h].todo /\ drawn < MaxTokens
    /\ drawn' = drawn + 1
    /\ mails' = mails \cup {<<drawn + 1, l>>}
    /\ Goto(h, [job[h] EXCEPT !.pc = "record", !.learner = l, !.token = drawn + 1])
    /\ UNCHANGED <<closed, enrolled, surveyed, tasks, pointers, answers, journal>>

\* The mail fails, or the answer of the mail service is lost: it may have gone.
MailFails(h, l) ==
    /\ job[h].pc = "mail" /\ l \in job[h].todo /\ drawn < MaxTokens
    /\ drawn' = drawn + 1
    /\ mails' \in {mails, mails \cup {<<drawn + 1, l>>}}
    /\ Goto(h, NextTask(h, l))
    /\ UNCHANGED <<closed, enrolled, surveyed, tasks, pointers, answers, journal>>

Sent(h) == [status |-> "sent", token |-> job[h].token]

\* Faulty: the task and its link, without the event.
FaultyRecordFiled(h) ==
    LET l == job[h].learner IN
    /\ job[h].pc = "record" /\ FileOf[l] # None
    /\ tasks' = [tasks EXCEPT ![l] = Sent(h)]
    /\ pointers' = pointers \cup {<<job[h].token, l>>}
    /\ Goto(h, NextTask(h, l))
    /\ UNCHANGED <<closed, enrolled, surveyed, mails, drawn, answers, journal>>

\* With a file: the task, its link and the event, together.
RecordFiled(h) ==
    LET l == job[h].learner IN
    /\ job[h].pc = "record" /\ FileOf[l] # None
    /\ tasks' = [tasks EXCEPT ![l] = Sent(h)]
    /\ pointers' = pointers \cup {<<job[h].token, l>>}
    /\ journal' = Append(journal, Event("sent", FileOf[l], l))
    /\ Goto(h, NextTask(h, l))
    /\ UNCHANGED <<closed, enrolled, surveyed, mails, drawn, answers>>

\* Without: the task, then its link.
RecordBare(h) ==
    /\ job[h].pc = "record" /\ FileOf[job[h].learner] = None
    /\ tasks' = [tasks EXCEPT ![job[h].learner] = Sent(h)]
    /\ Goto(h, [job[h] EXCEPT !.pc = "link"])
    /\ UNCHANGED <<closed, enrolled, surveyed, pointers, mails, drawn, answers, journal>>

RecordLink(h) ==
    /\ job[h].pc = "link"
    /\ pointers' = pointers \cup {<<job[h].token, job[h].learner>>}
    /\ Goto(h, NextTask(h, job[h].learner))
    /\ UNCHANGED <<closed, enrolled, surveyed, tasks, mails, drawn, answers, journal>>

\* The run goes on after a write that failed.
RecordFails(h) ==
    /\ job[h].pc \in {"record", "link"}
    /\ Goto(h, NextTask(h, job[h].learner))
    /\ UNCHANGED state

-----------------------------------------------------------------------------
(* The public link *)

Resolve(token, l) == <<token, l>> \in pointers /\ tasks[l].token = token

\* A link that was mailed, to a task not answered yet.
OpenSurvey(h, token, l) ==
    /\ job[h].pc = "idle"
    /\ <<token, l>> \in mails /\ Resolve(token, l) /\ tasks[l].status # "answered"
    /\ Goto(h, [Idle EXCEPT !.pc = "answer", !.learner = l, !.copy = tasks[l]])
    /\ UNCHANGED state

Submit(h) ==
    /\ job[h].pc = "answer" /\ answers[job[h].learner] < MaxAnswers
    /\ answers' = [answers EXCEPT ![job[h].learner] = @ + 1]
    /\ Goto(h, [job[h] EXCEPT !.pc = "mark"])
    /\ UNCHANGED <<closed, enrolled, surveyed, tasks, pointers, mails, drawn, journal>>

\* The task that was read is put back as answered.
Answered(h) ==
    /\ job[h].pc = "mark"
    /\ tasks' = [tasks EXCEPT ![job[h].learner] = [job[h].copy EXCEPT !.status = "answered"]]
    /\ Goto(h, Idle)
    /\ UNCHANGED <<closed, enrolled, surveyed, pointers, mails, drawn, answers, journal>>

-----------------------------------------------------------------------------

\* An error of the store, or the death of the instance.
GiveUp(h) ==
    /\ job[h].pc # "idle"
    /\ Goto(h, Idle)
    /\ UNCHANGED state

Publish == /\ ~ surveyed /\ surveyed' = TRUE
           /\ UNCHANGED <<today, due, closed, enrolled, tasks, pointers, mails, drawn, answers,
                          journal, job>>

Tomorrow == today < Len(Calendar) /\ today' = today + 1 /\ UNCHANGED <<due, state, job>>

Close(h) == ReadClose(h) \/ CloseBare(h) \/ CloseFile(h) \/ LookForSurvey(h) \/ Schedule(h)

Run(h) == \/ BeginRun(h) \/ RecordFiled(h) \/ RecordBare(h) \/ RecordLink(h) \/ RecordFails(h)
          \/ \E l \in Learners : Mail(h, l) \/ MailFails(h, l)

Survey(h) == \/ \E link \in mails : OpenSurvey(h, link[1], link[2])
             \/ Submit(h) \/ Answered(h)

Next == \/ \E h \in Handlers : \/ Close(h) \/ Run(h) \/ Survey(h) \/ GiveUp(h)
                               \/ (\E l \in Learners : ReadEnroll(h, l)) \/ WriteEnroll(h)
        \/ Publish \/ Tomorrow

Spec == Init /\ [][Next]_vars

-----------------------------------------------------------------------------
(* Properties *)

Count(what, l) ==
    Cardinality({k \in DOMAIN journal : journal[k].what = what /\ journal[k].learner = l})

\* The tasks are what the handlers build: a token from the mail on, and never before.
TypeOK ==
    /\ today \in DOMAIN Calendar /\ due \in Dues /\ drawn \in Nat
    /\ closed \in BOOLEAN /\ enrolled \subseteq Learners /\ surveyed \in BOOLEAN
    /\ \A l \in Learners : tasks[l] # None =>
           /\ tasks[l] \in [status : Statuses, token : (1 .. drawn) \cup {None}]
           /\ tasks[l].status = "planned" <=> tasks[l].token = None
    /\ pointers \subseteq mails /\ mails \subseteq (1 .. drawn) \X Learners
    /\ answers \in [Learners -> Nat]

\* No survey is planned before the closing is in the journal of every file of the session
\* that the closing knew, nor for a learner who is not enrolled or cannot be reached
\* (catalog/close.go:38-75, httpapi/followup.go:73-96).
TasksFollowClosure ==
    \A l \in Learners : tasks[l] # None =>
        /\ closed /\ l \in enrolled \cap Reachable
        /\ FileOf[l] # None => \E k \in DOMAIN journal :
               journal[k] = Event("closed", FileOf[l], None)

\* The rate of return can be shown: a task that says it was sent has its mail, delivered
\* under its token, and its event, and no more events than mails; an answer that was
\* recorded answers a mail, and a task that says it was answered has an answer
\* (followup/followup.go:263-282, httpapi/followup.go:164-192).
ReturnsAccounted ==
    /\ TypeOK
    /\ \A l \in Learners :
           /\ (tasks[l] # None /\ tasks[l].status # "planned") =>
                  /\ <<tasks[l].token, l>> \in mails
                  /\ FileOf[l] # None => <<tasks[l].token, l>> \in pointers /\ Count("sent", l) > 0
           /\ Count("sent", l) <= Cardinality({m \in mails : m[2] = l})
           /\ answers[l] > 0 => \E m \in mails : m[2] = l
           /\ (tasks[l] # None /\ tasks[l].status = "answered") => answers[l] > 0

\* A step that undoes a task that was sent or answered.
ReopenedByRun ==
    \A l \in Learners :
        (tasks[l] # None /\ tasks[l].status # "planned" /\ tasks'[l] # tasks[l]
             /\ tasks'[l].status # "answered")
        => \E h \in Handlers : /\ job[h].pc = "record" /\ job[h].learner = l
                               /\ tasks'[l] = Sent(h) /\ tasks[l].token # job[h].token

\* What was sent or answered is undone only by a run that had listed the task as planned
\* and records a mail of its own: one that overlaps the run that sent it, or, on the last
\* days of a long month, that run itself, which has the task in both its lists.  A second
\* closing never does (followup/followup.go:166-170, 180-192 and 246-289).
OnlyRunsReopen == [][ReopenedByRun]_vars

\* followup_test.go:119: when it is due the survey goes once, and once only.  With one
\* instance at work, and what a run that failed has left sent by the next.
SentOnce == \A l \in Learners : Count("sent", l) <= 1

\* A survey that is due and was not sent, because of an outage, is among those of today's
\* run for as long as the month that follows its own lasts, but for the days of a long
\* month that the month before does not have (followup/followup.go:174-192).
DueCatchesUp ==
    LET at == Calendar[today] IN
    \A l \in Learners :
        /\ tasks[l] # None /\ tasks[l].status = "planned"
        /\ Before(due, at) /\ at.month <= due.month + 1
        /\ at.month = due.month \/ at.day <= MonthLength[due.month]
        => l \in Due(at)
=============================================================================
