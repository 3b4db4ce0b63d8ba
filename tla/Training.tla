------------------------------ MODULE Training -------------------------------
(* The life of a training session: the progress of a learner on a module (Learning), the  *)
(* attendance sheets (Attendance), the closure and the surveys (FollowUp).  The three     *)
(* write records of their own.                                                            *)
EXTENDS Learning

CONSTANTS
    \* Attendance
    Sessions, Modules, Attendees, Methods, Instants, None,
    \* FollowUp
    Learners, Reachable, FileOf, Desks, MaxTokens, MaxAnswers, Calendar, MonthLength, Dues

VARIABLES session, modules, now, sheet, entries, events, desk,
          today, due, closed, enrolled, surveyed, tasks, pointers, mails, drawn, answers, journal, work

A == INSTANCE Attendance WITH
         Learners <- Attendees, clock <- now, journal <- events, job <- desk

F == INSTANCE FollowUp WITH Handlers <- Desks, job <- work

attendance == <<session, modules, now, sheet, entries, events, desk>>
followup == <<today, due, closed, enrolled, surveyed, tasks, pointers, mails, drawn, answers,
              journal, work>>

PresencesJournalled == A!PresencesJournalled
SheetCoversSession == A!SheetCoversSession
SheetSettles == A!SheetSettles
TasksFollowClosure == F!TasksFollowClosure
ReturnsAccounted == F!ReturnsAccounted
OnlyRunsReopen == F!OnlyRunsReopen
DueCatchesUp == F!DueCatchesUp
SentOnce == F!SentOnce
=============================================================================
