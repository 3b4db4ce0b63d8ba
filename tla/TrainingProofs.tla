--------------------------- MODULE TrainingProofs ----------------------------
(***************************************************************************)
(* Proofs about the life of a session (Training): its surveys (FollowUp)   *)
(* and its attendance sheets (Attendance).                                 *)
(*                                                                         *)
(* Surveys.  BasicInv says what each task, link and answer rests on, and   *)
(* what each handler has read; the facts it is made of only grow, so that  *)
(* a copy stays right however late it is used.  Two counts go with it:     *)
(* FreshInv (the token of a mail that waits to be recorded is nobody       *)
(* else's: a run that undoes a task records another mail than it) and      *)
(* CountInv (the mails to a learner are as many as the events and the      *)
(* handlers about to write one).                                           *)
(*                                                                         *)
(* Attendance.  AttendanceInv says that every sheet, and every copy of     *)
(* one, has the slots of the session, which come from a loop over its      *)
(* days; that presences and their events go one to one; and that a copy    *)
(* which is countersigned has its event.  The constants are only those of  *)
(* AttendanceConstants and FollowUpConstants.                              *)
(***************************************************************************)
EXTENDS Training, FiniteSetTheorems, TLAPS

-----------------------------------------------------------------------------
(* FollowUp: tasks, mails and answers *)

FollowEvents == [what : {"closed", "sent"}, file : {FileOf[l] : l \in Learners}, learner : Learners \cup {None}]

FollowTypes ==
    /\ today \in DOMAIN Calendar /\ due \in Dues /\ drawn \in Nat
    /\ closed \in BOOLEAN /\ enrolled \subseteq Learners /\ surveyed \in BOOLEAN
    /\ DOMAIN tasks = Learners /\ answers \in [Learners -> Nat]
    /\ mails \subseteq (1 .. drawn) \X Learners /\ pointers \subseteq mails
    /\ journal \in Seq(FollowEvents)

\* The closing is in the journal of the file of l; a mail to l is recorded; one was sent.
ClosingRecorded(l) ==
    FileOf[l] = None \/ \E k \in DOMAIN journal : journal[k] = F!Event("closed", FileOf[l], None)
SentRecorded(l) ==
    FileOf[l] = None \/ \E k \in DOMAIN journal : journal[k].what = "sent" /\ journal[k].learner = l
Mailed(l) == \E m \in mails : m[2] = l

\* Record t may be the task of learner l.
TaskOK(l, t) ==
    /\ t \in F!Task /\ t.token \in (1 .. drawn) \cup {None}
    /\ t.status = "planned" <=> t.token = None
    /\ closed /\ l \in enrolled /\ l \in Reachable /\ ClosingRecorded(l)
    /\ t.status # "planned" =>
          <<t.token, l>> \in mails /\ SentRecorded(l) /\ (FileOf[l] # None => <<t.token, l>> \in pointers)
    /\ t.status = "answered" => answers[l] > 0

TasksInv == \A l \in Learners : tasks[l] # None => TaskOK(l, tasks[l])

LinksInv == \A p \in pointers : tasks[p[2]] # None /\ SentRecorded(p[2])

AnswersInv == \A l \in Learners : answers[l] > 0 => Mailed(l)

FollowSlots == {"pc", "learner", "todo", "again", "files", "token", "copy"}

\* What handler j has read, and done so far.
FollowJobOK(j) ==
    /\ DOMAIN j = FollowSlots
    /\ j.pc = "enroll" => j.learner \in Learners
    /\ j.pc \in {"bare", "closing", "closed", "plan"} => j.todo \subseteq enrolled
    /\ j.pc = "bare" => F!Files(j.todo) = {}
    /\ j.pc = "closing" =>
          /\ closed \/ j.files = F!Files(j.todo)
          /\ j.files \subseteq {FileOf[l] : l \in Learners}
          /\ \A l \in j.todo : FileOf[l] \in j.files \/ ClosingRecorded(l)
    /\ j.pc \in {"closed", "plan"} => closed /\ \A l \in j.todo : ClosingRecorded(l)
    /\ j.pc \in {"mail", "record", "link"} => \A l \in j.todo \cup j.again : l \in Learners /\ tasks[l] # None
    /\ j.pc \in {"record", "link"} =>
          j.learner \in Learners /\ tasks[j.learner] # None /\ <<j.token, j.learner>> \in mails
    /\ j.pc = "link" => FileOf[j.learner] = None
    /\ j.pc \in {"answer", "mark"} =>
          /\ j.learner \in Learners /\ j.copy \in F!Task /\ j.copy.status = "sent"
          /\ <<j.copy.token, j.learner>> \in pointers
    /\ j.pc = "mark" => answers[j.learner] > 0

FollowJobsInv == DOMAIN work = Desks /\ \A h \in Desks : FollowJobOK(work[h])

BasicInv == FollowTypes /\ TasksInv /\ LinksInv /\ AnswersInv /\ FollowJobsInv

\* What only grows.
FollowGrows ==
    /\ closed => closed'
    /\ enrolled \subseteq enrolled' /\ mails \subseteq mails' /\ pointers \subseteq pointers'
    /\ drawn' \in Nat /\ drawn <= drawn'
    /\ \A l \in Learners : /\ tasks[l] # None => tasks'[l] # None
                           /\ answers[l] > 0 => answers'[l] > 0
    /\ DOMAIN journal \subseteq DOMAIN journal' /\ \A k \in DOMAIN journal : journal'[k] = journal[k]

\* What changes is right.
FollowMoves ==
    /\ work' = work \/ \E h \in Desks : \E j : F!Goto(h, j) /\ (FollowJobOK(j) \/ FollowJobOK(j)')
    /\ \A l \in Learners : tasks'[l] = tasks[l] \/ \E t : tasks'[l] = t /\ (TaskOK(l, t) \/ TaskOK(l, t)')
    /\ \A p \in pointers' : p \in pointers \/ (\E l \in Learners : l = p[2] /\ tasks'[l] # None /\ SentRecorded(l)')
    /\ \A l \in Learners : answers'[l] = answers[l] \/ Mailed(l)

FollowOK == FollowTypes' /\ FollowGrows /\ FollowMoves

LEMMA RecordedGrows ==
    ASSUME FollowGrows, NEW l
    PROVE  /\ ClosingRecorded(l) => ClosingRecorded(l)'
           /\ SentRecorded(l) => SentRecorded(l)'
           /\ Mailed(l) => Mailed(l)'
BY DEF FollowGrows, ClosingRecorded, SentRecorded, Mailed

LEMMA TaskGrows ==
    ASSUME FollowTypes, FollowGrows, NEW l \in Learners, NEW t, TaskOK(l, t)
    PROVE  TaskOK(l, t)'
<1>1. t.token \in (1 .. drawn') \cup {None}
  BY DEF TaskOK, FollowTypes, FollowGrows
<1> QED BY <1>1, RecordedGrows DEF TaskOK, FollowGrows

LEMMA FollowJobGrows ==
    ASSUME FollowTypes, FollowGrows, NEW j, FollowJobOK(j)
    PROVE  FollowJobOK(j)'
<1>1. ASSUME j.pc = "closing" PROVE \A l \in j.todo : FileOf[l] \in j.files \/ ClosingRecorded(l)'
  BY <1>1, RecordedGrows DEF FollowJobOK
<1>2. ASSUME j.pc \in {"closed", "plan"} PROVE \A l \in j.todo : ClosingRecorded(l)'
  BY <1>2, RecordedGrows DEF FollowJobOK
<1>3. j.pc \in {"answer", "mark"} => /\ j.learner \in Learners /\ j.copy \in F!Task /\ j.copy.status = "sent"
                                     /\ <<j.copy.token, j.learner>> \in pointers'
  BY DEF FollowJobOK, FollowGrows
<1>4. j.pc \in {"mail", "record", "link"} => \A l \in j.todo \cup j.again : l \in Learners /\ tasks'[l] # None
  BY DEF FollowJobOK, FollowGrows
<1>5. j.pc \in {"record", "link"} =>
          j.learner \in Learners /\ tasks'[j.learner] # None /\ <<j.token, j.learner>> \in mails'
  BY DEF FollowJobOK, FollowGrows
<1>6. j.pc = "mark" => answers'[j.learner] > 0
  BY <1>3 DEF FollowJobOK, FollowGrows
<1>7. j.pc \in {"bare", "closing", "closed", "plan"} => j.todo \subseteq enrolled'
  BY DEF FollowJobOK, FollowGrows
<1>8. /\ j.pc = "bare" => F!Files(j.todo) = {}
      /\ j.pc = "closing" => closed' \/ j.files = F!Files(j.todo)
      /\ j.pc = "closing" => j.files \subseteq {FileOf[l] : l \in Learners}
      /\ j.pc \in {"closed", "plan"} => closed'
      /\ j.pc = "enroll" => j.learner \in Learners
      /\ j.pc = "link" => FileOf[j.learner] = None
      /\ DOMAIN j = FollowSlots
  BY DEF FollowJobOK, FollowGrows
<1> QED BY <1>1, <1>2, <1>3, <1>4, <1>5, <1>6, <1>7, <1>8 DEF FollowJobOK

LEMMA FollowKept ==
    ASSUME BasicInv, FollowOK
    PROVE  BasicInv'
<1>1. FollowTypes /\ FollowTypes' /\ FollowGrows
  BY DEF BasicInv, FollowOK
<1>2. FollowJobsInv'
  <2>1. DOMAIN work' = Desks
    BY DEF BasicInv, FollowJobsInv, FollowOK, FollowMoves, F!Goto
  <2>2. ASSUME NEW g \in Desks, NEW k, k = work'[g] PROVE FollowJobOK(k)'
    <3>1. CASE work' = work
      <4>1. FollowJobOK(k)
        BY <2>2, <3>1 DEF BasicInv, FollowJobsInv
      <4> QED BY <1>1, <4>1, FollowJobGrows
    <3>2. ASSUME NEW h \in Desks, NEW j, F!Goto(h, j), FollowJobOK(j) \/ FollowJobOK(j)' PROVE FollowJobOK(k)'
      <4>1. k = IF g = h THEN j ELSE work[g]
        BY <2>2, <3>2 DEF BasicInv, FollowJobsInv, F!Goto
      <4>2. FollowJobOK(k) \/ FollowJobOK(k)'
        <5>1. CASE g = h
          BY <3>2, <4>1, <5>1
        <5>2. CASE g # h
          BY <4>1, <5>2 DEF BasicInv, FollowJobsInv
        <5> QED BY <5>1, <5>2
      <4> QED BY <1>1, <4>2, FollowJobGrows
    <3> QED BY <3>1, <3>2 DEF FollowOK, FollowMoves
  <2> QED BY <2>1, <2>2 DEF FollowJobsInv, FollowJobOK, ClosingRecorded
<1>3. TasksInv'
  <2>1. ASSUME NEW l \in Learners, NEW t, t = tasks'[l], t # None PROVE TaskOK(l, t)'
    <3>1. TaskOK(l, t) \/ TaskOK(l, t)'
      <4>1. CASE tasks'[l] = tasks[l]
        <5>1. TaskOK(l, t)
          BY <2>1, <4>1 DEF BasicInv, TasksInv
        <5> QED BY <5>1
      <4>2. ASSUME NEW v, tasks'[l] = v, TaskOK(l, v) \/ TaskOK(l, v)' PROVE TaskOK(l, t) \/ TaskOK(l, t)'
        BY <2>1, <4>2
      <4> QED BY <4>1, <4>2 DEF FollowOK, FollowMoves
    <3> QED BY <1>1, <3>1, TaskGrows
  <2> QED BY <2>1 DEF TasksInv, TaskOK, ClosingRecorded, SentRecorded
<1>4. LinksInv'
  <2>1. ASSUME NEW p \in pointers', NEW l, l = p[2] PROVE tasks'[l] # None /\ SentRecorded(l)'
    <3>1. CASE p \in pointers
      <4>1. l \in Learners /\ tasks[l] # None /\ SentRecorded(l)
        BY <1>1, <2>1, <3>1 DEF BasicInv, LinksInv, FollowTypes
      <4> QED BY <1>1, <4>1, RecordedGrows DEF FollowGrows
    <3>2. CASE p \notin pointers
      BY <2>1, <3>2 DEF FollowOK, FollowMoves
    <3> QED BY <3>1, <3>2
  <2> QED BY <2>1 DEF LinksInv, SentRecorded
<1>5. AnswersInv'
  BY <1>1, RecordedGrows DEF BasicInv, AnswersInv, FollowOK, FollowMoves, FollowGrows
<1> QED BY <1>1, <1>2, <1>3, <1>4, <1>5 DEF BasicInv

\* A handler that only reads; nothing at all.
LEMMA FollowLooks ==
    ASSUME BasicInv, UNCHANGED F!state, NEW h \in Desks, NEW j, F!Goto(h, j), FollowJobOK(j)
    PROVE  FollowOK
<1>1. UNCHANGED <<today, due, closed, enrolled, surveyed, tasks, pointers, mails, drawn, answers, journal>>
  BY DEF F!state, F!Goto
<1>2. FollowTypes'
  BY <1>1 DEF BasicInv, FollowTypes
<1>3. FollowGrows
  BY <1>1 DEF BasicInv, FollowTypes, FollowGrows
<1>4. FollowMoves
  BY <1>1 DEF FollowMoves
<1> QED BY <1>2, <1>3, <1>4 DEF FollowOK

LEMMA FollowIdleOK == FollowJobOK(F!Idle)
BY DEF FollowJobOK, FollowSlots, F!Idle

LEMMA FollowInit ==
    ASSUME F!FollowUpConstants, F!Init PROVE BasicInv
<1>1. FollowTypes
  <2>1. 1 \in DOMAIN Calendar
    BY DEF F!FollowUpConstants
  <2>2. answers \in [Learners -> Nat] /\ DOMAIN tasks = Learners
    BY DEF F!Init
  <2>3. journal = << >> /\ journal \in Seq(FollowEvents)
    BY DEF F!Init
  <2> QED BY <2>1, <2>2, <2>3 DEF F!Init, FollowTypes
<1>2. TasksInv /\ LinksInv
  BY DEF F!Init, TasksInv, LinksInv
<1>3. AnswersInv
  BY DEF F!Init, AnswersInv
<1>4. FollowJobsInv
  BY FollowIdleOK DEF F!Init, FollowJobsInv
<1> QED BY <1>1, <1>2, <1>3, <1>4 DEF BasicInv

-----------------------------------------------------------------------------
(* FollowUp: enrolment and closing *)

LEMMA JournalGrows ==
    ASSUME FollowTypes, NEW e \in FollowEvents, journal' = Append(journal, e)
    PROVE  /\ journal' \in Seq(FollowEvents) /\ Len(journal) \in Nat
           /\ DOMAIN journal = 1 .. Len(journal) /\ DOMAIN journal' = DOMAIN journal \cup {Len(journal) + 1}
           /\ \A k \in DOMAIN journal : journal'[k] = journal[k]
           /\ journal'[Len(journal) + 1] = e
<1>1. journal \in Seq(FollowEvents)
  BY DEF FollowTypes
<1>2. journal' \in Seq(FollowEvents) /\ Len(journal') = Len(journal) + 1 /\ Len(journal) \in Nat
  BY <1>1
<1>3. DOMAIN journal = 1 .. Len(journal) /\ DOMAIN journal' = 1 .. Len(journal) + 1
  BY <1>1, <1>2
<1>4. \A k \in DOMAIN journal : journal'[k] = journal[k]
  BY <1>1
<1>5. journal'[Len(journal) + 1] = e
  BY <1>1
<1> QED BY <1>2, <1>3, <1>4, <1>5

LEMMA EnrolSteps ==
    ASSUME BasicInv, NEW h \in Desks, (\E l \in Learners : F!ReadEnroll(h, l)) \/ F!WriteEnroll(h)
    PROVE  FollowOK
<1>1. ASSUME NEW l \in Learners, F!ReadEnroll(h, l) PROVE FollowOK
  <2>1. FollowJobOK([F!Idle EXCEPT !.pc = "enroll", !.learner = l])
    BY DEF FollowJobOK, FollowSlots, F!Idle
  <2> QED BY <1>1, <2>1, FollowLooks DEF F!ReadEnroll
<1>2. CASE F!WriteEnroll(h)
  <2>1. FollowJobOK(work[h])
    BY DEF BasicInv, FollowJobsInv
  <2>2. enrolled' \subseteq Learners /\ enrolled \subseteq enrolled'
    BY <1>2, <2>1 DEF F!WriteEnroll, FollowJobOK, BasicInv, FollowTypes
  <2>3. /\ UNCHANGED <<today, due, closed, surveyed, tasks, pointers, mails, drawn, answers, journal>>
        /\ F!Goto(h, F!Idle)
    BY <1>2 DEF F!WriteEnroll, F!Goto
  <2>4. FollowTypes' /\ FollowGrows
    BY <2>2, <2>3 DEF BasicInv, FollowTypes, FollowGrows
  <2>5. FollowMoves
    BY <2>3, FollowIdleOK DEF FollowMoves
  <2> QED BY <2>4, <2>5 DEF FollowOK
<1> QED BY <1>1, <1>2

LEMMA ClosingSteps ==
    ASSUME F!FollowUpConstants, BasicInv, NEW h \in Desks,
           F!ReadClose(h) \/ F!CloseBare(h) \/ F!CloseFile(h) \/ F!LookForSurvey(h)
    PROVE  FollowOK
<1>1. FollowJobOK(work[h]) /\ FollowTypes
  BY DEF BasicInv, FollowJobsInv
<1>2. CASE F!ReadClose(h)
  <2>1. PICK files : files = F!Files(enrolled)
    OBVIOUS
  <2>2. files \subseteq {FileOf[l] : l \in Learners} /\ \A l \in enrolled : FileOf[l] \in files \/ ClosingRecorded(l)
    BY <1>1, <2>1 DEF F!Files, ClosingRecorded, FollowTypes
  <2>3. PICK pc \in {"bare", "closing"} :
            /\ pc = "bare" => files = {}
            /\ F!Goto(h, [F!Idle EXCEPT !.pc = pc, !.todo = enrolled, !.files = files])
    BY <1>2, <2>1 DEF F!ReadClose
  <2>4. PICK j : j = [F!Idle EXCEPT !.pc = pc, !.todo = enrolled, !.files = files]
    OBVIOUS
  <2>5. DOMAIN j = FollowSlots /\ j.pc = pc /\ j.todo = enrolled /\ j.files = files
    BY <2>4 DEF FollowSlots, F!Idle
  <2>6. FollowJobOK(j)
    BY <2>1, <2>2, <2>3, <2>5 DEF FollowJobOK
  <2> QED BY <1>2, <2>3, <2>4, <2>6, FollowLooks DEF F!ReadClose
<1>3. CASE F!CloseBare(h)
  <2>1. \A l \in work[h].todo : ClosingRecorded(l)
    BY <1>1, <1>3 DEF F!CloseBare, FollowJobOK, F!Files, ClosingRecorded
  <2>2. PICK j : j = [work[h] EXCEPT !.pc = "closed"]
    OBVIOUS
  <2>3. DOMAIN j = FollowSlots /\ j.pc = "closed" /\ j.todo = work[h].todo /\ j.todo \subseteq enrolled
    BY <1>1, <1>3, <2>2 DEF FollowJobOK, FollowSlots, F!CloseBare
  <2>4. FollowGrows /\ FollowTypes'
    BY <1>1, <1>3 DEF F!CloseBare, F!Goto, FollowTypes, FollowGrows
  <2>5. FollowJobOK(j)'
    BY <1>3, <2>1, <2>3, <2>4, RecordedGrows DEF F!CloseBare, FollowJobOK
  <2> QED BY <1>3, <2>2, <2>4, <2>5 DEF F!CloseBare, FollowOK, FollowMoves
<1>4. CASE F!CloseFile(h)
  <2>1. PICK file \in work[h].files :
            /\ closed' = (closed \/ work[h].files = F!Files(work[h].todo))
            /\ journal' = Append(journal, F!Event("closed", file, None))
            /\ F!Goto(h, [work[h] EXCEPT !.files = @ \ {file},
                                         !.pc = IF work[h].files = {file} THEN "closed" ELSE "closing"])
    BY <1>4 DEF F!CloseFile
  <2>2. /\ work[h].pc = "closing" /\ work[h].files \subseteq {FileOf[l] : l \in Learners}
        /\ UNCHANGED <<enrolled, surveyed, tasks, pointers, mails, drawn, answers>>
    BY <1>1, <1>4 DEF F!CloseFile, FollowJobOK
  <2>3. PICK e \in FollowEvents : e = F!Event("closed", file, None)
    BY <2>1, <2>2 DEF FollowEvents, F!Event
  <2>4. /\ journal' \in Seq(FollowEvents) /\ DOMAIN journal \subseteq DOMAIN journal'
        /\ \A k \in DOMAIN journal : journal'[k] = journal[k]
        /\ \E k \in DOMAIN journal' : journal'[k] = F!Event("closed", file, None)
    BY <1>1, <2>1, <2>3, JournalGrows
  <2>5. closed'
    BY <1>1, <2>1, <2>2 DEF FollowJobOK
  <2>6. FollowTypes' /\ FollowGrows
    BY <1>1, <2>1, <2>2, <2>4, <2>5 DEF FollowTypes, FollowGrows, F!Goto
  <2>7. PICK j : j = [work[h] EXCEPT !.files = @ \ {file},
                                     !.pc = IF work[h].files = {file} THEN "closed" ELSE "closing"]
    OBVIOUS
  <2>8. /\ DOMAIN j = FollowSlots /\ j.todo = work[h].todo /\ j.files = work[h].files \ {file}
        /\ j.pc = IF work[h].files = {file} THEN "closed" ELSE "closing"
    BY <1>1, <2>7 DEF FollowJobOK, FollowSlots
  <2>9. \A l \in j.todo : FileOf[l] \in j.files \/ ClosingRecorded(l)'
    <3>1. ASSUME NEW l \in j.todo PROVE FileOf[l] \in j.files \/ ClosingRecorded(l)'
      <4>1. FileOf[l] \in work[h].files \/ ClosingRecorded(l)
        BY <1>1, <2>2, <2>8, <3>1 DEF FollowJobOK
      <4>2. FileOf[l] = file => ClosingRecorded(l)'
        BY <2>4 DEF ClosingRecorded
      <4> QED BY <2>6, <2>8, <4>1, <4>2, RecordedGrows
    <3> QED BY <3>1
  <2>10. FollowJobOK(j)'
    <3>1. j.todo \subseteq enrolled' /\ j.files \subseteq {FileOf[l] : l \in Learners}
      BY <1>1, <2>2, <2>8 DEF FollowJobOK
    <3>2. j.pc = "closed" => j.files = {}
      BY <2>8
    <3> QED BY <2>5, <2>8, <2>9, <3>1, <3>2 DEF FollowJobOK
  <2> QED BY <2>1, <2>2, <2>6, <2>7, <2>10 DEF FollowOK, FollowMoves
<1>5. CASE F!LookForSurvey(h)
  <2>1. FollowJobOK([work[h] EXCEPT !.pc = "plan"])
    BY <1>1, <1>5 DEF FollowJobOK, FollowSlots, F!LookForSurvey
  <2>2. F!Goto(h, F!Idle) \/ F!Goto(h, [work[h] EXCEPT !.pc = "plan"])
    BY <1>5 DEF F!LookForSurvey
  <2> QED BY <1>5, <2>1, <2>2, FollowIdleOK, FollowLooks DEF F!LookForSurvey
<1> QED BY <1>2, <1>3, <1>4, <1>5

LEMMA ScheduleStep ==
    ASSUME F!FollowUpConstants, BasicInv, NEW h \in Desks, F!Schedule(h)
    PROVE  FollowOK
<1>1. FollowJobOK(work[h]) /\ FollowTypes /\ work[h].pc = "plan"
  BY DEF BasicInv, FollowJobsInv, F!Schedule
<1>2. PICK l \in work[h].todo :
          /\ tasks' = IF l \in Reachable /\ tasks[l] = None THEN [tasks EXCEPT ![l] = F!Planned] ELSE tasks
          /\ F!Goto(h, IF work[h].todo = {l} THEN F!Idle ELSE [work[h] EXCEPT !.todo = @ \ {l}])
  BY DEF F!Schedule
<1>3. l \in enrolled /\ l \in Learners /\ closed /\ ClosingRecorded(l)
  BY <1>1 DEF FollowJobOK, FollowTypes
<1>4. F!Planned \in F!Task /\ F!Planned.status = "planned" /\ F!Planned.token = None
  BY DEF F!Planned, F!Task, F!Statuses
<1>5. F!Planned # None
  BY <1>4 DEF F!FollowUpConstants
<1>6. l \in Reachable => TaskOK(l, F!Planned)
  BY <1>3, <1>4 DEF TaskOK
<1>7. DOMAIN tasks' = Learners
      /\ \A x \in Learners : tasks'[x] = tasks[x] \/ (x = l /\ l \in Reachable /\ tasks'[x] = F!Planned /\ tasks[x] = None)
  BY <1>1, <1>2 DEF FollowTypes
<1>8. UNCHANGED <<today, due, closed, enrolled, surveyed, pointers, mails, drawn, answers, journal>>
  BY DEF F!Schedule, F!Goto
<1>9. FollowTypes' /\ FollowGrows
  BY <1>1, <1>5, <1>7, <1>8 DEF FollowTypes, FollowGrows
<1>10. FollowJobOK([work[h] EXCEPT !.todo = @ \ {l}])
  BY <1>1 DEF FollowJobOK, FollowSlots
<1>11. \E j : F!Goto(h, j) /\ FollowJobOK(j)
  BY <1>2, <1>10, FollowIdleOK
<1> QED BY <1>6, <1>7, <1>8, <1>9, <1>11 DEF FollowOK, FollowMoves

-----------------------------------------------------------------------------
(* FollowUp: the daily run and the link *)

\* A run whose two lists hold tasks.
LEMMA ListingOK ==
    ASSUME NEW j, DOMAIN j = FollowSlots, NEW first, NEW second,
           \A l \in first \cup second : l \in Learners /\ tasks[l] # None
    PROVE  /\ FollowJobOK(F!Listing(j, first, second))
           /\ F!Listing(j, first, second).pc \in {"mail", "idle"}
<1>1. ASSUME NEW a, NEW b, \A l \in a \cup b : l \in Learners /\ tasks[l] # None,
             NEW k, k = [j EXCEPT !.pc = "mail", !.learner = None, !.todo = a, !.again = b]
      PROVE  FollowJobOK(k) /\ k.pc = "mail"
  <2>1. DOMAIN k = FollowSlots /\ k.pc = "mail" /\ k.todo = a /\ k.again = b
    BY <1>1 DEF FollowSlots
  <2> QED BY <1>1, <2>1 DEF FollowJobOK
<1>2. F!Idle.pc = "idle"
  BY DEF F!Idle
<1>3. CASE first # {}
  BY <1>1, <1>3 DEF F!Listing
<1>4. CASE first = {} /\ second # {}
  BY <1>1, <1>4 DEF F!Listing
<1>5. CASE first = {} /\ second = {}
  BY <1>2, <1>5, FollowIdleOK DEF F!Listing
<1> QED BY <1>3, <1>4, <1>5

\* On to the next task of a run, whatever was done.
LEMMA NextTaskOK ==
    ASSUME BasicInv, NEW h \in Desks, NEW l, work[h].pc \in {"mail", "record", "link"}
    PROVE  FollowJobOK(F!NextTask(h, l))
<1>1. FollowJobOK(work[h])
  BY DEF BasicInv, FollowJobsInv
<1>2. DOMAIN work[h] = FollowSlots
      /\ \A x \in (work[h].todo \ {l}) \cup work[h].again : x \in Learners /\ tasks[x] # None
  BY <1>1 DEF FollowJobOK
<1> QED BY <1>2, ListingOK DEF F!NextTask

LEMMA MailSteps ==
    ASSUME BasicInv, NEW h \in Desks, NEW l \in Learners, F!Mail(h, l) \/ F!MailFails(h, l)
    PROVE  FollowOK
<1>1. FollowJobOK(work[h]) /\ FollowTypes
  BY DEF BasicInv, FollowJobsInv
<1>2. /\ work[h].pc = "mail" /\ l \in work[h].todo /\ drawn' = drawn + 1
      /\ mails \subseteq mails' /\ mails' \subseteq mails \cup {<<drawn + 1, l>>}
      /\ UNCHANGED <<today, due, closed, enrolled, surveyed, tasks, pointers, answers, journal>>
  BY DEF F!Mail, F!MailFails, F!Goto
<1>3. FollowTypes' /\ FollowGrows
  <2>1. mails' \subseteq (1 .. drawn') \X Learners
    BY <1>1, <1>2 DEF FollowTypes
  <2> QED BY <1>1, <1>2, <2>1 DEF FollowTypes, FollowGrows
<1>4. CASE F!Mail(h, l)
  <2>1. PICK j : j = [work[h] EXCEPT !.pc = "record", !.learner = l, !.token = drawn + 1]
    OBVIOUS
  <2>2. DOMAIN j = FollowSlots /\ j.pc = "record" /\ j.learner = l /\ j.token = drawn + 1
        /\ j.todo = work[h].todo /\ j.again = work[h].again
    BY <1>1, <2>1 DEF FollowJobOK, FollowSlots
  <2>3. <<j.token, l>> \in mails'
    BY <1>4, <2>2 DEF F!Mail
  <2>4. \A x \in j.todo \cup j.again : x \in Learners /\ tasks[x] # None
    BY <1>1, <1>2, <2>2 DEF FollowJobOK
  <2>5. FollowJobOK(j)'
    BY <1>2, <2>2, <2>3, <2>4 DEF FollowJobOK
  <2> QED BY <1>2, <1>3, <1>4, <2>1, <2>5 DEF F!Mail, FollowOK, FollowMoves
<1>5. CASE F!MailFails(h, l)
  BY <1>2, <1>3, <1>5, NextTaskOK DEF F!MailFails, FollowOK, FollowMoves
<1> QED BY <1>4, <1>5

\* The task of a learner is put as sent.
LEMMA SentFits ==
    ASSUME F!FollowUpConstants, BasicInv, NEW h \in Desks, work[h].pc = "record"
    PROVE  /\ work[h].learner \in Learners
           /\ F!Sent(h) \in F!Task /\ F!Sent(h) # None /\ F!Sent(h).status = "sent"
           /\ F!Sent(h).token = work[h].token
           /\ work[h].token \in 1 .. drawn /\ <<work[h].token, work[h].learner>> \in mails
           /\ TaskOK(work[h].learner, tasks[work[h].learner])
<1>1. FollowJobOK(work[h]) /\ FollowTypes
  BY DEF BasicInv, FollowJobsInv
<1>2. work[h].learner \in Learners /\ <<work[h].token, work[h].learner>> \in mails /\ tasks[work[h].learner] # None
  BY <1>1 DEF FollowJobOK
<1>3. work[h].token \in 1 .. drawn /\ drawn \in Nat
  BY <1>1, <1>2 DEF FollowTypes
<1>4. F!Sent(h) \in F!Task /\ F!Sent(h).status = "sent" /\ F!Sent(h).token = work[h].token
  BY <1>3 DEF F!Sent, F!Task, F!Statuses
<1>5. F!Sent(h) # None
  BY <1>4 DEF F!FollowUpConstants
<1>6. TaskOK(work[h].learner, tasks[work[h].learner])
  BY <1>2 DEF BasicInv, TasksInv
<1> QED BY <1>2, <1>3, <1>4, <1>5, <1>6

LEMMA RecordSteps ==
    ASSUME F!FollowUpConstants, BasicInv, NEW h \in Desks, F!RecordFiled(h) \/ F!RecordBare(h)
    PROVE  FollowOK
<1>1. FollowJobOK(work[h]) /\ FollowTypes /\ work[h].pc = "record"
  BY DEF BasicInv, FollowJobsInv, F!RecordFiled, F!RecordBare
<1>2. PICK l \in Learners : l = work[h].learner
  BY <1>1, SentFits
<1>3. PICK t \in F!Task : /\ t = F!Sent(h) /\ t # None /\ t.status = "sent" /\ t.token \in 1 .. drawn
                         /\ t.token = work[h].token /\ <<t.token, l>> \in mails
  BY <1>1, <1>2, SentFits
<1>4. /\ tasks' = [tasks EXCEPT ![l] = t]
      /\ UNCHANGED <<today, due, closed, enrolled, surveyed, mails, drawn, answers>>
  BY <1>2, <1>3 DEF F!RecordFiled, F!RecordBare, F!Goto
<1>5. DOMAIN tasks' = Learners /\ tasks'[l] = t /\ \A x \in Learners : x # l => tasks'[x] = tasks[x]
  BY <1>1, <1>4 DEF FollowTypes
<1>6. /\ l \in enrolled /\ l \in Reachable /\ closed /\ ClosingRecorded(l) /\ None \notin Nat
  BY <1>1, <1>2, SentFits DEF TaskOK, F!FollowUpConstants
<1>7. CASE F!RecordFiled(h)
  <2>1. PICK e \in FollowEvents : /\ e = F!Event("sent", FileOf[l], l)
                                 /\ e.what = "sent" /\ e.learner = l
    <3>1. F!Event("sent", FileOf[l], l) \in FollowEvents
      BY DEF F!Event, FollowEvents
    <3> QED BY <3>1 DEF F!Event
  <2>2. pointers' = pointers \cup {<<t.token, l>>} /\ journal' = Append(journal, e)
        /\ F!Goto(h, F!NextTask(h, l))
    BY <1>2, <1>3, <1>7, <2>1 DEF F!RecordFiled
  <2>3. /\ journal' \in Seq(FollowEvents) /\ DOMAIN journal \subseteq DOMAIN journal'
        /\ \A k \in DOMAIN journal : journal'[k] = journal[k]
        /\ \E k \in DOMAIN journal' : journal'[k] = e
    BY <1>1, <2>2, JournalGrows
  <2>4. FollowTypes' /\ FollowGrows
    <3>1. pointers' \subseteq mails' /\ pointers \subseteq pointers'
      BY <1>1, <1>3, <1>4, <2>2 DEF FollowTypes
    <3>2. FollowTypes'
      BY <1>1, <1>4, <1>5, <2>3, <3>1 DEF FollowTypes
    <3>3. FollowGrows
      BY <1>1, <1>3, <1>4, <1>5, <2>3, <3>1 DEF FollowTypes, FollowGrows
    <3> QED BY <3>2, <3>3
  <2>5. SentRecorded(l)'
    BY <2>1, <2>3 DEF SentRecorded
  <2>6. TaskOK(l, t)'
    BY <1>3, <1>4, <1>6, <2>2, <2>4, <2>5, RecordedGrows DEF TaskOK
  <2>7. \A p \in pointers' : p \in pointers \/ (l = p[2] /\ tasks'[l] # None /\ SentRecorded(l)')
    BY <1>3, <1>5, <2>2, <2>5
  <2>8. FollowMoves
    BY <1>1, <1>4, <1>5, <2>2, <2>6, <2>7, NextTaskOK DEF FollowMoves
  <2> QED BY <2>4, <2>8 DEF FollowOK
<1>8. CASE F!RecordBare(h)
  <2>1. UNCHANGED <<pointers, journal>> /\ FileOf[l] = None /\ F!Goto(h, [work[h] EXCEPT !.pc = "link"])
    BY <1>2, <1>8 DEF F!RecordBare
  <2>2. FollowTypes' /\ FollowGrows
    BY <1>1, <1>3, <1>4, <1>5, <2>1 DEF FollowTypes, FollowGrows
  <2>3. TaskOK(l, t)
    BY <1>3, <1>6, <2>1 DEF TaskOK, SentRecorded
  <2>4. FollowJobOK([work[h] EXCEPT !.pc = "link"])
    BY <1>1, <1>2, <2>1 DEF FollowJobOK, FollowSlots
  <2>5. FollowMoves
    BY <1>4, <1>5, <2>1, <2>3, <2>4 DEF FollowMoves
  <2> QED BY <2>2, <2>5 DEF FollowOK
<1> QED BY <1>7, <1>8

LEMMA RunSteps ==
    ASSUME BasicInv, NEW h \in Desks, F!BeginRun(h) \/ F!RecordLink(h) \/ F!RecordFails(h)
    PROVE  FollowOK
<1>1. FollowJobOK(work[h]) /\ FollowTypes
  BY DEF BasicInv, FollowJobsInv
<1>2. CASE F!BeginRun(h)
  <2>1. PICK q : q = F!Queries(Calendar[today])
    OBVIOUS
  <2>2. \A l \in q[1] \cup q[2] : l \in Learners /\ tasks[l] # None
    BY <2>1 DEF F!Queries, F!DueIn
  <2>3. DOMAIN F!Idle = FollowSlots
    BY DEF FollowSlots, F!Idle
  <2>4. FollowJobOK(F!Listing(F!Idle, q[1], q[2]))
    BY <2>2, <2>3, ListingOK
  <2> QED BY <1>2, <2>1, <2>4, FollowLooks DEF F!BeginRun
<1>3. CASE F!RecordLink(h)
  <2>1. PICK l \in Learners : /\ l = work[h].learner /\ <<work[h].token, l>> \in mails
                             /\ FileOf[l] = None /\ tasks[l] # None
    BY <1>1, <1>3 DEF F!RecordLink, FollowJobOK
  <2>2. /\ pointers' = pointers \cup {<<work[h].token, l>>} /\ F!Goto(h, F!NextTask(h, l))
        /\ UNCHANGED <<today, due, closed, enrolled, surveyed, tasks, mails, drawn, answers, journal>>
    BY <1>3, <2>1 DEF F!RecordLink, F!Goto
  <2>3. FollowTypes' /\ FollowGrows
    <3>1. pointers \subseteq pointers' /\ pointers' \subseteq mails
      BY <1>1, <2>1, <2>2 DEF FollowTypes
    <3>2. FollowTypes'
      BY <1>1, <2>2, <3>1 DEF FollowTypes
    <3>3. drawn' \in Nat /\ drawn <= drawn'
      BY <1>1, <2>2 DEF FollowTypes
    <3>4. FollowGrows
      BY <2>2, <3>1, <3>3 DEF FollowGrows
    <3> QED BY <3>2, <3>4
  <2>4. SentRecorded(l)'
    BY <2>1 DEF SentRecorded
  <2>5. FollowMoves
    BY <1>3, <2>1, <2>2, <2>4, NextTaskOK DEF FollowMoves, F!RecordLink
  <2> QED BY <2>3, <2>5 DEF FollowOK
<1>4. CASE F!RecordFails(h)
  <2>1. work[h].pc \in {"record", "link"} /\ F!Goto(h, F!NextTask(h, work[h].learner)) /\ UNCHANGED F!state
    BY <1>4 DEF F!RecordFails
  <2> QED BY <2>1, NextTaskOK, FollowLooks
<1> QED BY <1>2, <1>3, <1>4

LEMMA SurveySteps ==
    ASSUME F!FollowUpConstants, BasicInv, NEW h \in Desks, F!Survey(h)
    PROVE  FollowOK
<1>1. FollowJobOK(work[h]) /\ FollowTypes
  BY DEF BasicInv, FollowJobsInv
<1>2. ASSUME NEW link \in mails, F!OpenSurvey(h, link[1], link[2]) PROVE FollowOK
  <2>1. PICK l \in Learners, token \in Nat : link[1] = token /\ link[2] = l
    BY <1>1 DEF FollowTypes
  <2>2. <<token, l>> \in pointers /\ tasks[l].token = token /\ tasks[l].status # "answered"
    BY <1>2, <2>1 DEF F!OpenSurvey, F!Resolve
  <2>3. tasks[l] # None
    BY <2>2 DEF BasicInv, LinksInv
  <2>4. TaskOK(l, tasks[l])
    BY <2>3 DEF BasicInv, TasksInv
  <2>5. PICK t \in F!Task : t = tasks[l] /\ t.status = "sent" /\ t.token = token
    <3>1. token # None
      BY DEF F!FollowUpConstants
    <3> QED BY <2>2, <2>4, <3>1 DEF TaskOK, F!Task, F!Statuses
  <2>6. FollowJobOK([F!Idle EXCEPT !.pc = "answer", !.learner = l, !.copy = t])
    BY <2>2, <2>5 DEF FollowJobOK, FollowSlots, F!Idle
  <2> QED BY <1>2, <2>1, <2>5, <2>6, FollowLooks DEF F!OpenSurvey
<1>3. CASE F!Submit(h)
  <2>1. PICK l \in Learners : l = work[h].learner /\ <<work[h].copy.token, l>> \in pointers /\ work[h].pc = "answer"
    BY <1>1, <1>3 DEF F!Submit, FollowJobOK
  <2>2. /\ answers' = [answers EXCEPT ![l] = @ + 1]
        /\ UNCHANGED <<today, due, closed, enrolled, surveyed, tasks, pointers, mails, drawn, journal>>
        /\ F!Goto(h, [work[h] EXCEPT !.pc = "mark"])
    BY <1>3, <2>1 DEF F!Submit, F!Goto
  <2>3. answers' \in [Learners -> Nat] /\ answers'[l] > 0 /\ \A x \in Learners : x # l => answers'[x] = answers[x]
    BY <1>1, <2>2 DEF FollowTypes
  <2>4. FollowTypes' /\ FollowGrows
    BY <1>1, <2>2, <2>3 DEF FollowTypes, FollowGrows
  <2>5. Mailed(l)
    BY <1>1, <2>1 DEF Mailed, FollowTypes
  <2>6. PICK j : j = [work[h] EXCEPT !.pc = "mark"]
    OBVIOUS
  <2>7. DOMAIN j = FollowSlots /\ j.pc = "mark" /\ j.learner = l /\ j.copy = work[h].copy
    BY <1>1, <2>1, <2>6 DEF FollowJobOK, FollowSlots
  <2>8. FollowJobOK(j)'
    BY <1>1, <2>1, <2>2, <2>3, <2>7 DEF FollowJobOK
  <2>9. FollowMoves
    BY <2>2, <2>3, <2>5, <2>6, <2>8 DEF FollowMoves
  <2> QED BY <2>4, <2>9 DEF FollowOK
<1>4. CASE F!Answered(h)
  <2>1. PICK l \in Learners, c \in F!Task :
            /\ l = work[h].learner /\ c = work[h].copy /\ c.status = "sent"
            /\ <<c.token, l>> \in pointers /\ answers[l] > 0
    BY <1>1, <1>4 DEF F!Answered, FollowJobOK
  <2>2. PICK t : t = [c EXCEPT !.status = "answered"]
    OBVIOUS
  <2>3. t \in F!Task /\ t.status = "answered" /\ t.token = c.token
    BY <2>1, <2>2 DEF F!Task, F!Statuses
  <2>4. t # None
    BY <2>3 DEF F!FollowUpConstants
  <2>5. /\ tasks' = [tasks EXCEPT ![l] = t] /\ F!Goto(h, F!Idle)
        /\ UNCHANGED <<today, due, closed, enrolled, surveyed, pointers, mails, drawn, answers, journal>>
    BY <1>4, <2>1, <2>2 DEF F!Answered, F!Goto
  <2>6. DOMAIN tasks' = Learners /\ tasks'[l] = t /\ \A x \in Learners : x # l => tasks'[x] = tasks[x]
    BY <1>1, <2>5 DEF FollowTypes
  <2>7. TaskOK(l, t)
    <3>1. tasks[l] # None /\ SentRecorded(l)
      BY <2>1 DEF BasicInv, LinksInv
    <3>2. /\ closed /\ l \in enrolled /\ l \in Reachable /\ ClosingRecorded(l)
      BY <3>1 DEF BasicInv, TasksInv, TaskOK
    <3>3. t.token \in 1 .. drawn /\ t.token # None /\ <<t.token, l>> \in mails
      BY <1>1, <2>1, <2>3 DEF FollowTypes, F!FollowUpConstants
    <3> QED BY <2>1, <2>3, <3>1, <3>2, <3>3 DEF TaskOK
  <2>8. FollowTypes' /\ FollowGrows
    BY <1>1, <2>4, <2>5, <2>6 DEF FollowTypes, FollowGrows
  <2>9. FollowMoves
    BY <2>5, <2>6, <2>7, FollowIdleOK DEF FollowMoves
  <2> QED BY <2>8, <2>9 DEF FollowOK
<1> QED BY <1>2, <1>3, <1>4 DEF F!Survey

LEMMA OtherFollowSteps ==
    ASSUME F!FollowUpConstants, BasicInv,
           (\E h \in Desks : F!GiveUp(h)) \/ F!Publish \/ F!Tomorrow \/ UNCHANGED F!vars
    PROVE  FollowOK
<1>1. ASSUME NEW h \in Desks, F!GiveUp(h) PROVE FollowOK
  BY <1>1, FollowIdleOK, FollowLooks DEF F!GiveUp
<1>2. CASE F!Publish \/ F!Tomorrow \/ UNCHANGED F!vars
  <2>1. /\ UNCHANGED <<due, closed, enrolled, tasks, pointers, mails, drawn, answers, journal, work>>
        /\ surveyed' = surveyed \/ surveyed' = TRUE
        /\ today' = today \/ (today < Len(Calendar) /\ today' = today + 1)
    BY <1>2 DEF F!Publish, F!Tomorrow, F!vars, F!state
  <2>2. today' \in DOMAIN Calendar
    <3>1. DOMAIN Calendar = 1 .. Len(Calendar) /\ Len(Calendar) \in Nat
      BY DEF F!FollowUpConstants
    <3> QED BY <2>1, <3>1 DEF BasicInv, FollowTypes
  <2>3. surveyed' \in BOOLEAN
    BY <2>1 DEF BasicInv, FollowTypes
  <2>4. FollowTypes'
    BY <2>1, <2>2, <2>3 DEF BasicInv, FollowTypes
  <2>5. FollowGrows
    BY <2>1 DEF BasicInv, FollowTypes, FollowGrows
  <2>6. FollowMoves
    BY <2>1 DEF FollowMoves
  <2> QED BY <2>4, <2>5, <2>6 DEF FollowOK
<1> QED BY <1>1, <1>2

LEMMA FollowStep ==
    ASSUME F!FollowUpConstants, BasicInv, [F!Next]_F!vars
    PROVE  FollowOK
<1>1. ASSUME NEW h \in Desks, F!Close(h) PROVE FollowOK
  BY <1>1, ClosingSteps, ScheduleStep DEF F!Close
<1>2. ASSUME NEW h \in Desks, F!Run(h) PROVE FollowOK
  BY <1>2, MailSteps, RecordSteps, RunSteps DEF F!Run
<1> QED BY <1>1, <1>2, EnrolSteps, SurveySteps, OtherFollowSteps DEF F!Next

LEMMA FollowAlways == ASSUME F!FollowUpConstants PROVE F!Spec => []BasicInv
<1>1. F!Init => BasicInv
  BY FollowInit
<1>2. BasicInv /\ [F!Next]_F!vars => BasicInv'
  BY FollowStep, FollowKept
<1> QED BY <1>1, <1>2, PTL DEF F!Spec

\* No survey is planned before the closing is in the journal of every file it knew.
THEOREM TasksAlwaysFollowClosure == ASSUME F!FollowUpConstants PROVE F!Spec => []TasksFollowClosure
<1>1. BasicInv => TasksFollowClosure
  BY DEF BasicInv, TasksInv, TaskOK, ClosingRecorded, TasksFollowClosure, F!TasksFollowClosure
<1> QED BY <1>1, FollowAlways, PTL

\* A survey that is due and was not sent is among those of today's run for a month.
THEOREM DueAlwaysCatchesUp == ASSUME F!FollowUpConstants PROVE F!Spec => []DueCatchesUp
<1>1. ASSUME BasicInv PROVE DueCatchesUp
  <2>0. \A k \in DOMAIN Calendar : Calendar[k] \in F!Date
    <3>1. Calendar \in Seq(F!Date)
      BY DEF F!FollowUpConstants
    <3> QED BY <3>1
  <2>1. PICK at \in F!Date : at = Calendar[today]
    BY <1>1, <2>0 DEF BasicInv, FollowTypes
  <2>2. due \in {Calendar[k] : k \in DOMAIN Calendar}
    BY <1>1 DEF BasicInv, FollowTypes, F!FollowUpConstants
  <2>3. PICK k \in DOMAIN Calendar : due = Calendar[k]
    BY <2>2
  <2>4. due \in F!Date
    BY <2>0, <2>3
  <2>5. PICK dm \in Nat, am \in Nat, ad \in Nat : dm = due.month /\ am = at.month /\ ad = at.day
    BY <2>1, <2>4 DEF F!Date
  <2>6. ASSUME F!Before(due, at), am <= dm + 1, am = dm \/ ad <= MonthLength[dm]
        PROVE  due.month \in {at.month, F!PreviousMonth(at)}
    <3>1. dm <= am
      BY <2>5, <2>6 DEF F!Before
    <3>2. CASE am = dm
      BY <2>5, <3>2
    <3>3. CASE am # dm
      <4>0. am - 1 = dm /\ ad <= MonthLength[dm]
        BY <2>6, <3>1, <3>3
      <4>1. MonthLength[dm] \in Nat /\ am - 1 = dm /\ ad <= MonthLength[dm]
        BY <2>3, <2>5, <4>0 DEF F!FollowUpConstants
      <4>2. ~ (at.day > MonthLength[at.month - 1])
        BY <2>5, <4>1
      <4> QED BY <2>5, <4>1, <4>2 DEF F!PreviousMonth
    <3> QED BY <3>2, <3>3
  <2> QED BY <2>1, <2>5, <2>6 DEF DueCatchesUp, F!DueCatchesUp, F!Due, F!Queries, F!DueIn
<1> QED BY <1>1, FollowAlways, PTL

-----------------------------------------------------------------------------
(* FollowUp: tokens are fresh, mails are counted *)

\* Token t is that of a task, as it is or as a handler read it.
Kept(t) == \/ \E l \in Learners : tasks[l] # None /\ tasks[l].token = t
           \/ \E g \in Desks : work[g].pc \in {"answer", "mark"} /\ work[g].copy.token = t

\* Nobody else has the token of a mail that is not recorded yet.
FreshInv ==
    \A h \in Desks : work[h].pc = "record" =>
        /\ ~ Kept(work[h].token)
        /\ \A g \in Desks : (work[g].pc = "record" /\ work[g].token = work[h].token) => g = h

SentEvents(l) == {k \in DOMAIN journal : journal[k].what = "sent" /\ journal[k].learner = l}
Recording(l) == {h \in Desks : work[h].pc = "record" /\ work[h].learner = l}
MailsTo(l) == {m \in mails : m[2] = l}

\* A mail was delivered for every event, and for every run about to record one.
CountInv ==
    /\ IsFiniteSet(mails)
    /\ \A l \in Learners :
          /\ IsFiniteSet(Recording(l))
          /\ Cardinality(SentEvents(l)) + Cardinality(Recording(l)) <= Cardinality(MailsTo(l))

\* A step that neither sends a mail to be recorded nor records one.
Quiet ==
    /\ journal' = journal \/ \E e \in FollowEvents : e.what = "closed" /\ journal' = Append(journal, e)
    /\ mails' = mails \/ \E m : mails' = mails \cup {m}
    /\ \/ work' = work
       \/ \E h \in Desks : \E j : /\ F!Goto(h, j) /\ j.pc # "record"
                                  /\ j.pc \in {"answer", "mark"} => Kept(j.copy.token)
    /\ \A l \in Learners : tasks'[l] # None => tasks'[l].token = None \/ Kept(tasks'[l].token)

LEMMA QuietNextTask ==
    ASSUME BasicInv, NEW h \in Desks, NEW l, work[h].pc \in {"mail", "record", "link"}
    PROVE  F!NextTask(h, l).pc \notin {"record", "answer", "mark"}
<1>1. FollowJobOK(work[h])
  BY DEF BasicInv, FollowJobsInv
<1>2. DOMAIN work[h] = FollowSlots
      /\ \A x \in (work[h].todo \ {l}) \cup work[h].again : x \in Learners /\ tasks[x] # None
  BY <1>1 DEF FollowJobOK
<1> QED BY <1>2, ListingOK DEF F!NextTask

LEMMA TasksStay == ASSUME tasks' = tasks PROVE \A l \in Learners : tasks'[l] # None => tasks'[l].token = None \/ Kept(tasks'[l].token)
BY DEF Kept

LEMMA QuietSteps ==
    ASSUME F!FollowUpConstants, BasicInv, [F!Next]_F!vars
    PROVE  \/ Quiet
           \/ \E h \in Desks : \/ F!RecordFiled(h) \/ F!RecordBare(h)
                               \/ \E l \in Learners : F!Mail(h, l)
<1>0. \A h \in Desks : DOMAIN work[h] = FollowSlots
  BY DEF BasicInv, FollowJobsInv, FollowJobOK
<1>1. ASSUME NEW h \in Desks, F!Close(h) PROVE Quiet
  <2>1. ASSUME F!ReadClose(h) \/ F!CloseBare(h) \/ F!LookForSurvey(h) PROVE Quiet
    <3>1. UNCHANGED <<tasks, mails, journal>>
      BY <2>1 DEF F!ReadClose, F!CloseBare, F!LookForSurvey, F!state
    <3>2. \E j : F!Goto(h, j) /\ j.pc \notin {"record", "answer", "mark"}
      <4>1. CASE F!ReadClose(h)
        <5>1. PICK p \in {"bare", "closing"} :
                 F!Goto(h, [F!Idle EXCEPT !.pc = p, !.todo = enrolled, !.files = F!Files(enrolled)])
          BY <4>1 DEF F!ReadClose
        <5>2. PICK j : j = [F!Idle EXCEPT !.pc = p, !.todo = enrolled, !.files = F!Files(enrolled)]
          OBVIOUS
        <5>3. j.pc = p
          BY <5>2 DEF F!Idle
        <5> QED BY <5>1, <5>2, <5>3
      <4>2. CASE F!CloseBare(h)
        BY <4>2, <1>0 DEF F!CloseBare, FollowSlots
      <4>3. CASE F!LookForSurvey(h)
        <5>1. F!Idle.pc = "idle" /\ [work[h] EXCEPT !.pc = "plan"].pc = "plan"
          BY <1>0 DEF F!Idle, FollowSlots
        <5> QED BY <4>3, <5>1 DEF F!LookForSurvey
      <4> QED BY <2>1, <4>1, <4>2, <4>3
    <3> QED BY <3>1, <3>2, TasksStay DEF Quiet
  <2>2. CASE F!CloseFile(h)
    <3>1. work[h].files \subseteq {FileOf[l] : l \in Learners} /\ UNCHANGED <<tasks, mails>>
      BY <2>2 DEF F!CloseFile, BasicInv, FollowJobsInv, FollowJobOK
    <3>2. PICK file \in work[h].files :
            /\ journal' = Append(journal, F!Event("closed", file, None))
            /\ F!Goto(h, [work[h] EXCEPT !.files = @ \ {file},
                                         !.pc = IF work[h].files = {file} THEN "closed" ELSE "closing"])
      BY <2>2 DEF F!CloseFile
    <3>3. F!Event("closed", file, None) \in FollowEvents /\ F!Event("closed", file, None).what = "closed"
      BY <3>1, <3>2 DEF F!Event, FollowEvents
    <3>4. \E j : F!Goto(h, j) /\ j.pc \notin {"record", "answer", "mark"}
      <4>1. PICK p \in {"closed", "closing"} :
               F!Goto(h, [work[h] EXCEPT !.files = @ \ {file}, !.pc = p])
        BY <3>2
      <4>2. [work[h] EXCEPT !.files = @ \ {file}, !.pc = p].pc = p
        BY <1>0 DEF FollowSlots
      <4> QED BY <4>1, <4>2
    <3> QED BY <3>1, <3>2, <3>3, <3>4, TasksStay DEF Quiet
  <2>3. CASE F!Schedule(h)
    <3>1. work[h].pc = "plan" /\ UNCHANGED <<mails, journal>> /\ DOMAIN tasks = Learners
      BY <2>3 DEF F!Schedule, BasicInv, FollowTypes
    <3>2. PICK l \in work[h].todo :
          /\ tasks' = IF l \in Reachable /\ tasks[l] = None THEN [tasks EXCEPT ![l] = F!Planned] ELSE tasks
          /\ F!Goto(h, IF work[h].todo = {l} THEN F!Idle ELSE [work[h] EXCEPT !.todo = @ \ {l}])
      BY <2>3 DEF F!Schedule
    <3>3. \E j : F!Goto(h, j) /\ j.pc \notin {"record", "answer", "mark"}
      BY <3>1, <3>2, <1>0 DEF FollowSlots, F!Idle
    <3>4. \A x \in Learners : tasks'[x] = tasks[x] \/ tasks'[x].token = None
      BY <3>1, <3>2 DEF F!Planned
    <3> QED BY <3>1, <3>3, <3>4 DEF Quiet, Kept
  <2> QED BY <1>1, <2>1, <2>2, <2>3 DEF F!Close
<1>2. ASSUME NEW h \in Desks, F!BeginRun(h) \/ F!RecordLink(h) \/ F!RecordFails(h)
                              \/ \E l \in Learners : F!MailFails(h, l)
      PROVE  Quiet
  <2>1. UNCHANGED <<tasks, journal>> /\ (mails' = mails \/ \E m : mails' = mails \cup {m})
    BY <1>2 DEF F!BeginRun, F!RecordLink, F!RecordFails, F!MailFails, F!state
  <2>2. \E j : F!Goto(h, j) /\ j.pc \notin {"record", "answer", "mark"}
    <3>1. CASE F!BeginRun(h)
      <4>1. PICK q : q = F!Queries(Calendar[today])
        OBVIOUS
      <4>2. \A l \in q[1] \cup q[2] : l \in Learners /\ tasks[l] # None
        BY <4>1 DEF F!Queries, F!DueIn
      <4>3. DOMAIN F!Idle = FollowSlots
        BY DEF FollowSlots, F!Idle
      <4>4. F!Listing(F!Idle, q[1], q[2]).pc \in {"mail", "idle"}
        BY <4>2, <4>3, ListingOK
      <4> QED BY <3>1, <4>1, <4>4 DEF F!BeginRun
    <3>2. CASE ~ F!BeginRun(h)
      BY <1>2, <3>2, QuietNextTask DEF F!RecordLink, F!RecordFails, F!MailFails
    <3> QED BY <3>1, <3>2
  <2> QED BY <2>1, <2>2, TasksStay DEF Quiet
<1>3. ASSUME NEW h \in Desks, F!Survey(h) PROVE Quiet
  <2>1. ASSUME NEW link \in mails, F!OpenSurvey(h, link[1], link[2]) PROVE Quiet
    <3>1. PICK l \in Learners : l = link[2]
      BY <2>1 DEF BasicInv, FollowTypes
    <3>2. PICK token : token = link[1]
      OBVIOUS
    <3>3. <<token, l>> \in pointers /\ UNCHANGED F!state
      BY <2>1, <3>1, <3>2 DEF F!OpenSurvey, F!Resolve
    <3>4. tasks[l] # None
      BY <3>3 DEF BasicInv, LinksInv
    <3>5. PICK j : j = [F!Idle EXCEPT !.pc = "answer", !.learner = l, !.copy = tasks[l]]
      OBVIOUS
    <3>6. F!Goto(h, j) /\ j.pc = "answer" /\ j.copy = tasks[l]
      BY <2>1, <3>1, <3>5 DEF F!OpenSurvey, F!Idle
    <3>7. Kept(j.copy.token)
      BY <3>4, <3>6 DEF Kept
    <3> QED BY <3>3, <3>6, <3>7, TasksStay DEF Quiet, F!state
  <2>2. CASE F!Submit(h)
    <3>1. Kept(work[h].copy.token)
      BY <2>2 DEF Kept, F!Submit
    <3>2. PICK j : j = [work[h] EXCEPT !.pc = "mark"]
      OBVIOUS
    <3>3. j.pc = "mark" /\ j.copy = work[h].copy
      BY <1>0, <3>2 DEF FollowSlots
    <3> QED BY <2>2, <3>1, <3>2, <3>3, TasksStay DEF Quiet, F!Submit
  <2>3. CASE F!Answered(h)
    <3>1. PICK c \in F!Task, l \in Learners : c = work[h].copy /\ l = work[h].learner
      BY <2>3 DEF F!Answered, BasicInv, FollowJobsInv, FollowJobOK
    <3>2. Kept(c.token)
      BY <2>3, <3>1 DEF Kept, F!Answered
    <3>3. tasks' = [tasks EXCEPT ![l] = [c EXCEPT !.status = "answered"]] /\ DOMAIN tasks = Learners
          /\ F!Goto(h, F!Idle) /\ UNCHANGED <<mails, journal>>
      BY <2>3, <3>1 DEF F!Answered, BasicInv, FollowTypes
    <3>4. [c EXCEPT !.status = "answered"].token = c.token
      BY DEF F!Task
    <3>5. \A x \in Learners : tasks'[x] = tasks[x] \/ tasks'[x].token = c.token
      BY <3>3, <3>4
    <3>6. \A x \in Learners : tasks'[x] # None => Kept(tasks'[x].token)
      BY <3>2, <3>5 DEF Kept
    <3> QED BY <3>3, <3>6 DEF Quiet, F!Idle
  <2> QED BY <1>3, <2>1, <2>2, <2>3 DEF F!Survey
<1>4. ASSUME NEW h \in Desks, F!GiveUp(h) \/ (\E l \in Learners : F!ReadEnroll(h, l)) \/ F!WriteEnroll(h)
      PROVE  Quiet
  <2>1. UNCHANGED <<tasks, mails, journal>>
    BY <1>4 DEF F!GiveUp, F!ReadEnroll, F!WriteEnroll, F!state
  <2>2. \E j : F!Goto(h, j) /\ j.pc \notin {"record", "answer", "mark"}
    <3>1. F!Idle.pc = "idle" /\ \A l : [F!Idle EXCEPT !.pc = "enroll", !.learner = l].pc = "enroll"
      BY DEF F!Idle
    <3> QED BY <1>4, <3>1 DEF F!GiveUp, F!ReadEnroll, F!WriteEnroll
  <2> QED BY <2>1, <2>2, TasksStay DEF Quiet
<1>5. CASE F!Publish \/ F!Tomorrow \/ UNCHANGED F!vars
  <2>1. UNCHANGED <<tasks, mails, journal, work>>
    BY <1>5 DEF F!Publish, F!Tomorrow, F!vars, F!state
  <2> QED BY <2>1, TasksStay DEF Quiet
<1> QED BY <1>1, <1>2, <1>3, <1>4, <1>5 DEF F!Next, F!Run

\* The token of a mail to be recorded is that of a mail; so are those of the tasks.
LEMMA TokensDrawn ==
    ASSUME F!FollowUpConstants, BasicInv
    PROVE  /\ \A h \in Desks : work[h].pc = "record" =>
                  work[h].token \in 1 .. drawn /\ work[h].token # None /\ work[h].learner \in Learners
           /\ \A t : Kept(t) => t \in (1 .. drawn) \cup {None}
<1>1. mails \subseteq (1 .. drawn) \X Learners /\ pointers \subseteq mails /\ drawn \in Nat /\ None \notin Nat
  BY DEF BasicInv, FollowTypes, F!FollowUpConstants
<1>2. ASSUME NEW h \in Desks, work[h].pc = "record"
      PROVE  work[h].token \in 1 .. drawn /\ work[h].token # None /\ work[h].learner \in Learners
  <2>1. work[h].learner \in Learners /\ <<work[h].token, work[h].learner>> \in mails
    BY <1>2 DEF BasicInv, FollowJobsInv, FollowJobOK
  <2>2. work[h].token \in 1 .. drawn
    BY <1>1, <2>1
  <2> QED BY <1>1, <2>1, <2>2
<1>3. ASSUME NEW l \in Learners, tasks[l] # None PROVE tasks[l].token \in (1 .. drawn) \cup {None}
  BY <1>3 DEF BasicInv, TasksInv, TaskOK
<1>4. ASSUME NEW g \in Desks, work[g].pc \in {"answer", "mark"} PROVE work[g].copy.token \in 1 .. drawn
  BY <1>1, <1>4 DEF BasicInv, FollowJobsInv, FollowJobOK
<1> QED BY <1>2, <1>3, <1>4 DEF Kept

\* A token that a step keeps was kept before, or is that of a mail just recorded.
LEMMA KeptByQuiet ==
    ASSUME BasicInv, Quiet, NEW t, Kept(t)', t # None
    PROVE  Kept(t)
<1>1. CASE \E l \in Learners : tasks'[l] # None /\ tasks'[l].token = t
  BY <1>1 DEF Quiet
<1>2. ASSUME NEW g \in Desks, work'[g].pc \in {"answer", "mark"}, work'[g].copy.token = t PROVE Kept(t)
  <2>1. CASE work' = work
    BY <1>2, <2>1 DEF Kept
  <2>2. ASSUME NEW h \in Desks, NEW j, F!Goto(h, j), j.pc \in {"answer", "mark"} => Kept(j.copy.token)
        PROVE  Kept(t)
    <3>1. work'[g] = IF g = h THEN j ELSE work[g]
      BY <2>2 DEF BasicInv, FollowJobsInv, F!Goto
    <3>2. CASE g = h
      BY <1>2, <2>2, <3>1, <3>2
    <3>3. CASE g # h
      BY <1>2, <3>1, <3>3 DEF Kept
    <3> QED BY <3>2, <3>3
  <2> QED BY <2>1, <2>2 DEF Quiet
<1> QED BY <1>1, <1>2 DEF Kept

LEMMA FreshInit == ASSUME F!Init PROVE FreshInv
BY DEF F!Init, F!Idle, FreshInv

LEMMA FreshStep ==
    ASSUME F!FollowUpConstants, BasicInv, FreshInv, [F!Next]_F!vars
    PROVE  FreshInv'
<1>1. CASE Quiet
  <2>1. ASSUME NEW g \in Desks, work'[g].pc = "record" PROVE work'[g] = work[g]
    <3>1. CASE work' = work
      BY <3>1
    <3>2. ASSUME NEW h \in Desks, NEW j, F!Goto(h, j), j.pc # "record" PROVE work'[g] = work[g]
      BY <2>1, <3>2 DEF BasicInv, FollowJobsInv, F!Goto
    <3> QED BY <1>1, <3>1, <3>2 DEF Quiet
  <2>2. ASSUME NEW g \in Desks, work'[g].pc = "record", NEW t, t = work'[g].token PROVE ~ Kept(t)'
    BY <1>1, <2>1, <2>2, TokensDrawn, KeptByQuiet DEF FreshInv
  <2> QED BY <2>1, <2>2 DEF FreshInv, Kept
<1>2. ASSUME NEW h \in Desks, NEW l \in Learners, F!Mail(h, l) PROVE FreshInv'
  <2>1. PICK j : j = [work[h] EXCEPT !.pc = "record", !.learner = l, !.token = drawn + 1]
    OBVIOUS
  <2>2. j.pc = "record" /\ j.token = drawn + 1
    BY <2>1 DEF BasicInv, FollowJobsInv, FollowJobOK, FollowSlots
  <2>3. tasks' = tasks /\ \A g \in Desks : work'[g] = IF g = h THEN j ELSE work[g]
    BY <1>2, <2>1 DEF F!Mail, F!Goto, BasicInv, FollowJobsInv
  <2>4. ASSUME NEW t, Kept(t)' PROVE Kept(t)
    BY <2>2, <2>3, <2>4 DEF Kept
  <2>5. drawn + 1 \notin 1 .. drawn /\ drawn + 1 # None
    BY DEF BasicInv, FollowTypes, F!FollowUpConstants
  <2>6. ASSUME NEW g \in Desks, NEW k, k = work'[g], k.pc = "record", NEW t, t = k.token PROVE ~ Kept(t)'
    <3>1. CASE g = h
      BY <2>2, <2>3, <2>4, <2>5, <2>6, <3>1, TokensDrawn
    <3>2. CASE g # h
      BY <2>3, <2>4, <2>6, <3>2 DEF FreshInv
    <3> QED BY <3>1, <3>2
  <2>7. ASSUME NEW g \in Desks, NEW f \in Desks, work'[g].pc = "record", work'[f].pc = "record",
               work'[f].token = work'[g].token
        PROVE  f = g
    BY <2>2, <2>3, <2>5, <2>7, TokensDrawn DEF FreshInv
  <2> QED BY <2>6, <2>7 DEF FreshInv, Kept
<1>3. ASSUME NEW h \in Desks, F!RecordFiled(h) \/ F!RecordBare(h) PROVE FreshInv'
  <2>1. PICK j : F!Goto(h, j) /\ j.pc \notin {"record", "answer", "mark"}
    <3>1. [work[h] EXCEPT !.pc = "link"].pc = "link"
      BY DEF BasicInv, FollowJobsInv, FollowJobOK, FollowSlots
    <3>2. PICK n : n = F!NextTask(h, work[h].learner)
      OBVIOUS
    <3>3. work[h].pc = "record"
      BY <1>3 DEF F!RecordFiled, F!RecordBare
    <3>4. n.pc \notin {"record", "answer", "mark"}
      BY <3>2, <3>3, QuietNextTask
    <3>5. F!Goto(h, n) \/ F!Goto(h, [work[h] EXCEPT !.pc = "link"])
      BY <1>3, <3>2 DEF F!RecordFiled, F!RecordBare
    <3> QED BY <3>1, <3>4, <3>5
  <2>2. \A g \in Desks : work'[g] = IF g = h THEN j ELSE work[g]
    BY <2>1 DEF F!Goto, BasicInv, FollowJobsInv
  <2>3. work[h].pc = "record" /\ DOMAIN tasks = Learners
    BY <1>3 DEF F!RecordFiled, F!RecordBare, BasicInv, FollowTypes
  <2>4. \A l \in Learners : tasks'[l] = tasks[l] \/ tasks'[l].token = work[h].token
    BY <1>3, <2>3 DEF F!RecordFiled, F!RecordBare, F!Sent
  <2>5. ASSUME NEW t, Kept(t)', t # work[h].token PROVE Kept(t)
    BY <2>1, <2>2, <2>4, <2>5 DEF Kept
  <2>6. ASSUME NEW g \in Desks, work'[g].pc = "record", NEW t, t = work'[g].token PROVE ~ Kept(t)'
    BY <2>1, <2>2, <2>3, <2>5, <2>6 DEF FreshInv
  <2>7. ASSUME NEW g \in Desks, NEW f \in Desks, work'[g].pc = "record", work'[f].pc = "record",
               work'[f].token = work'[g].token
        PROVE  f = g
    BY <2>1, <2>2, <2>7 DEF FreshInv
  <2> QED BY <2>6, <2>7 DEF FreshInv, Kept
<1> QED BY <1>1, <1>2, <1>3, QuietSteps

\* Only the run that has just mailed a task it had read as planned may undo another.
LEMMA ReopenStep ==
    ASSUME F!FollowUpConstants, BasicInv, FreshInv, [F!Next]_F!vars
    PROVE  F!ReopenedByRun
<1>1. ASSUME NEW l \in Learners, tasks[l] # None, tasks[l].status # "planned", tasks'[l] # tasks[l],
             tasks'[l].status # "answered"
      PROVE  \E h \in Desks : /\ work[h].pc = "record" /\ work[h].learner = l
                              /\ tasks'[l] = F!Sent(h) /\ tasks[l].token # work[h].token
  <2>0. DOMAIN tasks = Learners
    BY DEF BasicInv, FollowTypes
  <2>1. ASSUME NEW h \in Desks, F!Schedule(h) PROVE FALSE
    BY <1>1, <2>0, <2>1 DEF F!Schedule
  <2>2. ASSUME NEW h \in Desks, F!Answered(h) PROVE FALSE
    <3>1. PICK c \in F!Task, x \in Learners : c = work[h].copy /\ x = work[h].learner
      BY <2>2 DEF F!Answered, BasicInv, FollowJobsInv, FollowJobOK
    <3>2. tasks' = [tasks EXCEPT ![x] = [c EXCEPT !.status = "answered"]]
      BY <2>2, <3>1 DEF F!Answered
    <3>3. [c EXCEPT !.status = "answered"].status = "answered"
      BY DEF F!Task
    <3> QED BY <1>1, <2>0, <3>2, <3>3
  <2>3. ASSUME NEW h \in Desks, F!RecordFiled(h) \/ F!RecordBare(h)
        PROVE  /\ work[h].pc = "record" /\ work[h].learner = l
               /\ tasks'[l] = F!Sent(h) /\ tasks[l].token # work[h].token
    <3>1. work[h].pc = "record" /\ tasks' = [tasks EXCEPT ![work[h].learner] = F!Sent(h)]
      BY <2>3 DEF F!RecordFiled, F!RecordBare
    <3>2. work[h].learner = l /\ tasks'[l] = F!Sent(h)
      BY <1>1, <2>0, <3>1
    <3>3. tasks[l].token # work[h].token
      BY <1>1, <3>1 DEF FreshInv, Kept
    <3> QED BY <3>1, <3>2, <3>3
  <2>4. ASSUME tasks' = tasks PROVE FALSE
    BY <1>1, <2>4
  <2>5. ASSUME NEW h \in Desks, F!Close(h), ~ F!Schedule(h) PROVE FALSE
    BY <2>4, <2>5 DEF F!Close, F!ReadClose, F!CloseBare, F!CloseFile, F!LookForSurvey, F!state
  <2>6. ASSUME NEW h \in Desks, F!Run(h), ~ (F!RecordFiled(h) \/ F!RecordBare(h)) PROVE FALSE
    BY <2>4, <2>6 DEF F!Run, F!BeginRun, F!RecordLink, F!RecordFails, F!Mail, F!MailFails, F!state
  <2>7. ASSUME NEW h \in Desks, F!Survey(h), ~ F!Answered(h) PROVE FALSE
    BY <2>4, <2>7 DEF F!Survey, F!OpenSurvey, F!Submit, F!state
  <2>8. ASSUME NEW h \in Desks, F!GiveUp(h) \/ (\E x \in Learners : F!ReadEnroll(h, x)) \/ F!WriteEnroll(h) PROVE FALSE
    BY <2>4, <2>8 DEF F!GiveUp, F!ReadEnroll, F!WriteEnroll, F!state
  <2>9. ASSUME F!Publish \/ F!Tomorrow \/ UNCHANGED F!vars PROVE FALSE
    BY <2>4, <2>9 DEF F!Publish, F!Tomorrow, F!vars, F!state
  <2>10. PICK h \in Desks : F!RecordFiled(h) \/ F!RecordBare(h)
    BY <2>1, <2>2, <2>5, <2>6, <2>7, <2>8, <2>9 DEF F!Next
  <2> QED BY <2>3, <2>10
<1> QED BY <1>1 DEF F!ReopenedByRun

\* What was sent or answered is undone only by a run that listed the task as planned and
\* records a mail of its own: one that overlaps, or the same run with its second list.
THEOREM OnlyRunsEverReopen == ASSUME F!FollowUpConstants PROVE F!Spec => OnlyRunsReopen
<1>1. F!Init => FreshInv
  BY FreshInit
<1>2. BasicInv /\ FreshInv /\ [F!Next]_F!vars => FreshInv' /\ F!ReopenedByRun
  BY FreshStep, ReopenStep
<1>3. F!Spec => []BasicInv
  BY FollowAlways
<1> QED BY <1>1, <1>2, <1>3, PTL DEF F!Spec, OnlyRunsReopen, F!OnlyRunsReopen

LEMMA CountInit == ASSUME F!Init PROVE CountInv
<1>1. IsFiniteSet(mails) /\ \A l \in Learners : MailsTo(l) = {} /\ Recording(l) = {} /\ SentEvents(l) = {}
  BY FS_EmptySet DEF F!Init, F!Idle, MailsTo, Recording, SentEvents
<1> QED BY <1>1, FS_EmptySet DEF CountInv

\* The sets that are counted are finite.
LEMMA CountsAreNumbers ==
    ASSUME BasicInv, CountInv, NEW l \in Learners
    PROVE  /\ IsFiniteSet(SentEvents(l)) /\ IsFiniteSet(MailsTo(l)) /\ IsFiniteSet(Recording(l))
           /\ Cardinality(SentEvents(l)) \in Nat /\ Cardinality(MailsTo(l)) \in Nat
           /\ Cardinality(Recording(l)) \in Nat
           /\ Cardinality(SentEvents(l)) + Cardinality(Recording(l)) <= Cardinality(MailsTo(l))
<1>1. PICK n \in Nat : DOMAIN journal = 1 .. n
  BY DEF BasicInv, FollowTypes
<1>2. IsFiniteSet(1 .. n) /\ SentEvents(l) \subseteq 1 .. n
  BY <1>1, FS_Interval DEF SentEvents
<1>3. IsFiniteSet(SentEvents(l))
  BY <1>2, FS_Subset
<1>4. IsFiniteSet(MailsTo(l))
  BY FS_Subset DEF MailsTo, CountInv
<1> QED BY <1>3, <1>4, FS_CardinalityType DEF CountInv

\* More mails, no more recorders, as many events.
LEMMA FewerRecorders ==
    ASSUME BasicInv, CountInv, NEW l \in Learners, mails \subseteq mails', IsFiniteSet(mails'),
           SentEvents(l)' = SentEvents(l), Recording(l)' \subseteq Recording(l)
    PROVE  /\ IsFiniteSet(Recording(l)')
           /\ Cardinality(SentEvents(l)') + Cardinality(Recording(l)') <= Cardinality(MailsTo(l)')
<1>1. IsFiniteSet(MailsTo(l)') /\ MailsTo(l) \subseteq MailsTo(l)'
  <2>1. MailsTo(l)' \subseteq mails'
    BY DEF MailsTo
  <2> QED BY <2>1, FS_Subset DEF MailsTo
<1>2. Cardinality(MailsTo(l)') \in Nat /\ Cardinality(MailsTo(l)) <= Cardinality(MailsTo(l)')
  BY <1>1, FS_Subset, FS_CardinalityType
<1>3. /\ IsFiniteSet(Recording(l)') /\ Cardinality(Recording(l)') \in Nat
      /\ Cardinality(Recording(l)') <= Cardinality(Recording(l))
  BY CountsAreNumbers, FS_Subset, FS_CardinalityType
<1> QED BY <1>2, <1>3, CountsAreNumbers

LEMMA SentEventsStay ==
    ASSUME BasicInv, Quiet, NEW l
    PROVE  SentEvents(l)' = SentEvents(l)
<1>1. CASE journal' = journal
  BY <1>1 DEF SentEvents
<1>2. ASSUME NEW e \in FollowEvents, e.what = "closed", journal' = Append(journal, e)
      PROVE  SentEvents(l)' = SentEvents(l)
  BY <1>2, JournalGrows DEF SentEvents, BasicInv
<1> QED BY <1>1, <1>2 DEF Quiet

LEMMA CountStep ==
    ASSUME F!FollowUpConstants, BasicInv, CountInv, [F!Next]_F!vars
    PROVE  CountInv'
<1>0. FollowTypes
  BY DEF BasicInv
<1>1. CASE Quiet
  <2>1. mails \subseteq mails' /\ IsFiniteSet(mails')
    BY <1>1, FS_AddElement DEF Quiet, CountInv
  <2>2. ASSUME NEW l \in Learners PROVE Recording(l)' \subseteq Recording(l)
    <3>1. CASE work' = work
      BY <3>1 DEF Recording
    <3>2. ASSUME NEW h \in Desks, NEW j, F!Goto(h, j), j.pc # "record" PROVE Recording(l)' \subseteq Recording(l)
      BY <3>2 DEF BasicInv, FollowJobsInv, F!Goto, Recording
    <3> QED BY <1>1, <3>1, <3>2 DEF Quiet
  <2> QED BY <1>1, <2>1, <2>2, SentEventsStay, FewerRecorders DEF CountInv
<1>2. ASSUME NEW h \in Desks, NEW x \in Learners, F!Mail(h, x) PROVE CountInv'
  <2>1. PICK j : j = [work[h] EXCEPT !.pc = "record", !.learner = x, !.token = drawn + 1]
    OBVIOUS
  <2>2. j.pc = "record" /\ j.learner = x
    BY <2>1 DEF BasicInv, FollowJobsInv, FollowJobOK, FollowSlots
  <2>3. /\ \A g \in Desks : work'[g] = IF g = h THEN j ELSE work[g]
        /\ mails' = mails \cup {<<drawn + 1, x>>} /\ journal' = journal /\ work[h].pc = "mail"
    BY <1>2, <2>1 DEF F!Mail, F!Goto, BasicInv, FollowJobsInv
  <2>4. IsFiniteSet(mails') /\ mails \subseteq mails'
    BY <2>3, FS_AddElement DEF CountInv
  <2>5. ASSUME NEW l \in Learners
        PROVE  /\ IsFiniteSet(Recording(l)')
               /\ Cardinality(SentEvents(l)') + Cardinality(Recording(l)') <= Cardinality(MailsTo(l)')
    <3>1. SentEvents(l)' = SentEvents(l)
      BY <2>3 DEF SentEvents
    <3>2. CASE l # x
      <4>1. Recording(l)' \subseteq Recording(l)
        BY <2>2, <2>3, <3>2 DEF Recording
      <4> QED BY <2>4, <3>1, <4>1, FewerRecorders
    <3>3. CASE l = x
      <4>1. Recording(l)' = Recording(l) \cup {h} /\ h \notin Recording(l)
        BY <2>2, <2>3, <3>3 DEF Recording
      <4>2. MailsTo(l)' = MailsTo(l) \cup {<<drawn + 1, l>>}
        BY <2>3, <3>3 DEF MailsTo
      <4>3. <<drawn + 1, l>> \notin mails
        BY <1>0 DEF FollowTypes
      <4>4. <<drawn + 1, l>> \notin MailsTo(l)
        BY <4>3 DEF MailsTo
      <4>5. IsFiniteSet(Recording(l)') /\ Cardinality(Recording(l)') = Cardinality(Recording(l)) + 1
        BY <4>1, CountsAreNumbers, FS_AddElement
      <4>6. Cardinality(MailsTo(l)') = Cardinality(MailsTo(l)) + 1
        BY <4>2, <4>4, CountsAreNumbers, FS_AddElement
      <4> QED BY <3>1, <4>5, <4>6, CountsAreNumbers
    <3> QED BY <3>2, <3>3
  <2> QED BY <2>4, <2>5 DEF CountInv
<1>3. ASSUME NEW h \in Desks, F!RecordFiled(h) PROVE CountInv'
  <2>1. PICK x \in Learners : x = work[h].learner
    BY <1>3, SentFits DEF F!RecordFiled
  <2>2. PICK e \in FollowEvents : e = F!Event("sent", FileOf[x], x) /\ e.what = "sent" /\ e.learner = x
    <3>1. F!Event("sent", FileOf[x], x) \in FollowEvents
      BY DEF F!Event, FollowEvents
    <3> QED BY <3>1 DEF F!Event
  <2>3. /\ work[h].pc = "record" /\ F!Goto(h, F!NextTask(h, x)) /\ journal' = Append(journal, e) /\ mails' = mails
    BY <1>3, <2>1, <2>2 DEF F!RecordFiled
  <2>4. PICK j : /\ j.pc # "record" /\ \A g \in Desks : work'[g] = IF g = h THEN j ELSE work[g]
    BY <2>3, QuietNextTask DEF F!Goto, BasicInv, FollowJobsInv
  <2>5. ASSUME NEW l \in Learners
        PROVE  /\ IsFiniteSet(Recording(l)')
               /\ Cardinality(SentEvents(l)') + Cardinality(Recording(l)') <= Cardinality(MailsTo(l)')
    <3>1. CASE l # x
      <4>1. SentEvents(l)' = SentEvents(l)
        BY <1>0, <2>2, <2>3, <3>1, JournalGrows DEF SentEvents
      <4>2. Recording(l)' \subseteq Recording(l)
        BY <2>4 DEF Recording
      <4> QED BY <2>3, <4>1, <4>2, FewerRecorders DEF CountInv
    <3>2. CASE l = x
      <4>1. SentEvents(l)' = SentEvents(l) \cup {Len(journal) + 1}
        BY <1>0, <2>2, <2>3, <3>2, JournalGrows DEF SentEvents
      <4>2. Recording(l)' = Recording(l) \ {h} /\ h \in Recording(l)
        BY <2>1, <2>3, <2>4, <3>2 DEF Recording
      <4>3. Cardinality(SentEvents(l)') <= Cardinality(SentEvents(l)) + 1 /\ Cardinality(SentEvents(l)') \in Nat
        <5>1. PICK k : k = Len(journal) + 1
          OBVIOUS
        <5>2. SentEvents(l)' = SentEvents(l) \cup {k}
          BY <4>1, <5>1
        <5>3. IsFiniteSet(SentEvents(l)') /\ (Cardinality(SentEvents(l)') = Cardinality(SentEvents(l))
                                            \/ Cardinality(SentEvents(l)') = Cardinality(SentEvents(l)) + 1)
          BY <5>2, CountsAreNumbers, FS_AddElement
        <5> QED BY <5>3, CountsAreNumbers
      <4>4. IsFiniteSet(Recording(l)') /\ Cardinality(Recording(l)') = Cardinality(Recording(l)) - 1
        BY <4>2, CountsAreNumbers, FS_RemoveElement
      <4>5. MailsTo(l)' = MailsTo(l)
        BY <2>3 DEF MailsTo
      <4> QED BY <4>3, <4>4, <4>5, CountsAreNumbers
    <3> QED BY <3>1, <3>2
  <2> QED BY <2>3, <2>5 DEF CountInv
<1>4. ASSUME NEW h \in Desks, F!RecordBare(h) PROVE CountInv'
  <2>1. [work[h] EXCEPT !.pc = "link"].pc = "link"
    BY DEF BasicInv, FollowJobsInv, FollowJobOK, FollowSlots
  <2>2. UNCHANGED <<mails, journal>> /\ F!Goto(h, [work[h] EXCEPT !.pc = "link"])
    BY <1>4 DEF F!RecordBare
  <2>3. ASSUME NEW l \in Learners PROVE SentEvents(l)' = SentEvents(l) /\ Recording(l)' \subseteq Recording(l)
    BY <2>1, <2>2 DEF SentEvents, Recording, F!Goto, BasicInv, FollowJobsInv
  <2> QED BY <2>2, <2>3, FewerRecorders DEF CountInv
<1> QED BY <1>1, <1>2, <1>3, <1>4, QuietSteps

\* FollowUp counts as this module does.
LEMMA FollowCardinality == \A S : F!Cardinality(S) = Cardinality(S)
BY DEF F!Cardinality, Cardinality

\* The rate of return can be shown: mails, events and answers account for each other.
THEOREM ReturnsAlwaysAccounted == ASSUME F!FollowUpConstants PROVE F!Spec => []ReturnsAccounted
<1>1. F!Init => CountInv
  BY CountInit
<1>2. BasicInv /\ CountInv /\ [F!Next]_F!vars => CountInv'
  BY CountStep
<1>3. ASSUME BasicInv, CountInv PROVE ReturnsAccounted
  <2>1. FollowTypes /\ TasksInv
    BY <1>3 DEF BasicInv
  <2>2. F!TypeOK
    BY <2>1 DEF F!TypeOK, FollowTypes, TasksInv, TaskOK, F!Task
  <2>3. ASSUME NEW l \in Learners
        PROVE  F!Count("sent", l) = Cardinality(SentEvents(l)) /\ (SentRecorded(l) /\ FileOf[l] # None => F!Count("sent", l) > 0)
    <3>1. F!Count("sent", l) = Cardinality(SentEvents(l))
      BY FollowCardinality DEF F!Count, SentEvents
    <3>2. ASSUME SentRecorded(l), FileOf[l] # None PROVE SentEvents(l) # {}
      BY <3>2 DEF SentRecorded, SentEvents
    <3> QED BY <1>3, <3>1, <3>2, CountsAreNumbers, FS_EmptySet
  <2>4. \A l \in Learners :
               /\ (tasks[l] # None /\ tasks[l].status # "planned") =>
                  /\ <<tasks[l].token, l>> \in mails
                  /\ FileOf[l] # None => <<tasks[l].token, l>> \in pointers /\ F!Count("sent", l) > 0
               /\ (tasks[l] # None /\ tasks[l].status = "answered") => answers[l] > 0
    BY <2>1, <2>3 DEF TasksInv, TaskOK
  <2>5. ASSUME NEW l \in Learners
        PROVE  F!Count("sent", l) <= Cardinality({m \in mails : m[2] = l})
    <3>1. Cardinality(SentEvents(l)) <= Cardinality(MailsTo(l))
      BY <1>3, CountsAreNumbers
    <3>2. MailsTo(l) = {m \in mails : m[2] = l}
      BY DEF MailsTo
    <3> QED BY <2>3, <3>1, <3>2
  <2>6. \A l \in Learners : answers[l] > 0 => \E m \in mails : m[2] = l
    BY <1>3 DEF BasicInv, AnswersInv, Mailed
  <2>7. ASSUME NEW l \in Learners
        PROVE  /\ (tasks[l] # None /\ tasks[l].status # "planned") =>
                  /\ <<tasks[l].token, l>> \in mails
                  /\ FileOf[l] # None => <<tasks[l].token, l>> \in pointers /\ F!Count("sent", l) > 0
               /\ F!Count("sent", l) <= Cardinality({m \in mails : m[2] = l})
               /\ answers[l] > 0 => \E m \in mails : m[2] = l
               /\ (tasks[l] # None /\ tasks[l].status = "answered") => answers[l] > 0
    BY <2>4, <2>5, <2>6
  <2> QED BY <2>2, <2>7, FollowCardinality DEF ReturnsAccounted, F!ReturnsAccounted
<1>4. F!Spec => []BasicInv
  BY FollowAlways
<1> QED BY <1>1, <1>2, <1>3, <1>4, PTL DEF F!Spec

-----------------------------------------------------------------------------
(* Attendance: the half-days of a session *)

LEMMA QuotientAndRest ==
    \A n \in Nat : n = 96 * (n \div 96) + (n % 96) /\ n \div 96 \in Nat /\ n % 96 \in 0 .. 95
OBVIOUS

\* The days the loop goes through, and the slots it keeps of them.
DaysOf(s) == {s.start \div A!Day + k : k \in {k \in 0 .. s.end : s.start + k * A!Day <= s.end}}
Morning(d) == A!Slot(<<d, "am">>, d * A!Day + 36, d * A!Day + 52)
Afternoon(d) == A!Slot(<<d, "pm">>, d * A!Day + 56, d * A!Day + 68)
LastDay(s) == IF s.end % A!Day < s.start % A!Day THEN s.end \div A!Day - 1 ELSE s.end \div A!Day

LEMMA DaysAre ==
    ASSUME NEW s, s.start \in Nat, s.end \in Nat
    PROVE  DaysOf(s) = (s.start \div A!Day) .. LastDay(s) /\ DaysOf(s) \subseteq Nat
<1> DEFINE q == s.start \div 96
           Q == s.end \div 96
           r == s.start % 96
           R == s.end % 96
<1>1. /\ q \in Nat /\ Q \in Nat /\ r \in 0 .. 95 /\ R \in 0 .. 95
      /\ s.start = 96 * q + r /\ s.end = 96 * Q + R
  BY QuotientAndRest
<1>2. LastDay(s) = (IF R < r THEN Q - 1 ELSE Q) /\ s.start \div A!Day = q
  BY DEF LastDay, A!Day
<1> HIDE DEF q, Q, r, R
<1>3. DaysOf(s) = {q + k : k \in {k \in 0 .. s.end : s.start + k * 96 <= s.end}}
  BY <1>2 DEF DaysOf, A!Day
<1>4. ASSUME NEW d \in DaysOf(s) PROVE d \in Nat /\ d \in q .. LastDay(s)
  <2>1. PICK k \in 0 .. s.end : s.start + k * 96 <= s.end /\ d = q + k
    BY <1>3, <1>4
  <2>2. k \in Nat /\ d \in Nat /\ d <= Q /\ (R < r => d <= Q - 1) /\ q <= d
    BY <1>1, <2>1
  <2> QED BY <1>1, <1>2, <2>2
<1>5. ASSUME NEW d \in q .. LastDay(s) PROVE d \in DaysOf(s)
  <2>1. PICK k \in Int : k = d - q
    BY <1>1, <1>5
  <2>2. k \in Nat /\ k <= s.end /\ s.start + k * 96 <= s.end /\ d = q + k
    BY <1>1, <1>2, <1>5, <2>1
  <2> QED BY <1>3, <2>2
<1> QED BY <1>2, <1>4, <1>5

LEMMA HalfDaysOf ==
    ASSUME NEW s
    PROVE  A!HalfDaySlots(s) =
               {slot \in {Morning(d) : d \in DaysOf(s)} \cup {Afternoon(d) : d \in DaysOf(s)} :
                    slot.to > s.start /\ slot.from < s.end}
BY DEF A!HalfDaySlots, DaysOf, Morning, Afternoon

\* The loop makes the half-days from the first day to the last it reaches.
LEMMA HalfDaysAre ==
    ASSUME NEW s, s.start \in Nat, s.end \in Nat
    PROVE  A!HalfDaySlots(s) = A!HalfDays(s,
               LET last == s.end \div A!Day
               IN (s.start \div A!Day) ..
                      IF s.end % A!Day < s.start % A!Day THEN last - 1 ELSE last)
<1>1. ASSUME NEW days
      PROVE  A!HalfDays(s, days) =
                 {slot \in {Morning(d) : d \in days} \cup {Afternoon(d) : d \in days} :
                    slot.to > s.start /\ slot.from < s.end}
  BY DEF A!HalfDays, Morning, Afternoon
<1>2. DaysOf(s) = LET last == s.end \div A!Day
                  IN (s.start \div A!Day) ..
                      IF s.end % A!Day < s.start % A!Day THEN last - 1 ELSE last
  BY DaysAre DEF LastDay
<1> QED BY <1>1, <1>2, HalfDaysOf

\* What a half-day is.
LEMMA HalfDaySlot ==
    ASSUME NEW s, s.start \in Nat, s.end \in Nat, NEW slot \in A!HalfDaySlots(s)
    PROVE  \E d \in Nat : slot = Morning(d) \/ slot = Afternoon(d)
BY DaysAre, HalfDaysOf

\* The slots a sheet of the session may have.
AllSlots == IF session.mode = "async" THEN A!AsyncSlots(session, Modules) ELSE A!HalfDaySlots(session)

SessionOK == session.start \in Nat /\ session.end \in Nat /\ session.start < session.end

LEMMA SessionFits == ASSUME A!AttendanceConstants, session \in Sessions PROVE SessionOK
BY DEF A!AttendanceConstants, SessionOK

\* Half-days and modules are distinct slots, of a length of their own.
LEMMA HalfDayFacts ==
    ASSUME NEW d \in Nat, NEW slot, slot = Morning(d) \/ slot = Afternoon(d)
    PROVE  /\ slot.id \in Nat \X {"am", "pm"} /\ slot.from \in Nat /\ slot.to \in Nat /\ slot.from < slot.to
           /\ slot.id[1] = d /\ slot \in A!Slots
           /\ slot = IF slot.id[2] = "am" THEN Morning(d) ELSE Afternoon(d)
BY DEF Morning, Afternoon, A!Slot, A!Day, A!Slots

LEMMA SlotFacts ==
    ASSUME SessionOK, NEW slot \in AllSlots
    PROVE  /\ slot \in A!Slots /\ slot.id \in A!SlotIds /\ slot.from < slot.to
           /\ \A other \in AllSlots : slot.id = other.id => slot = other
<1>1. CASE session.mode = "async"
  <2>1. AllSlots = {A!Slot(m, session.start, session.end) : m \in Modules}
    BY <1>1 DEF AllSlots, A!AsyncSlots
  <2>2. PICK m \in Modules : slot = [id |-> m, from |-> session.start, to |-> session.end]
    BY <2>1 DEF A!Slot
  <2>3. slot \in A!Slots
    BY <2>2 DEF SessionOK, A!Slots
  <2>4. slot.id \in A!SlotIds /\ slot.from < slot.to
    BY <1>1, <2>2 DEF SessionOK, A!SlotIds
  <2>5. \A other \in AllSlots : slot.id = other.id => slot = other
    BY <2>1, <2>2 DEF A!Slot
  <2> QED BY <2>3, <2>4, <2>5
<1>2. CASE session.mode # "async"
  <2>1. AllSlots = A!HalfDaySlots(session)
    BY <1>2 DEF AllSlots
  <2>2. \A x \in AllSlots : \E d \in Nat : x = Morning(d) \/ x = Afternoon(d)
    BY <2>1, HalfDaySlot DEF SessionOK
  <2>3. slot \in A!Slots /\ slot.from < slot.to
    BY <2>2, HalfDayFacts
  <2>4. slot.id \in A!SlotIds
    BY <1>2, <2>1 DEF A!SlotIds
  <2>5. ASSUME NEW other \in AllSlots, slot.id = other.id PROVE slot = other
    <3>1. PICK d \in Nat : slot = Morning(d) \/ slot = Afternoon(d)
      BY <2>2
    <3>2. PICK f \in Nat : other = Morning(f) \/ other = Afternoon(f)
      BY <2>2
    <3> QED BY <2>5, <3>1, <3>2, HalfDayFacts
  <2> QED BY <2>3, <2>4, <2>5
<1> QED BY <1>1, <1>2

-----------------------------------------------------------------------------
(* Attendance: sheets and presences *)

AttendanceEvents ==
    [what : {"presence"}, slot : A!SlotIds, learner : Attendees, method : Methods,
     hours : {A!Hours(slot) : slot \in AllSlots}, at : Instants]
    \cup [what : {"countersignature"}, trainer : Handlers, slots : {A!Cardinality(S) : S \in SUBSET A!Slots}]

AttendanceTypes ==
    /\ session \in Sessions /\ modules \in Seq(Modules) /\ now \in Instants
    /\ entries \subseteq A!Entries /\ events \in Seq(AttendanceEvents)

Countersigned(item) ==
    \E k \in DOMAIN events : /\ events[k].what = "countersignature" /\ events[k].trainer = item.trainer
                             /\ events[k].slots = A!Cardinality(item.slots)

\* A sheet, as it is or as a handler has it.
ItemOK(item) ==
    /\ item \in A!SheetItem /\ item.slots \subseteq AllSlots
    /\ session.mode # "async" => item.slots = A!HalfDaySlots(session)
    /\ item.trainer # None => Countersigned(item)

\* Slot id was open at a time not later than at.
Opened(id, at) ==
    /\ session.mode # "async"
    /\ \E slot \in A!HalfDaySlots(session) : slot.id = id /\ at + A!SignOpensBefore >= slot.from

DeskSlots == {"pc", "kind", "slot", "learner", "method", "checked", "copy"}

DeskOK(j) ==
    /\ DOMAIN j = DeskSlots
    /\ j.pc \in {"idle", "ensure", "create", "ensured", "done"}
    /\ j.kind \in {"view", "countersign", "space", "register"} /\ j.checked \in BOOLEAN
    /\ j.kind \in {"space", "register"} =>
           j.slot \in A!SlotIds /\ j.learner \in Attendees /\ j.method \in Methods
    /\ j.checked => j.kind = "space" /\ Opened(j.slot, now)
    /\ j.pc \in {"create", "ensured"} => j.copy # None
    /\ j.pc = "create" => j.copy.trainer = None
    /\ j.copy # None => ItemOK(j.copy)

DesksInv == DOMAIN desk = Handlers /\ \A h \in Handlers : DeskOK(desk[h])

SheetInv == sheet # None => ItemOK(sheet)

\* Presences and their events go one to one.
Journalled(e) ==
    \E k \in DOMAIN events : /\ events[k].what = "presence" /\ events[k].slot = e.slot
                             /\ events[k].learner = e.learner /\ events[k].method = e.method
                             /\ events[k].at = e.at

PresencesInv ==
    /\ \A e \in entries : /\ Journalled(e) /\ (e.own => Opened(e.slot, e.at))
                          /\ \A f \in entries : (e.slot = f.slot /\ e.learner = f.learner) => e = f
    /\ \A k \in A!Presences :
          /\ \E e \in entries : events[k].slot = e.slot /\ events[k].learner = e.learner
          /\ \E slot \in AllSlots : slot.id = events[k].slot /\ A!Hours(slot) = events[k].hours
          /\ \A i \in A!Presences :
                (events[k].slot = events[i].slot /\ events[k].learner = events[i].learner) => k = i

NumbersInv == IsFiniteSet(entries) /\ Cardinality(A!Presences) = Cardinality(entries)

AttendanceInv == AttendanceTypes /\ DesksInv /\ SheetInv /\ PresencesInv

\* What only grows.
AttendanceGrows ==
    /\ session' = session /\ now <= now'
    /\ DOMAIN events \subseteq DOMAIN events' /\ \A k \in DOMAIN events : events'[k] = events[k]

\* What changes is right.
AttendanceMoves ==
    /\ desk' = desk \/ \E h \in Handlers : \E j : A!Goto(h, j) /\ DeskOK(j)
    /\ sheet' = sheet \/ \E item : sheet' = item /\ (ItemOK(item) \/ ItemOK(item)')

AttendanceOK == AttendanceTypes' /\ AttendanceGrows /\ AttendanceMoves

LEMMA SlotsStay ==
    ASSUME session' = session
    PROVE  AllSlots' = AllSlots /\ A!SlotIds' = A!SlotIds /\ A!Entries' = A!Entries /\ AttendanceEvents' = AttendanceEvents
<1>1. AllSlots' = AllSlots /\ A!SlotIds' = A!SlotIds
  BY DEF AllSlots, A!SlotIds
<1> QED BY <1>1 DEF A!Entries, AttendanceEvents

LEMMA ItemGrows ==
    ASSUME AttendanceGrows, NEW item, ItemOK(item)
    PROVE  ItemOK(item)'
<1>1. session' = session
  BY DEF AttendanceGrows
<1>2. Countersigned(item) => Countersigned(item)'
  BY DEF AttendanceGrows, Countersigned
<1> QED BY <1>1, <1>2, SlotsStay DEF ItemOK

LEMMA OpenedGrows ==
    ASSUME A!AttendanceConstants, AttendanceTypes, AttendanceTypes', AttendanceGrows, NEW id, Opened(id, now)
    PROVE  Opened(id, now)'
<1>1. now \in Nat /\ now' \in Nat
  BY DEF A!AttendanceConstants, AttendanceTypes
<1>2. PICK slot \in A!HalfDaySlots(session) : slot.id = id /\ now + A!SignOpensBefore >= slot.from
  BY DEF Opened
<1>3. slot.from \in Nat
  <2>1. session.mode # "async" /\ SessionOK
    BY SessionFits DEF Opened, AttendanceTypes
  <2> QED BY <1>2, <2>1, SlotFacts DEF AllSlots, A!Slots
<1>4. now' + A!SignOpensBefore >= slot.from
  BY <1>1, <1>2, <1>3 DEF AttendanceGrows, A!SignOpensBefore
<1> QED BY <1>2, <1>4 DEF Opened, AttendanceGrows

LEMMA DeskGrows ==
    ASSUME A!AttendanceConstants, AttendanceTypes, AttendanceTypes', AttendanceGrows, NEW j, DeskOK(j)
    PROVE  DeskOK(j)'
<1>1. A!SlotIds' = A!SlotIds
  BY SlotsStay DEF AttendanceGrows
<1>2. j.checked => Opened(j.slot, now)'
  BY OpenedGrows DEF DeskOK
<1>3. j.copy # None => ItemOK(j.copy)'
  BY ItemGrows DEF DeskOK
<1> QED BY <1>1, <1>2, <1>3 DEF DeskOK

LEMMA AttendanceKept ==
    ASSUME A!AttendanceConstants, AttendanceInv, AttendanceOK
    PROVE  AttendanceTypes' /\ DesksInv' /\ SheetInv'
<1>1. AttendanceTypes /\ AttendanceTypes' /\ AttendanceGrows
  BY DEF AttendanceInv, AttendanceOK
<1>2. DesksInv'
  <2>1. DOMAIN desk' = Handlers
    BY DEF AttendanceInv, DesksInv, AttendanceOK, AttendanceMoves, A!Goto
  <2>2. ASSUME NEW g \in Handlers, NEW k, k = desk'[g] PROVE DeskOK(k)'
    <3>1. DeskOK(k)
      BY <2>2 DEF AttendanceInv, DesksInv, AttendanceOK, AttendanceMoves, A!Goto
    <3> QED BY <1>1, <3>1, DeskGrows
  <2> QED BY <2>1, <2>2 DEF DesksInv, DeskOK, Opened, ItemOK, Countersigned
<1>3. SheetInv'
  <2>1. ASSUME NEW item, item = sheet', item # None PROVE ItemOK(item)'
    <3>1. CASE sheet' = sheet
      <4>1. ItemOK(item)
        BY <2>1, <3>1 DEF AttendanceInv, SheetInv
      <4> QED BY <1>1, <4>1, ItemGrows
    <3>2. ASSUME NEW i, sheet' = i, ItemOK(i) \/ ItemOK(i)' PROVE ItemOK(item)'
      <4>1. ItemOK(item) \/ ItemOK(item)'
        BY <2>1, <3>2
      <4> QED BY <1>1, <4>1, ItemGrows
    <3> QED BY <3>1, <3>2 DEF AttendanceOK, AttendanceMoves
  <2> QED BY <2>1 DEF SheetInv, ItemOK, Countersigned
<1> QED BY <1>1, <1>2, <1>3

LEMMA AttendanceInit ==
    ASSUME A!AttendanceConstants, A!Init
    PROVE  AttendanceInv /\ NumbersInv
<1>1. now \in Instants
  BY DEF A!Init
<1>2. events = << >> /\ events \in Seq(AttendanceEvents) /\ modules \in Seq(Modules) /\ DOMAIN events = {}
  BY DEF A!Init
<1>3. AttendanceTypes
  BY <1>1, <1>2 DEF A!Init, AttendanceTypes
<1>4. DesksInv /\ SheetInv
  BY DEF A!Init, A!Idle, DesksInv, DeskOK, DeskSlots, SheetInv
<1>5. PresencesInv /\ A!Presences = {} /\ entries = {}
  BY <1>2 DEF A!Init, PresencesInv, A!Presences
<1> QED BY <1>3, <1>4, <1>5, FS_EmptySet DEF AttendanceInv, NumbersInv

\* A step that writes no event.
LEMMA PresencesStay ==
    ASSUME AttendanceInv, NumbersInv, UNCHANGED <<session, entries, events>>
    PROVE  PresencesInv' /\ NumbersInv' /\ AttendanceEvents' = AttendanceEvents /\ A!Entries' = A!Entries
<1>1. AllSlots' = AllSlots /\ AttendanceEvents' = AttendanceEvents /\ A!Entries' = A!Entries
  BY SlotsStay
<1>2. A!Presences' = A!Presences
  BY DEF A!Presences
<1>3. \A e \in entries : Journalled(e)' = Journalled(e)
  BY DEF Journalled
<1>4. \A id, at : Opened(id, at)' = Opened(id, at)
  BY DEF Opened
<1>5. PresencesInv'
  BY <1>1, <1>2, <1>3, <1>4 DEF AttendanceInv, PresencesInv, Journalled, Opened
<1> QED BY <1>1, <1>2, <1>5 DEF NumbersInv

\* A handler that goes on, and writes no event.
LEMMA DeskMoves ==
    ASSUME A!AttendanceConstants, AttendanceInv, NumbersInv, UNCHANGED <<entries, events>>,
           NEW h \in Handlers, NEW j, A!Goto(h, j), DeskOK(j),
           sheet' = sheet \/ \E item : sheet' = item /\ ItemOK(item)
    PROVE  AttendanceOK /\ PresencesInv' /\ NumbersInv'
<1>1. UNCHANGED <<session, modules, now>>
  BY DEF A!Goto
<1>2. PresencesInv' /\ NumbersInv' /\ AttendanceEvents' = AttendanceEvents /\ A!Entries' = A!Entries
  BY <1>1, PresencesStay
<1>3. AttendanceTypes'
  BY <1>1, <1>2 DEF AttendanceInv, AttendanceTypes
<1>4. now \in Nat
  BY DEF AttendanceInv, AttendanceTypes, A!AttendanceConstants
<1>5. AttendanceGrows
  BY <1>1, <1>4 DEF AttendanceGrows
<1>6. AttendanceMoves
  BY DEF AttendanceMoves
<1> QED BY <1>2, <1>3, <1>5, <1>6 DEF AttendanceOK

LEMMA DeskIdleOK ==
    /\ \A kind \in {"view", "countersign"} : DeskOK([A!Idle EXCEPT !.pc = "ensure", !.kind = kind])
    /\ DeskOK([A!Idle EXCEPT !.pc = "done"])
BY DEF DeskOK, DeskSlots, A!Idle

LEMMA BuiltFits ==
    ASSUME A!AttendanceConstants, AttendanceInv, NEW n \in 0 .. Len(modules)
    PROVE  ItemOK(A!Built({modules[k] : k \in 1 .. n})) /\ A!Built({modules[k] : k \in 1 .. n}).trainer = None
<1>1. PICK seen : seen = {modules[k] : k \in 1 .. n}
  OBVIOUS
<1>2. modules \in Seq(Modules)
  BY DEF AttendanceInv, AttendanceTypes
<1>3. seen \subseteq Modules
  BY <1>1, <1>2
<1>4. PICK slots : slots = IF session.mode = "async" THEN A!AsyncSlots(session, seen) ELSE A!HalfDaySlots(session)
  OBVIOUS
<1>5. slots \subseteq AllSlots /\ (session.mode # "async" => slots = A!HalfDaySlots(session))
  BY <1>3, <1>4 DEF AllSlots, A!AsyncSlots
<1>6. slots \subseteq A!Slots
  BY <1>5, SlotFacts, SessionFits DEF AttendanceInv, AttendanceTypes
<1>7. PICK item : item = [slots |-> slots, trainer |-> None]
  OBVIOUS
<1>8. item \in A!SheetItem /\ item.slots = slots /\ item.trainer = None
  BY <1>6, <1>7 DEF A!SheetItem
<1>9. A!Built(seen) = item
  BY <1>4, <1>7 DEF A!Built
<1>10. ItemOK(item)
  BY <1>5, <1>8 DEF ItemOK
<1> QED BY <1>1, <1>8, <1>9, <1>10

LEMMA EnsureSteps ==
    ASSUME A!AttendanceConstants, AttendanceInv, NumbersInv, NEW h \in Handlers, A!Ensure(h)
    PROVE  AttendanceOK /\ PresencesInv' /\ NumbersInv'
<1>1. DeskOK(desk[h])
  BY DEF AttendanceInv, DesksInv
<1>2. CASE A!ReadSheet(h)
  <2>1. sheet # None /\ ItemOK(sheet) /\ desk[h].pc = "ensure"
    BY <1>2 DEF A!ReadSheet, AttendanceInv, SheetInv
  <2>2. PICK j : j = [desk[h] EXCEPT !.pc = "ensured", !.copy = sheet]
    OBVIOUS
  <2>3. /\ DOMAIN j = DeskSlots /\ j.pc = "ensured" /\ j.copy = sheet
        /\ j.kind = desk[h].kind /\ j.slot = desk[h].slot /\ j.learner = desk[h].learner
        /\ j.method = desk[h].method /\ j.checked = desk[h].checked
    BY <1>1, <2>2 DEF DeskOK, DeskSlots
  <2>4. DeskOK(j)
    BY <1>1, <2>1, <2>3 DEF DeskOK
  <2> QED BY <1>2, <2>2, <2>4, DeskMoves DEF A!ReadSheet
<1>3. CASE A!Build(h)
  <2>1. PICK n \in 0 .. Len(modules) :
           A!Goto(h, [desk[h] EXCEPT !.pc = "create", !.copy = A!Built({modules[k] : k \in 1 .. n})])
    BY <1>3 DEF A!Build
  <2>2. PICK item : item = A!Built({modules[k] : k \in 1 .. n})
    OBVIOUS
  <2>3. ItemOK(item) /\ item.trainer = None
    BY <2>2, BuiltFits
  <2>4. item # None
    BY <2>3 DEF ItemOK, A!AttendanceConstants
  <2>5. PICK j : j = [desk[h] EXCEPT !.pc = "create", !.copy = item]
    OBVIOUS
  <2>6. /\ DOMAIN j = DeskSlots /\ j.pc = "create" /\ j.copy = item
        /\ j.kind = desk[h].kind /\ j.slot = desk[h].slot /\ j.learner = desk[h].learner
        /\ j.method = desk[h].method /\ j.checked = desk[h].checked
    BY <1>1, <2>5 DEF DeskOK, DeskSlots
  <2>7. DeskOK(j)
    BY <1>1, <2>3, <2>4, <2>6 DEF DeskOK
  <2> QED BY <1>3, <2>1, <2>2, <2>5, <2>7, DeskMoves DEF A!Build
<1>4. CASE A!CreateSheet(h)
  <2>1. desk[h].pc = "create" /\ desk[h].copy # None /\ ItemOK(desk[h].copy)
    BY <1>1, <1>4 DEF A!CreateSheet, DeskOK
  <2>2. PICK j : j = [desk[h] EXCEPT !.pc = "ensured"]
    OBVIOUS
  <2>3. /\ DOMAIN j = DeskSlots /\ j.pc = "ensured" /\ j.copy = desk[h].copy
        /\ j.kind = desk[h].kind /\ j.slot = desk[h].slot /\ j.learner = desk[h].learner
        /\ j.method = desk[h].method /\ j.checked = desk[h].checked
    BY <1>1, <2>2 DEF DeskOK, DeskSlots
  <2>4. DeskOK(j)
    BY <1>1, <2>1, <2>3 DEF DeskOK
  <2> QED BY <1>4, <2>1, <2>2, <2>4, DeskMoves DEF A!CreateSheet
<1> QED BY <1>2, <1>3, <1>4 DEF A!Ensure, A!MissSheet, A!FailRead

LEMMA DeskSteps ==
    ASSUME A!AttendanceConstants, AttendanceInv, NumbersInv, NEW h \in Handlers,
           \/ \E kind \in {"view", "countersign"} : A!BeginOnSheet(h, kind)
           \/ \E kind \in {"space", "register"}, id \in A!SlotIds, learner \in Attendees,
                 method \in Methods : A!BeginSign(h, kind, id, learner, method)
           \/ A!View(h) \/ A!CheckWindow(h) \/ A!GiveUp(h)
    PROVE  AttendanceOK /\ PresencesInv' /\ NumbersInv'
<1>1. DeskOK(desk[h])
  BY DEF AttendanceInv, DesksInv
<1>2. ASSUME NEW kind \in {"view", "countersign"}, A!BeginOnSheet(h, kind)
      PROVE  AttendanceOK /\ PresencesInv' /\ NumbersInv'
  BY <1>2, DeskIdleOK, DeskMoves DEF A!BeginOnSheet
<1>3. ASSUME NEW kind \in {"space", "register"}, NEW id \in A!SlotIds, NEW learner \in Attendees,
             NEW method \in Methods, A!BeginSign(h, kind, id, learner, method)
      PROVE  AttendanceOK /\ PresencesInv' /\ NumbersInv'
  <2>1. PICK j : j = [A!Idle EXCEPT !.pc = "ensure", !.kind = kind, !.slot = id, !.learner = learner,
                                    !.method = method]
    OBVIOUS
  <2>2. /\ DOMAIN j = DeskSlots /\ j.pc = "ensure" /\ j.copy = None
        /\ j.kind = kind /\ j.slot = id /\ j.learner = learner /\ j.method = method /\ j.checked = FALSE
    BY <2>1 DEF A!Idle, DeskSlots
  <2>3. DeskOK(j)
    BY <2>2 DEF DeskOK
  <2> QED BY <1>3, <2>1, <2>3, DeskMoves DEF A!BeginSign
<1>4. CASE A!View(h) \/ A!GiveUp(h)
  BY <1>4, DeskIdleOK, DeskMoves DEF A!View, A!GiveUp
<1>5. CASE A!CheckWindow(h)
  <2>1. PICK slot \in A!FindSlot(desk[h].copy.slots, desk[h].slot) : A!LearnerCanSign(session.mode, slot, now)
    BY <1>5 DEF A!CheckWindow
  <2>2. slot \in desk[h].copy.slots /\ slot.id = desk[h].slot
    BY <2>1 DEF A!FindSlot
  <2>3. /\ desk[h].pc = "ensured" /\ desk[h].kind = "space" /\ session.mode # "async"
        /\ now + A!SignOpensBefore >= slot.from
    BY <1>5, <2>1 DEF A!CheckWindow, A!LearnerCanSign
  <2>4. desk[h].copy.slots = A!HalfDaySlots(session)
    BY <1>1, <2>3 DEF DeskOK, ItemOK
  <2>5. Opened(desk[h].slot, now)
    BY <2>2, <2>3, <2>4 DEF Opened
  <2>6. PICK j : j = [desk[h] EXCEPT !.pc = "ensure", !.checked = TRUE]
    OBVIOUS
  <2>7. /\ DOMAIN j = DeskSlots /\ j.pc = "ensure" /\ j.copy = desk[h].copy
        /\ j.kind = "space" /\ j.slot = desk[h].slot /\ j.learner = desk[h].learner
        /\ j.method = desk[h].method /\ j.checked = TRUE
    BY <1>1, <2>3, <2>6 DEF DeskOK, DeskSlots
  <2>8. DeskOK(j)
    BY <1>1, <2>3, <2>5, <2>7 DEF DeskOK
  <2> QED BY <1>5, <2>6, <2>8, DeskMoves DEF A!CheckWindow
<1> QED BY <1>2, <1>3, <1>4, <1>5

LEMMA OtherAttendanceSteps ==
    ASSUME A!AttendanceConstants, AttendanceInv, NumbersInv,
           (\E m \in Modules : A!AddModule(m)) \/ A!Tick \/ UNCHANGED A!vars
    PROVE  AttendanceOK /\ PresencesInv' /\ NumbersInv'
<1>1. UNCHANGED <<session, sheet, entries, events, desk>>
  BY DEF A!AddModule, A!Tick, A!vars
<1>2. modules' \in Seq(Modules)
  <2>1. modules \in Seq(Modules)
    BY DEF AttendanceInv, AttendanceTypes
  <2>2. modules' = modules \/ \E m \in Modules : modules' = Append(modules, m)
    BY DEF A!AddModule, A!Tick, A!vars
  <2> QED BY <2>1, <2>2
<1>3. now \in Nat /\ now' \in Instants /\ now <= now'
  BY DEF AttendanceInv, AttendanceTypes, A!AttendanceConstants, A!AddModule, A!Tick, A!vars
<1>4. PresencesInv' /\ NumbersInv' /\ AttendanceEvents' = AttendanceEvents /\ A!Entries' = A!Entries
  BY <1>1, PresencesStay
<1>5. AttendanceTypes'
  BY <1>1, <1>2, <1>3, <1>4 DEF AttendanceInv, AttendanceTypes
<1>6. AttendanceGrows /\ AttendanceMoves
  BY <1>1, <1>3 DEF AttendanceGrows, AttendanceMoves
<1> QED BY <1>4, <1>5, <1>6 DEF AttendanceOK

-----------------------------------------------------------------------------
(* Attendance: the steps that write an event *)

LEMMA EventsGrow ==
    ASSUME AttendanceTypes, session' = session, NEW e \in AttendanceEvents, events' = Append(events, e)
    PROVE  /\ events' \in Seq(AttendanceEvents') /\ Len(events) \in Nat
           /\ DOMAIN events = 1 .. Len(events) /\ DOMAIN events' = DOMAIN events \cup {Len(events) + 1}
           /\ \A k \in DOMAIN events : events'[k] = events[k]
           /\ events'[Len(events) + 1] = e
<1>1. events \in Seq(AttendanceEvents) /\ AttendanceEvents' = AttendanceEvents
  BY SlotsStay DEF AttendanceTypes
<1>2. events' \in Seq(AttendanceEvents) /\ Len(events') = Len(events) + 1 /\ Len(events) \in Nat
  BY <1>1
<1>3. DOMAIN events = 1 .. Len(events) /\ DOMAIN events' = 1 .. Len(events) + 1
  BY <1>1, <1>2
<1>4. \A k \in DOMAIN events : events'[k] = events[k]
  BY <1>1
<1>5. events'[Len(events) + 1] = e
  BY <1>1
<1> QED BY <1>1, <1>2, <1>3, <1>4, <1>5

\* What a presence adds: itself and its event.
LEMMA SignAdds ==
    ASSUME A!AttendanceConstants, AttendanceInv, NEW h \in Handlers, A!Sign(h)
    PROVE  \E e \in A!Entries, v \in AttendanceEvents :
              /\ \A f \in entries : ~ (f.slot = e.slot /\ f.learner = e.learner)
              /\ entries' = entries \cup {e} /\ events' = Append(events, v)
              /\ e.own => Opened(e.slot, e.at)
              /\ v.what = "presence" /\ v.slot = e.slot /\ v.learner = e.learner
              /\ v.method = e.method /\ v.at = e.at
              /\ \E slot \in AllSlots : slot.id = v.slot /\ A!Hours(slot) = v.hours
<1>1. DeskOK(desk[h]) /\ AttendanceTypes
  BY DEF AttendanceInv, DesksInv
<1>2. PICK slot \in A!FindSlot(desk[h].copy.slots, desk[h].slot) :
          /\ entries' = entries \cup {[slot |-> desk[h].slot, learner |-> desk[h].learner,
                                       method |-> desk[h].method,
                                       own |-> desk[h].kind = "space", at |-> now]}
          /\ events' = Append(events, A!Event(desk[h], slot, now))
  BY DEF A!Sign
<1>3. slot \in desk[h].copy.slots /\ slot.id = desk[h].slot
  BY DEF A!FindSlot
<1>4. desk[h].pc = "ensured" /\ (desk[h].kind = "register" \/ desk[h].checked)
  BY DEF A!Sign
<1>5. PICK s \in A!SlotIds, l \in Attendees, m \in Methods, own \in BOOLEAN :
          /\ s = desk[h].slot /\ l = desk[h].learner /\ m = desk[h].method /\ own = (desk[h].kind = "space")
  BY <1>1, <1>4 DEF DeskOK
<1>6. slot \in AllSlots /\ s \in A!SlotIds /\ now \in Instants
  BY <1>1, <1>3, <1>4, <1>5 DEF DeskOK, ItemOK, AttendanceTypes
<1>7. PICK e : e = [slot |-> s, learner |-> l, method |-> m, own |-> own, at |-> now]
  OBVIOUS
<1>8. e \in A!Entries /\ e.slot = s /\ e.learner = l /\ e.method = m /\ e.own = own /\ e.at = now
  BY <1>6, <1>7 DEF A!Entries
<1>9. PICK v : v = [what |-> "presence", slot |-> s, learner |-> l, method |-> m,
                    hours |-> A!Hours(slot), at |-> now]
  OBVIOUS
<1>10. /\ v \in AttendanceEvents /\ v.what = "presence" /\ v.slot = s /\ v.learner = l
       /\ v.method = m /\ v.hours = A!Hours(slot) /\ v.at = now
  BY <1>6, <1>9 DEF AttendanceEvents
<1>11. entries' = entries \cup {e} /\ events' = Append(events, v)
  BY <1>2, <1>5, <1>7, <1>9 DEF A!Event
<1>12. \A f \in entries : ~ (f.slot = s /\ f.learner = l)
  BY <1>5 DEF A!Sign
<1>13. own => Opened(s, now)
  BY <1>1, <1>4, <1>5 DEF DeskOK
<1> QED BY <1>3, <1>5, <1>6, <1>8, <1>10, <1>11, <1>12, <1>13

LEMMA SignStep ==
    ASSUME A!AttendanceConstants, AttendanceInv, NumbersInv, NEW h \in Handlers, A!Sign(h)
    PROVE  AttendanceOK /\ PresencesInv' /\ NumbersInv'
<1>1. AttendanceTypes /\ PresencesInv
  BY DEF AttendanceInv
<1>2. UNCHANGED <<session, modules, now, sheet>> /\ A!Goto(h, [A!Idle EXCEPT !.pc = "done"])
  BY DEF A!Sign, A!Goto
<1>3. PICK e \in A!Entries, v \in AttendanceEvents :
          /\ \A f \in entries : ~ (f.slot = e.slot /\ f.learner = e.learner)
          /\ entries' = entries \cup {e} /\ events' = Append(events, v)
          /\ e.own => Opened(e.slot, e.at)
          /\ v.what = "presence" /\ v.slot = e.slot /\ v.learner = e.learner
          /\ v.method = e.method /\ v.at = e.at
          /\ \E slot \in AllSlots : slot.id = v.slot /\ A!Hours(slot) = v.hours
  BY SignAdds
<1>4. PICK n \in Nat : n = Len(events)
  BY <1>1, <1>2, <1>3, EventsGrow
<1>5. /\ events' \in Seq(AttendanceEvents') /\ DOMAIN events = 1 .. n
      /\ DOMAIN events' = DOMAIN events \cup {n + 1} /\ n + 1 \notin DOMAIN events
      /\ \A k \in DOMAIN events : events'[k] = events[k]
      /\ events'[n + 1] = v
  BY <1>1, <1>2, <1>3, <1>4, EventsGrow
<1>6. AllSlots' = AllSlots /\ A!Entries' = A!Entries
  BY <1>2, SlotsStay
<1>7. now \in Nat /\ now' = now
  BY <1>1, <1>2 DEF AttendanceTypes, A!AttendanceConstants
<1>8. AttendanceTypes'
  BY <1>1, <1>2, <1>3, <1>5, <1>6 DEF AttendanceTypes
<1>9. AttendanceGrows /\ AttendanceMoves
  BY <1>2, <1>5, <1>7, DeskIdleOK DEF AttendanceGrows, AttendanceMoves
<1>10. A!Presences' = A!Presences \cup {n + 1} /\ n + 1 \notin A!Presences
  BY <1>3, <1>5 DEF A!Presences
<1>11. \A k \in A!Presences : events'[k] = events[k] /\ k \in DOMAIN events
  BY <1>5 DEF A!Presences
<1>12. PresencesInv'
  <2>1. ASSUME NEW f \in entries'
        PROVE  /\ Journalled(f)' /\ (f.own => Opened(f.slot, f.at)')
               /\ \A g \in entries' : (f.slot = g.slot /\ f.learner = g.learner) => f = g
    <3>1. Journalled(f)'
      <4>1. CASE f \in entries
        <5>1. Journalled(f)
          BY <1>1, <4>1 DEF PresencesInv
        <5> QED BY <1>5, <5>1 DEF Journalled
      <4>2. CASE f = e
        BY <1>3, <1>5, <4>2 DEF Journalled
      <4> QED BY <1>3, <2>1, <4>1, <4>2
    <3>2. f.own => Opened(f.slot, f.at)'
      <4>1. f.own => Opened(f.slot, f.at)
        BY <1>1, <1>3, <2>1 DEF PresencesInv
      <4> QED BY <1>2, <4>1 DEF Opened
    <3>3. \A g \in entries' : (f.slot = g.slot /\ f.learner = g.learner) => f = g
      BY <1>1, <1>3, <2>1 DEF PresencesInv
    <3> QED BY <3>1, <3>2, <3>3
  <2>2. ASSUME NEW k \in A!Presences'
        PROVE  /\ \E f \in entries' : events'[k].slot = f.slot /\ events'[k].learner = f.learner
               /\ \E slot \in AllSlots : slot.id = events'[k].slot /\ A!Hours(slot) = events'[k].hours
    <3>1. CASE k \in A!Presences
      BY <1>1, <1>3, <1>11, <3>1 DEF PresencesInv
    <3>2. CASE k = n + 1
      BY <1>3, <1>5, <3>2
    <3> QED BY <1>10, <2>2, <3>1, <3>2
  <2>3. ASSUME NEW k \in A!Presences', NEW i \in A!Presences',
               events'[k].slot = events'[i].slot, events'[k].learner = events'[i].learner
        PROVE  k = i
    <3>1. \A x \in A!Presences : ~ (events[x].slot = v.slot /\ events[x].learner = v.learner)
      BY <1>1, <1>3 DEF PresencesInv
    <3> QED BY <1>1, <1>5, <1>10, <1>11, <2>3, <3>1 DEF PresencesInv
  <2> QED BY <1>6, <2>1, <2>2, <2>3 DEF PresencesInv, Journalled, Opened
<1>13. NumbersInv'
  <2>1. IsFiniteSet(A!Presences)
    <3>1. IsFiniteSet(1 .. n) /\ A!Presences \subseteq 1 .. n
      <4>1. IsFiniteSet(1 .. n)
        BY FS_Interval
      <4> QED BY <1>5, <4>1 DEF A!Presences
    <3> QED BY <3>1, FS_Subset
  <2>2. e \notin entries
    BY <1>3
  <2>3. IsFiniteSet(entries') /\ Cardinality(entries') = Cardinality(entries) + 1
    BY <1>3, <2>2, FS_AddElement DEF NumbersInv
  <2>4. PICK k : k = n + 1
    OBVIOUS
  <2>5. A!Presences' = A!Presences \cup {k} /\ k \notin A!Presences
    BY <1>10, <2>4
  <2>6. Cardinality(A!Presences \cup {k}) = Cardinality(A!Presences) + 1
    BY <2>1, <2>5, FS_AddElement
  <2> QED BY <2>3, <2>5, <2>6 DEF NumbersInv
<1> QED BY <1>8, <1>9, <1>12, <1>13 DEF AttendanceOK

LEMMA CountersignStep ==
    ASSUME A!AttendanceConstants, AttendanceInv, NumbersInv, NEW h \in Handlers, A!Countersign(h)
    PROVE  AttendanceOK /\ PresencesInv' /\ NumbersInv'
<1>1. AttendanceTypes /\ PresencesInv /\ DeskOK(desk[h])
  BY DEF AttendanceInv, DesksInv
<1>2. UNCHANGED <<session, modules, now, entries>> /\ A!Goto(h, [A!Idle EXCEPT !.pc = "done"])
  BY DEF A!Countersign, A!Goto
<1>3. PICK c \in A!SheetItem : c = desk[h].copy /\ ItemOK(c)
  BY <1>1 DEF A!Countersign, DeskOK, ItemOK
<1>4. PICK item : item = [c EXCEPT !.trainer = h]
  OBVIOUS
<1>5. item \in A!SheetItem /\ item.slots = c.slots /\ item.trainer = h
  BY <1>3, <1>4 DEF A!SheetItem
<1>6. PICK v : v = [what |-> "countersignature", trainer |-> h, slots |-> A!Cardinality(c.slots)]
  OBVIOUS
<1>7. c.slots \in SUBSET A!Slots
  BY <1>3 DEF A!SheetItem
<1>8. /\ v \in AttendanceEvents /\ v.what = "countersignature" /\ v.trainer = h
      /\ v.slots = A!Cardinality(c.slots)
  BY <1>6, <1>7 DEF AttendanceEvents
<1>9. sheet' = item /\ events' = Append(events, v)
  BY <1>3, <1>4, <1>6 DEF A!Countersign
<1>10. PICK n \in Nat : n = Len(events)
  BY <1>1, <1>2, <1>8, <1>9, EventsGrow
<1>11. /\ events' \in Seq(AttendanceEvents') /\ DOMAIN events = 1 .. n
       /\ DOMAIN events' = DOMAIN events \cup {n + 1}
       /\ \A k \in DOMAIN events : events'[k] = events[k]
       /\ events'[n + 1] = v
  BY <1>1, <1>2, <1>8, <1>9, <1>10, EventsGrow
<1>12. AllSlots' = AllSlots /\ A!Entries' = A!Entries
  BY <1>2, SlotsStay
<1>13. now \in Nat /\ now' = now
  BY <1>1, <1>2 DEF AttendanceTypes, A!AttendanceConstants
<1>14. AttendanceTypes'
  BY <1>1, <1>2, <1>11, <1>12 DEF AttendanceTypes
<1>15. ItemOK(item)'
  <2>1. Countersigned(item)'
    BY <1>5, <1>8, <1>11 DEF Countersigned
  <2>2. item.slots \subseteq AllSlots /\ (session.mode # "async" => item.slots = A!HalfDaySlots(session))
    BY <1>3, <1>5 DEF ItemOK
  <2> QED BY <1>2, <1>5, <1>12, <2>1, <2>2 DEF ItemOK
<1>16. AttendanceGrows /\ AttendanceMoves
  BY <1>2, <1>9, <1>11, <1>13, <1>15, DeskIdleOK DEF AttendanceGrows, AttendanceMoves
<1>17. A!Presences' = A!Presences
  BY <1>8, <1>11 DEF A!Presences
<1>18. \A k \in A!Presences : events'[k] = events[k]
  BY <1>11 DEF A!Presences
<1>19. PresencesInv'
  <2>1. ASSUME NEW f \in entries PROVE Journalled(f)' /\ (f.own => Opened(f.slot, f.at)')
    <3>1. Journalled(f) /\ (f.own => Opened(f.slot, f.at))
      BY <1>1 DEF PresencesInv
    <3> QED BY <1>2, <1>11, <3>1 DEF Journalled, Opened
  <2> QED BY <1>1, <1>2, <1>12, <1>17, <1>18, <2>1 DEF PresencesInv, Journalled, Opened
<1> QED BY <1>2, <1>14, <1>16, <1>17, <1>19 DEF AttendanceOK, NumbersInv

LEMMA AttendanceStep ==
    ASSUME A!AttendanceConstants, AttendanceInv, NumbersInv, [A!Next]_A!vars
    PROVE  AttendanceInv' /\ NumbersInv'
<1>1. AttendanceOK /\ PresencesInv' /\ NumbersInv'
  BY EnsureSteps, DeskSteps, SignStep, CountersignStep, OtherAttendanceSteps DEF A!Next, A!Handle
<1> QED BY <1>1, AttendanceKept DEF AttendanceInv

LEMMA AttendanceAlways == ASSUME A!AttendanceConstants PROVE A!Spec => [](AttendanceInv /\ NumbersInv)
<1>1. A!Init => AttendanceInv /\ NumbersInv
  BY AttendanceInit
<1>2. (AttendanceInv /\ NumbersInv) /\ [A!Next]_A!vars => (AttendanceInv /\ NumbersInv)'
  BY AttendanceStep
<1> QED BY <1>1, <1>2, PTL DEF A!Spec

\* A sheet has the half-days of its session.
THEOREM SheetsAlwaysCover == ASSUME A!AttendanceConstants PROVE A!Spec => []SheetCoversSession
<1>1. AttendanceInv => SheetCoversSession
  BY SessionFits, HalfDaysAre
     DEF AttendanceInv, AttendanceTypes, SheetInv, ItemOK, SessionOK, SheetCoversSession, A!SheetCoversSession
<1> QED BY <1>1, AttendanceAlways, PTL

\* Attendance counts as this module does.
LEMMA AttendanceCardinality == \A S : A!Cardinality(S) = Cardinality(S)
BY DEF A!Cardinality, Cardinality

\* Presences and their events go one to one, and what is billed is in the journal.
THEOREM PresencesAlwaysJournalled == ASSUME A!AttendanceConstants PROVE A!Spec => []PresencesJournalled
<1>1. ASSUME AttendanceInv, NumbersInv PROVE PresencesJournalled
  <2>1. AttendanceTypes /\ PresencesInv /\ SheetInv /\ DesksInv /\ SessionOK
    BY <1>1, SessionFits DEF AttendanceInv, AttendanceTypes
  <2>2. A!TypeOK
    <3>1. ASSUME NEW item, item # None, ItemOK(item)
          PROVE  /\ item \in A!SheetItem
                 /\ \A slot \in item.slots : slot.id \in A!SlotIds /\ slot.from < slot.to
                 /\ \A slot, other \in item.slots : slot.id = other.id => slot = other
      BY <2>1, <3>1, SlotFacts DEF ItemOK
    <3>2. \A item \in {sheet} \cup {desk[h].copy : h \in Handlers} : item # None => ItemOK(item)
      BY <2>1 DEF SheetInv, DesksInv, DeskOK
    <3>3. \A e, f \in entries : <<e.slot, e.learner>> = <<f.slot, f.learner>> => e = f
      BY <2>1 DEF PresencesInv
    <3>4. \A h \in Handlers : desk[h].pc \in {"idle", "ensure", "create", "ensured", "done"}
      BY <2>1 DEF DesksInv, DeskOK
    <3> QED BY <2>1, <3>1, <3>2, <3>3, <3>4 DEF A!TypeOK, AttendanceTypes
  <2>3. ASSUME NEW e \in entries
        PROVE  A!Cardinality({k \in A!Presences :
                   A!PresenceOf(events[k]) = [slot |-> e.slot, learner |-> e.learner,
                                              method |-> e.method, at |-> e.at]}) = 1
    <3>1. PICK k \in DOMAIN events : /\ events[k].what = "presence" /\ events[k].slot = e.slot
                             /\ events[k].learner = e.learner /\ events[k].method = e.method
                             /\ events[k].at = e.at
      BY <2>1 DEF PresencesInv, Journalled
    <3>2. k \in A!Presences
      BY <3>1 DEF A!Presences
    <3>3. PICK S : S = {i \in A!Presences :
                   A!PresenceOf(events[i]) = [slot |-> e.slot, learner |-> e.learner,
                                              method |-> e.method, at |-> e.at]}
      OBVIOUS
    <3>4. k \in S
      BY <3>1, <3>2, <3>3 DEF A!PresenceOf
    <3>5. \A i \in S : i = k
      BY <2>1, <3>1, <3>2, <3>3 DEF A!PresenceOf, PresencesInv
    <3>6. S = {} \cup {k}
      BY <3>4, <3>5
    <3>7. Cardinality(S) = 1
      BY <3>6, FS_EmptySet, FS_AddElement
    <3> QED BY <3>3, <3>7, AttendanceCardinality
  <2>4. A!Cardinality(A!Presences) = A!Cardinality(entries)
    BY <1>1, AttendanceCardinality DEF NumbersInv
  <2>5. ASSUME NEW e \in entries, e.own
        PROVE  /\ session.mode # "async"
               /\ \E slot \in A!HalfDaySlots(session) :
                      slot.id = e.slot /\ e.at + A!SignOpensBefore >= slot.from
    BY <2>1, <2>5 DEF PresencesInv, Opened
  <2>6. ASSUME sheet # None, sheet.trainer # None
        PROVE  \E k \in DOMAIN events \ A!Presences :
                  /\ events[k].trainer = sheet.trainer
                  /\ events[k].slots = A!Cardinality(sheet.slots)
    BY <2>1, <2>6 DEF SheetInv, ItemOK, Countersigned, A!Presences
  <2>7. ASSUME sheet # None, NEW learner \in Attendees,
               NEW slot \in A!AttendedSlots(sheet, entries, learner)
        PROVE  \E k \in A!Presences : /\ events[k].slot = slot.id /\ events[k].learner = learner
                                      /\ events[k].method # "absent"
                                      /\ events[k].hours = A!Hours(slot)
    <3>1. PICK e \in entries : slot \in sheet.slots /\ e.slot = slot.id /\ e.learner = learner /\ e.method # "absent"
      BY <2>7 DEF A!AttendedSlots
    <3>2. slot \in AllSlots
      BY <2>1, <2>7, <3>1 DEF SheetInv, ItemOK
    <3>3. PICK k \in DOMAIN events : /\ events[k].what = "presence" /\ events[k].slot = e.slot
                             /\ events[k].learner = e.learner /\ events[k].method = e.method
      BY <2>1 DEF PresencesInv, Journalled
    <3>4. k \in A!Presences
      BY <3>3 DEF A!Presences
    <3>5. PICK other \in AllSlots : other.id = events[k].slot /\ A!Hours(other) = events[k].hours
      BY <2>1, <3>4 DEF PresencesInv
    <3>6. other = slot
      BY <2>1, <3>1, <3>2, <3>3, <3>5, SlotFacts
    <3> QED BY <3>1, <3>3, <3>4, <3>5, <3>6
  <2> QED BY <2>2, <2>3, <2>4, <2>5, <2>6, <2>7 DEF PresencesJournalled, A!PresencesJournalled
<1> QED BY <1>1, AttendanceAlways, PTL

\* A settled sheet stays so, unless a read of it fails.
LEMMA SettledStep ==
    ASSUME A!AttendanceConstants, AttendanceInv, [A!Next]_A!vars
    PROVE  A!StaysSettled
<1> DEFINE Still == /\ A!Settled' /\ sheet'.slots = sheet.slots
                    /\ \/ sheet.trainer = None \/ sheet'.trainer = sheet.trainer
                       \/ \E g \in Handlers : A!CountersignedUnseen(g)
<1>1. SUFFICES ASSUME A!Settled, ~ \E h \in Handlers : A!FailRead(h)
               PROVE  Still
  BY DEF A!StaysSettled
<1>2. ASSUME NEW h \in Handlers, NEW j, A!Goto(h, j), sheet' = sheet,
             /\ j.pc # "create"
             /\ (j.pc = "ensured" /\ j.kind = "countersign") => j.copy.slots = sheet.slots
      PROVE  Still
  BY <1>1, <1>2 DEF A!Settled, A!Goto, AttendanceInv, DesksInv
<1>3. ASSUME UNCHANGED <<sheet, desk>>
      PROVE  Still
  BY <1>1, <1>3 DEF A!Settled
<1>4. ASSUME NEW h \in Handlers, A!Handle(h)
      PROVE  Still
  <2>1. DeskOK(desk[h]) /\ sheet # None /\ desk[h].pc # "create"
    BY <1>1 DEF AttendanceInv, DesksInv, A!Settled
  <2>2. CASE A!ReadSheet(h)
    <3>1. PICK j : j = [desk[h] EXCEPT !.pc = "ensured", !.copy = sheet]
      OBVIOUS
    <3>2. j.pc = "ensured" /\ j.copy = sheet
      BY <2>1, <3>1 DEF DeskOK, DeskSlots
    <3> QED BY <1>2, <2>2, <3>1, <3>2 DEF A!ReadSheet
  <2>3. ASSUME A!Ensure(h), ~ A!ReadSheet(h) PROVE FALSE
    BY <1>1, <2>1, <2>3 DEF A!Ensure, A!MissSheet, A!CreateSheet
  <2>4. ASSUME NEW j, A!Goto(h, j), sheet' = sheet, j.pc \notin {"create", "ensured"}
        PROVE  Still
    BY <1>2, <2>4
  <2>5. CASE A!View(h) \/ A!Sign(h) \/ A!GiveUp(h)
    BY <2>4, <2>5 DEF A!View, A!Sign, A!GiveUp, A!Idle
  <2>6. CASE \E kind \in {"view", "countersign"} : A!BeginOnSheet(h, kind)
    BY <2>4, <2>6 DEF A!BeginOnSheet, A!Idle
  <2>7. CASE \E kind \in {"space", "register"}, id \in A!SlotIds, learner \in Attendees,
                method \in Methods : A!BeginSign(h, kind, id, learner, method)
    <3>1. PICK kind, id, learner, method : A!BeginSign(h, kind, id, learner, method)
      BY <2>7
    <3>2. PICK j : j = [A!Idle EXCEPT !.pc = "ensure", !.kind = kind, !.slot = id, !.learner = learner,
                                      !.method = method]
      OBVIOUS
    <3>3. j.pc = "ensure"
      BY <3>2 DEF A!Idle
    <3> QED BY <2>4, <3>1, <3>2, <3>3 DEF A!BeginSign
  <2>8. CASE A!CheckWindow(h)
    <3>1. PICK j : j = [desk[h] EXCEPT !.pc = "ensure", !.checked = TRUE]
      OBVIOUS
    <3>2. j.pc = "ensure"
      BY <2>1, <3>1 DEF DeskOK, DeskSlots
    <3> QED BY <2>4, <2>8, <3>1, <3>2 DEF A!CheckWindow
  <2>9. CASE A!Countersign(h)
    <3>1. desk[h].pc = "ensured" /\ desk[h].kind = "countersign"
      BY <2>9 DEF A!Countersign
    <3>2. PICK c \in A!SheetItem : c = desk[h].copy /\ c.slots = sheet.slots
      BY <1>1, <2>1, <3>1 DEF DeskOK, ItemOK, A!Settled
    <3>3. PICK item : item = [c EXCEPT !.trainer = h]
      OBVIOUS
    <3>4. item \in A!SheetItem /\ item.slots = c.slots /\ item.trainer = h
      BY <3>2, <3>3 DEF A!SheetItem
    <3>5. item # None /\ h # None
      BY <3>4 DEF A!AttendanceConstants
    <3>6. sheet' = item /\ A!Goto(h, [A!Idle EXCEPT !.pc = "done"])
      BY <2>9, <3>2, <3>3 DEF A!Countersign
    <3>7. PICK j : j = [A!Idle EXCEPT !.pc = "done"]
      OBVIOUS
    <3>8. j.pc = "done" /\ \A g \in Handlers : desk'[g] = IF g = h THEN j ELSE desk[g]
      BY <3>6, <3>7 DEF A!Idle, A!Goto, AttendanceInv, DesksInv
    <3>9. A!Settled'
      BY <1>1, <3>2, <3>4, <3>5, <3>6, <3>8 DEF A!Settled
    <3>10. A!CountersignedUnseen(h)
      BY <2>9, <3>1, <3>4, <3>6, <3>8 DEF A!CountersignedUnseen, A!Countersign
    <3> QED BY <3>2, <3>4, <3>6, <3>9, <3>10
  <2> QED BY <1>4, <2>2, <2>3, <2>5, <2>6, <2>7, <2>8, <2>9 DEF A!Handle
<1>5. ASSUME (\E m \in Modules : A!AddModule(m)) \/ A!Tick \/ UNCHANGED A!vars PROVE UNCHANGED <<sheet, desk>>
  BY <1>5 DEF A!AddModule, A!Tick, A!vars
<1> QED BY <1>3, <1>4, <1>5 DEF A!Next

\* Once the first displays are over, a sheet keeps its slots and is never without its
\* countersignature again, which only a handler that had not seen it replaces, unless a read
\* of it fails (attendance/attendance.go:162-196, 329-357).
THEOREM SheetsAlwaysSettle == ASSUME A!AttendanceConstants PROVE A!Spec => SheetSettles
<1>1. AttendanceInv /\ [A!Next]_A!vars => A!StaysSettled
  BY SettledStep
<1>2. A!Spec => []AttendanceInv
  BY AttendanceAlways, PTL
<1> QED BY <1>1, <1>2, PTL DEF A!Spec, SheetSettles, A!SheetSettles
=============================================================================
