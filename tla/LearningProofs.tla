--------------------------- MODULE LearningProofs ---------------------------
(***************************************************************************)
(* Proofs about Learning, for every module, every set of handlers and of   *)
(* signals, every number of attempts and every horizon.                    *)
(***************************************************************************)
EXTENDS Learning, FiniteSetTheorems, SequenceTheorems, WellFoundedInduction, TLAPS

-----------------------------------------------------------------------------
(* Coverage *)

LEMMA SegmentCountIsNat == SegmentCount \in Nat
BY CoverageConstants DEF SegmentCount

\* A count of slices is at most the slices of the module.
LEMMA CoveredIsBounded ==
    ASSUME NEW c, c.segments \subseteq 0 .. SegmentCount - 1
    PROVE  CoveredSegments(c) \in 0 .. SegmentCount
<1>1. IsFiniteSet(0 .. SegmentCount - 1) /\ Cardinality(0 .. SegmentCount - 1) <= SegmentCount
  <2>1. PICK n \in Nat : n = SegmentCount
    BY SegmentCountIsNat
  <2>2. 0 \in Int /\ n - 1 \in Int
    OBVIOUS
  <2>3. /\ IsFiniteSet(0 .. n - 1)
        /\ Cardinality(0 .. n - 1) = IF 0 > n - 1 THEN 0 ELSE n - 1 - 0 + 1
    BY <2>2, FS_Interval
  <2>4. (IF 0 > n - 1 THEN 0 ELSE n - 1 - 0 + 1) <= n
    OBVIOUS
  <2> QED BY <2>1, <2>3, <2>4
<1>2. /\ IsFiniteSet(c.segments)
      /\ Cardinality(c.segments) <= Cardinality(0 .. SegmentCount - 1)
  BY <1>1, FS_Subset
<1>3. Cardinality(c.segments) \in Nat /\ Cardinality(0 .. SegmentCount - 1) \in Nat
  BY <1>1, <1>2, FS_CardinalityType
<1> QED BY <1>1, <1>2, <1>3, SegmentCountIsNat DEF CoveredSegments

LEMMA PlayedIsInt ==
    ASSUME NEW beat \in Beats \cup {NoBeat}
    PROVE  Played(beat) \in Int
BY CoverageConstants, LearningConstants DEF Played, Lesser, NoBeat

\* A signal keeps a record well formed, its slices within the module.
LEMMA ApplyKeepsRecord ==
    ASSUME NEW c \in Record, NEW beat \in Beats \cup {NoBeat}, NEW at \in 0 .. Horizon
    PROVE  Apply(c, beat, at) \in Record
<1>1. Touched(beat) \subseteq 0 .. SegmentCount - 1
  BY DEF Touched
<1>2. Played(beat) \in Int
  BY PlayedIsInt
<1>3. c \in Record /\ c.segments \cup Touched(beat) \in SUBSET (0 .. SegmentCount - 1)
  BY <1>1 DEF Record
<1>4. c.watched + Played(beat) \in Int
  BY <1>2 DEF Record
<1>5. (IF c.started THEN c.firstAt ELSE at) \in 0 .. Horizon
  BY DEF Record
<1>6. CASE Accepted(c, beat, at)
  BY <1>3, <1>4, <1>5, <1>6 DEF Apply, Record
<1>7. CASE ~ Accepted(c, beat, at)
  BY <1>7 DEF Apply
<1> QED BY <1>6, <1>7

LEMMA NewRecords == NewCoverage \in Record /\ NoCoverage \in Record
<1>1. 0 \in 0 .. Horizon /\ 0 \in Int
  BY LearningConstants
<1>2. {} \in SUBSET (0 .. SegmentCount - 1)
  OBVIOUS
<1>3. NewCoverage \in Record
  BY <1>1, <1>2 DEF NewCoverage, Record
<1>4. NoCoverage \in Record
  BY <1>3 DEF NoCoverage, Record
<1> QED BY <1>3, <1>4

LEMMA NewProgress == NewEnrollment \in Progress
BY SegmentCountIsNat DEF NewEnrollment, Progress

\* What is carried over to the enrollment is a progress.
LEMMA ApplyProgressKeepsProgress ==
    ASSUME NEW copy \in Progress, NEW c \in Record, NEW graded \in BOOLEAN, NEW passed \in BOOLEAN
    PROVE  /\ Report(copy, c, graded, passed) \in Progress
           /\ ApplyProgress(copy, c, graded, passed) \in Progress
<1>1. CoveredSegments(c) \in 0 .. SegmentCount
  BY CoveredIsBounded DEF Record
<1>2. Report(copy, c, graded, passed) \in Progress
  BY <1>1 DEF Report, Progress
<1>3. Complete(Report(copy, c, graded, passed)) \in BOOLEAN
  BY <1>2 DEF Complete, Progress
<1> QED BY <1>2, <1>3 DEF ApplyProgress, Progress

-----------------------------------------------------------------------------
(* Type correctness *)

\* A submission numbers its attempt at most one above what is stored, for good: attempts
\* are never removed; and its quiz allows that number.
NumberInOrder ==
    \A h \in Handlers :
        job[h].pc \in {"grade", "coverage", "submit"} =>
            /\ job[h].quiz \in Quizzes /\ job[h].number \in 1 .. Len(attempts[job[h].quiz]) + 1
            /\ Allowed(job[h].quiz, job[h].number)

TypeInv == TypeOK /\ NumberInOrder

LEMMA GrownByOne ==
    ASSUME NEW S, NEW s \in Seq(S), NEW e \in S
    PROVE  /\ Append(s, e) \in Seq(S) /\ Len(Append(s, e)) = Len(s) + 1
           /\ DOMAIN Append(s, e) = 1 .. Len(s) + 1
           /\ \A i \in 1 .. Len(s) : Append(s, e)[i] = s[i]
           /\ Append(s, e)[Len(s) + 1] = e
OBVIOUS

LEMMA GrownByTwo ==
    ASSUME NEW S, NEW s \in Seq(S), NEW e \in S, NEW f \in S
    PROVE  /\ s \o <<e, f>> \in Seq(S) /\ Len(s \o <<e, f>>) = Len(s) + 2
           /\ DOMAIN (s \o <<e, f>>) = 1 .. Len(s) + 2
           /\ \A i \in 1 .. Len(s) : (s \o <<e, f>>)[i] = s[i]
           /\ (s \o <<e, f>>)[Len(s) + 1] = e
           /\ (s \o <<e, f>>)[Len(s) + 2] = f
<1> DEFINE p == <<e, f>>
<1>1. p \in Seq(S) /\ Len(p) = 2 /\ p[1] = e /\ p[2] = f
  OBVIOUS
<1> HIDE DEF p
<1>2. /\ s \o p \in Seq(S) /\ Len(s \o p) = Len(s) + Len(p)
      /\ \A i \in 1 .. Len(s) + Len(p) : (s \o p)[i] = IF i <= Len(s) THEN s[i] ELSE p[i - Len(s)]
  BY <1>1, ConcatProperties
<1>3. PICK n \in Nat : n = Len(s)
  OBVIOUS
<1>4. /\ n + 1 \in 1 .. n + 2 /\ ~ (n + 1 <= n) /\ n + 1 - n = 1
      /\ n + 2 \in 1 .. n + 2 /\ ~ (n + 2 <= n) /\ n + 2 - n = 2
      /\ \A i \in 1 .. n : i \in 1 .. n + 2 /\ i <= n
  OBVIOUS
<1>5. (s \o p)[n + 1] = p[1] /\ (s \o p)[n + 2] = p[2]
  BY <1>1, <1>2, <1>3, <1>4
<1>6. \A i \in 1 .. Len(s) : (s \o p)[i] = s[i]
  BY <1>1, <1>2, <1>3, <1>4
<1>7. DOMAIN (s \o p) = 1 .. Len(s \o p)
  BY <1>2
<1> QED BY <1>1, <1>2, <1>3, <1>5, <1>6, <1>7 DEF p

\* A copy put under its number keeps the attempts a sequence.
LEMMA PutKeepsSequence ==
    ASSUME NEW S, NEW s \in Seq(S), NEW n \in 1 .. Len(s) + 1, NEW e \in S
    PROVE  LET t == [i \in DOMAIN s \cup {n} |-> IF i = n THEN e ELSE s[i]]
           IN  /\ t \in Seq(S)
               /\ Len(t) = IF n <= Len(s) THEN Len(s) ELSE n
               /\ DOMAIN t = DOMAIN s \cup {n}
<1> DEFINE t == [i \in DOMAIN s \cup {n} |-> IF i = n THEN e ELSE s[i]]
           m == IF n <= Len(s) THEN Len(s) ELSE n
<1>1. Len(s) \in Nat /\ DOMAIN s = 1 .. Len(s)
  OBVIOUS
<1>2. m \in Nat /\ DOMAIN s \cup {n} = 1 .. m
  BY <1>1
<1>3. \A i \in 1 .. m : (IF i = n THEN e ELSE s[i]) \in S
  BY <1>1, <1>2
<1>4. t = [i \in 1 .. m |-> IF i = n THEN e ELSE s[i]]
  BY <1>2
<1> HIDE DEF m
<1>5. t \in Seq(S) /\ Len(t) = m
  BY <1>2, <1>3, <1>4
<1> QED BY <1>5 DEF m

\* What a submission writes is well typed.
LEMMA SubmissionTyped ==
    ASSUME TypeInv, NEW h \in Handlers, job[h].pc = "submit"
    PROVE  /\ job[h] \in Job /\ job[h].quiz \in Quizzes
           /\ Stored(h) \in Seq(Handlers)
           /\ Len(Stored(h)) >= Len(attempts[job[h].quiz])
           /\ Graded(h) \in Progress
           /\ Submitted(h) \in Event
           /\ Completed(h, Graded(h).covered) \in Event
<1>1. job[h] \in Job
  BY DEF TypeInv, TypeOK
<1>2. job[h].quiz \in Quizzes /\ job[h].number \in 1 .. Len(attempts[job[h].quiz]) + 1
  BY DEF TypeInv, NumberInOrder
<1>3. attempts[job[h].quiz] \in Seq(Handlers)
  BY <1>2 DEF TypeInv, TypeOK
<1>4. Stored(h) \in Seq(Handlers) /\ Len(Stored(h)) >= Len(attempts[job[h].quiz])
  <2>1. PICK s \in Seq(Handlers) : s = attempts[job[h].quiz]
    BY <1>3
  <2>2. PICK n \in 1 .. Len(s) + 1 : n = job[h].number
    BY <1>2, <2>1
  <2> DEFINE t == [i \in DOMAIN s \cup {n} |-> IF i = n THEN h ELSE s[i]]
  <2>3. Stored(h) = t
    BY <2>1, <2>2 DEF Stored
  <2>4. t \in Seq(Handlers) /\ Len(t) = IF n <= Len(s) THEN Len(s) ELSE n
    BY PutKeepsSequence
  <2> HIDE DEF t
  <2>5. Len(t) >= Len(s)
    BY <2>4
  <2> QED BY <2>1, <2>3, <2>4, <2>5
<1>5. Graded(h) \in Progress
  <2>1. job[h].copy \in Progress /\ job[h].seen \in Record /\ job[h].passed \in BOOLEAN
    BY <1>1 DEF Job
  <2>2. ApplyProgress(job[h].copy, job[h].seen, TRUE, job[h].passed) \in Progress
    BY <2>1, ApplyProgressKeepsProgress
  <2>3. /\ [job[h].copy EXCEPT !.positioned = TRUE] \in Progress
        /\ [job[h].copy EXCEPT !.finalPassed = job[h].passed] \in Progress
    BY <2>1 DEF Progress
  <2>4. job[h].quiz \in AllQuizzes
    BY <1>1 DEF Job
  <2> QED BY <2>1, <2>2, <2>3, <2>4 DEF Graded, AllQuizzes
<1>6. Submitted(h) \in Event
  BY <1>1, SegmentCountIsNat DEF Submitted, Event, Job
<1>7. Completed(h, Graded(h).covered) \in Event
  BY <1>5, LearningConstants DEF Completed, Event, Progress, AllQuizzes
<1> QED BY <1>1, <1>2, <1>4, <1>5, <1>6, <1>7

\* A signal's write of the enrollment is well typed.
LEMMA ProgressTyped ==
    ASSUME TypeInv, NEW h \in Handlers
    PROVE  LET e == ApplyProgress(job[h].copy, job[h].seen, FALSE, FALSE)
           IN  e \in Progress /\ Completed(h, e.covered) \in Event
<1> DEFINE e == ApplyProgress(job[h].copy, job[h].seen, FALSE, FALSE)
<1>1. job[h].copy \in Progress /\ job[h].seen \in Record
  BY DEF TypeInv, TypeOK, Job
<1>2. e \in Progress
  BY <1>1, ApplyProgressKeepsProgress
<1> HIDE DEF e
<1>3. Completed(h, e.covered) \in Event
  BY <1>2, LearningConstants DEF Completed, Event, Progress, AllQuizzes
<1> QED BY <1>2, <1>3 DEF e

\* One handler moves on with a well typed record, and no attempt is removed.
LEMMA OneJobMoves ==
    ASSUME TypeInv, NEW h \in Handlers, NEW j \in Job, job' = [job EXCEPT ![h] = j],
           attempts' \in [Quizzes -> Seq(Handlers)],
           \A quiz \in Quizzes : Len(attempts'[quiz]) >= Len(attempts[quiz]),
           j.pc \in {"grade", "coverage", "submit"} =>
               /\ j.quiz \in Quizzes /\ j.number \in 1 .. Len(attempts[j.quiz]) + 1
               /\ Allowed(j.quiz, j.number)
    PROVE  job' \in [Handlers -> Job] /\ NumberInOrder'
<1>1. job \in [Handlers -> Job] /\ attempts \in [Quizzes -> Seq(Handlers)]
  BY DEF TypeInv, TypeOK
<1>2. job' \in [Handlers -> Job] /\ \A g \in Handlers : job'[g] = IF g = h THEN j ELSE job[g]
  BY <1>1
<1>3. \A quiz \in Quizzes : Len(attempts'[quiz]) \in Nat /\ Len(attempts[quiz]) \in Nat
  BY <1>1
<1>4. ASSUME NEW g \in Handlers, job'[g].pc \in {"grade", "coverage", "submit"}
      PROVE  /\ job'[g].quiz \in Quizzes /\ job'[g].number \in 1 .. Len(attempts'[job'[g].quiz]) + 1
             /\ Allowed(job'[g].quiz, job'[g].number)
  <2>1. /\ job'[g].quiz \in Quizzes /\ job'[g].number \in 1 .. Len(attempts[job'[g].quiz]) + 1
        /\ Allowed(job'[g].quiz, job'[g].number)
    BY <1>2, <1>4 DEF TypeInv, NumberInOrder
  <2>2. PICK m \in Nat, n \in Nat : /\ m = Len(attempts[job'[g].quiz])
                                   /\ n = Len(attempts'[job'[g].quiz]) /\ n >= m
    BY <1>3, <2>1
  <2> QED BY <2>1, <2>2
<1> QED BY <1>2, <1>4 DEF NumberInOrder

\* The same when the attempts do not change.
LEMMA OneJobOnly ==
    ASSUME TypeInv, NEW h \in Handlers, NEW j \in Job, job' = [job EXCEPT ![h] = j],
           UNCHANGED attempts,
           j.pc \in {"grade", "coverage", "submit"} =>
               /\ j.quiz \in Quizzes /\ j.number \in 1 .. Len(attempts[j.quiz]) + 1
               /\ Allowed(j.quiz, j.number)
    PROVE  job' \in [Handlers -> Job] /\ NumberInOrder'
<1>1. attempts \in [Quizzes -> Seq(Handlers)]
  BY DEF TypeInv, TypeOK
<1>2. \A quiz \in Quizzes : Len(attempts'[quiz]) >= Len(attempts[quiz])
  <2>1. \A quiz \in Quizzes : Len(attempts[quiz]) \in Nat
    BY <1>1
  <2> QED BY <2>1
<1> QED BY <1>1, <1>2, OneJobMoves

LEMMA IdleTyped ==
    /\ Idle \in Job
    /\ Idle.pc = "idle" /\ Idle.copy = NewEnrollment
<1>1. 0 \in 0 .. Horizon
  BY LearningConstants
<1> QED BY <1>1, NewRecords, NewProgress DEF Idle, Job, Places, AllQuizzes

LEMMA TypeInit == Init => TypeInv
<1> SUFFICES ASSUME Init PROVE TypeInv
  OBVIOUS
<1>1. clock \in 0 .. Horizon
  BY LearningConstants DEF Init
<1>2. watch \in Record /\ enrollment \in Progress
  BY NewRecords, NewProgress DEF Init
<1>3. attempts \in [Quizzes -> Seq(Handlers)] /\ chain \in Seq(Event)
  BY DEF Init
<1>4. job \in [Handlers -> Job] /\ \A h \in Handlers : job[h].pc = "idle"
  BY IdleTyped DEF Init
<1> QED BY <1>1, <1>2, <1>3, <1>4 DEF TypeInv, TypeOK, NumberInOrder

LEMMA TypeStep == TypeInv /\ [Next]_vars => TypeInv'
<1> SUFFICES ASSUME TypeInv, [Next]_vars PROVE TypeInv'
  OBVIOUS
<1>0. /\ clock \in 0 .. Horizon /\ watch \in Record /\ enrollment \in Progress
      /\ attempts \in [Quizzes -> Seq(Handlers)] /\ chain \in Seq(Event)
      /\ job \in [Handlers -> Job]
  BY DEF TypeInv, TypeOK
<1>1. ASSUME NEW h \in Handlers, NEW beat \in Beats, ReadWatch(h, beat)
      PROVE  TypeInv'
  <2> DEFINE j == [Idle EXCEPT !.pc = "watch", !.beat = beat, !.now = clock, !.seen = Loaded]
  <2>1. Loaded \in Record
    BY <1>0 DEF Loaded, Record
  <2>2. j \in Job /\ j.pc = "watch"
    BY <1>0, <2>1, IdleTyped DEF Job, Places
  <2>3. job' = [job EXCEPT ![h] = j] /\ UNCHANGED <<clock, watch, enrollment, attempts, chain>>
    BY <1>1 DEF ReadWatch
  <2> HIDE DEF j
  <2>4. job' \in [Handlers -> Job] /\ NumberInOrder'
    BY <2>2, <2>3, OneJobOnly
  <2> QED BY <1>0, <2>3, <2>4 DEF TypeInv, TypeOK
<1>2. ASSUME NEW h \in Handlers, PutWatch(h)
      PROVE  TypeInv'
  <2>1. PICK at \in job[h].now .. clock :
          /\ watch' = Apply(job[h].seen, job[h].beat, at)
          /\ job' = [job EXCEPT ![h].seen = Apply(job[h].seen, job[h].beat, at),
                                ![h].accepted = Accepted(job[h].seen, job[h].beat, at),
                                ![h].pc = IF Accepted(job[h].seen, job[h].beat, at)
                                          THEN "enrollment" ELSE "refused"]
    BY <1>2 DEF PutWatch
  <2> DEFINE c == Apply(job[h].seen, job[h].beat, at)
             a == Accepted(job[h].seen, job[h].beat, at)
             j == [job[h] EXCEPT !.seen = c, !.accepted = a,
                                 !.pc = IF a THEN "enrollment" ELSE "refused"]
  <2>2. job[h] \in Job /\ at \in 0 .. Horizon
    BY <1>0, LearningConstants DEF Job
  <2>3. c \in Record
    BY <2>2, ApplyKeepsRecord DEF Job
  <2>4. a \in BOOLEAN
    BY DEF Accepted
  <2>5. job' = [job EXCEPT ![h] = j]
    BY <1>0, <2>1, <2>2 DEF Job
  <2> HIDE DEF c, a
  <2>6. j \in Job /\ j.pc \in {"enrollment", "refused"}
    BY <2>2, <2>3, <2>4 DEF Job, Places
  <2> HIDE DEF j
  <2>7. UNCHANGED <<clock, enrollment, attempts, chain>>
    BY <1>2 DEF PutWatch
  <2>8. job' \in [Handlers -> Job] /\ NumberInOrder'
    BY <2>5, <2>6, <2>7, OneJobOnly
  <2> QED BY <1>0, <2>1, <2>3, <2>7, <2>8 DEF TypeInv, TypeOK, c
<1>3. ASSUME NEW h \in Handlers, ReadEnrollment(h)
      PROVE  TypeInv'
  <2> DEFINE j == [job[h] EXCEPT !.pc = "progress", !.copy = enrollment]
  <2>1. j \in Job /\ j.pc = "progress"
    BY <1>0 DEF Job, Places
  <2>2. job' = [job EXCEPT ![h] = j] /\ UNCHANGED <<clock, watch, enrollment, attempts, chain>>
    BY <1>0, <1>3 DEF ReadEnrollment, Job
  <2> HIDE DEF j
  <2>3. job' \in [Handlers -> Job] /\ NumberInOrder'
    BY <2>1, <2>2, OneJobOnly
  <2> QED BY <1>0, <2>2, <2>3 DEF TypeInv, TypeOK
<1>4. ASSUME NEW h \in Handlers, PutProgress(h)
      PROVE  TypeInv'
  <2> DEFINE j == [job[h] EXCEPT !.pc = "done"]
             e == ApplyProgress(job[h].copy, job[h].seen, FALSE, FALSE)
  <2>1. j \in Job /\ j.pc = "done"
    BY <1>0 DEF Job, Places
  <2>2. job' = [job EXCEPT ![h] = j] /\ UNCHANGED <<clock, watch, attempts>>
    BY <1>4 DEF PutProgress
  <2>3. enrollment' = e /\ chain' \in {chain, Append(chain, Completed(h, e.covered))}
    BY <1>4 DEF PutProgress
  <2>4. e \in Progress /\ Completed(h, e.covered) \in Event
    BY ProgressTyped
  <2> HIDE DEF j, e
  <2>5. job' \in [Handlers -> Job] /\ NumberInOrder'
    BY <2>1, <2>2, OneJobOnly
  <2>6. chain' \in Seq(Event)
    BY <1>0, <2>3, <2>4
  <2> QED BY <1>0, <2>2, <2>3, <2>4, <2>5, <2>6 DEF TypeInv, TypeOK
<1>5. ASSUME NEW h \in Handlers, NEW quiz \in Quizzes, NEW passed \in BOOLEAN,
             CountAttempts(h, quiz, passed)
      PROVE  TypeInv'
  <2>1. PICK counted \in 0 .. Len(attempts[quiz]) :
          /\ Allowed(quiz, counted + 1)
          /\ job' = [job EXCEPT ![h] = [Idle EXCEPT !.pc = "grade", !.kind = "quiz", !.quiz = quiz,
                                                    !.passed = passed, !.number = counted + 1]]
    BY <1>5 DEF CountAttempts
  <2> DEFINE j == [Idle EXCEPT !.pc = "grade", !.kind = "quiz", !.quiz = quiz,
                               !.passed = passed, !.number = counted + 1]
  <2>2. Len(attempts[quiz]) \in Nat
    BY <1>0
  <2>3. /\ counted + 1 \in Nat /\ counted + 1 \in 1 .. Len(attempts[quiz]) + 1
        /\ Allowed(quiz, counted + 1)
    BY <2>1, <2>2
  <2>4. quiz \in AllQuizzes
    BY LearningConstants
  <2>5. j \in Job /\ j.quiz = quiz /\ j.number = counted + 1
    BY <2>3, <2>4, IdleTyped DEF Job, Places
  <2>6. UNCHANGED <<clock, watch, enrollment, attempts, chain>>
    BY <1>5 DEF CountAttempts
  <2> HIDE DEF j
  <2>7. job' \in [Handlers -> Job] /\ NumberInOrder'
    BY <2>1, <2>3, <2>5, <2>6, OneJobOnly DEF j
  <2> QED BY <1>0, <2>6, <2>7 DEF TypeInv, TypeOK
<1>6. ASSUME NEW h \in Handlers, ReadForQuiz(h)
      PROVE  TypeInv'
  <2> DEFINE place == IF job[h].quiz = "post_module" THEN "coverage" ELSE "submit"
             j == [job[h] EXCEPT !.pc = place, !.copy = enrollment]
  <2>1. j \in Job /\ j.quiz = job[h].quiz /\ j.number = job[h].number
    BY <1>0 DEF Job, Places
  <2>2. job' = [job EXCEPT ![h] = j] /\ UNCHANGED <<clock, watch, enrollment, attempts, chain>>
    BY <1>0, <1>6 DEF ReadForQuiz, Job
  <2>3. /\ job[h].quiz \in Quizzes /\ job[h].number \in 1 .. Len(attempts[job[h].quiz]) + 1
        /\ Allowed(job[h].quiz, job[h].number)
    BY <1>6 DEF ReadForQuiz, TypeInv, NumberInOrder
  <2> HIDE DEF j
  <2>4. job' \in [Handlers -> Job] /\ NumberInOrder'
    BY <2>1, <2>2, <2>3, OneJobOnly
  <2> QED BY <1>0, <2>2, <2>4 DEF TypeInv, TypeOK
<1>7. ASSUME NEW h \in Handlers, ReadCoverage(h)
      PROVE  TypeInv'
  <2>1. PICK read \in {watch, NoCoverage} : job' = [job EXCEPT ![h].pc = "submit", ![h].seen = read]
    BY <1>7 DEF ReadCoverage
  <2> DEFINE j == [job[h] EXCEPT !.pc = "submit", !.seen = read]
  <2>2. j \in Job /\ j.quiz = job[h].quiz /\ j.number = job[h].number
    BY <1>0, NewRecords DEF Job, Places
  <2>3. job' = [job EXCEPT ![h] = j] /\ UNCHANGED <<clock, watch, enrollment, attempts, chain>>
    BY <1>0, <1>7, <2>1 DEF ReadCoverage, Job
  <2>4. /\ job[h].quiz \in Quizzes /\ job[h].number \in 1 .. Len(attempts[job[h].quiz]) + 1
        /\ Allowed(job[h].quiz, job[h].number)
    BY <1>7 DEF ReadCoverage, TypeInv, NumberInOrder
  <2> HIDE DEF j
  <2>5. job' \in [Handlers -> Job] /\ NumberInOrder'
    BY <2>2, <2>3, <2>4, OneJobOnly
  <2> QED BY <1>0, <2>3, <2>5 DEF TypeInv, TypeOK
<1>8. ASSUME NEW h \in Handlers, PutSubmission(h)
      PROVE  TypeInv'
  <2> DEFINE j == [job[h] EXCEPT !.pc = "done"]
             q == job[h].quiz
  <2>1. j \in Job /\ j.pc = "done"
    BY <1>0 DEF Job, Places
  <2>2. /\ job' = [job EXCEPT ![h] = j] /\ UNCHANGED <<clock, watch>>
        /\ attempts' = [attempts EXCEPT ![q] = Stored(h)] /\ enrollment' = Graded(h)
        /\ job[h].pc = "submit"
    BY <1>8 DEF PutSubmission
  <2>3. /\ q \in Quizzes
        /\ Stored(h) \in Seq(Handlers) /\ Len(Stored(h)) >= Len(attempts[q])
        /\ Graded(h) \in Progress
        /\ Submitted(h) \in Event /\ Completed(h, Graded(h).covered) \in Event
    BY <2>2, SubmissionTyped
  <2>4. chain' \in {chain \o <<Submitted(h), Completed(h, Graded(h).covered)>>,
                    Append(chain, Submitted(h))}
    BY <1>8 DEF PutSubmission
  <2>5. chain' \in Seq(Event)
    <3>1. chain \o <<Submitted(h), Completed(h, Graded(h).covered)>> \in Seq(Event)
      BY <1>0, <2>3, GrownByTwo
    <3>2. Append(chain, Submitted(h)) \in Seq(Event)
      BY <1>0, <2>3, GrownByOne
    <3> QED BY <2>4, <3>1, <3>2
  <2>6. attempts' \in [Quizzes -> Seq(Handlers)]
    BY <1>0, <2>2, <2>3
  <2>7. \A quiz \in Quizzes : Len(attempts'[quiz]) >= Len(attempts[quiz])
    <3>1. ASSUME NEW quiz \in Quizzes PROVE Len(attempts'[quiz]) >= Len(attempts[quiz])
      <4>1. CASE quiz = q
        BY <1>0, <2>2, <2>3, <4>1
      <4>2. CASE quiz # q
        <5>1. attempts'[quiz] = attempts[quiz] /\ Len(attempts[quiz]) \in Nat
          BY <1>0, <2>2, <4>2
        <5> QED BY <5>1
      <4> QED BY <4>1, <4>2
    <3> QED BY <3>1
  <2> HIDE DEF j
  <2>8. job' \in [Handlers -> Job] /\ NumberInOrder'
    BY <2>1, <2>2, <2>6, <2>7, OneJobMoves
  <2> QED BY <1>0, <2>2, <2>3, <2>5, <2>6, <2>8 DEF TypeInv, TypeOK
<1>9. ASSUME NEW h \in Handlers, Stop(h)
      PROVE  TypeInv'
  <2> DEFINE j == [job[h] EXCEPT !.pc = "stopped"]
  <2>1. j \in Job /\ j.pc = "stopped"
    BY <1>0 DEF Job, Places
  <2>2. job' = [job EXCEPT ![h] = j] /\ UNCHANGED <<clock, watch, enrollment, attempts, chain>>
    BY <1>9 DEF Stop
  <2> HIDE DEF j
  <2>3. job' \in [Handlers -> Job] /\ NumberInOrder'
    BY <2>1, <2>2, OneJobOnly
  <2> QED BY <1>0, <2>2, <2>3 DEF TypeInv, TypeOK
<1>10. CASE Tick
  BY <1>0, <1>10, LearningConstants DEF Tick, TypeInv, TypeOK, NumberInOrder
<1>11. CASE UNCHANGED vars
  BY <1>11 DEF vars, TypeInv, TypeOK, NumberInOrder
<1> QED
  BY <1>1, <1>2, <1>3, <1>4, <1>5, <1>6, <1>7, <1>8, <1>9, <1>10, <1>11
  DEF Next, Heartbeat, SubmitQuiz

\* Every reachable state is well typed (TypeOK): the records, enrollments and copies that
\* the handlers of learning/service.go build, however they interleave, and the attempts
\* of each quiz are numbered without a gap.
THEOREM TypeCorrect == Spec => []TypeOK
<1>1. Spec => []TypeInv
  BY TypeInit, TypeStep, PTL DEF Spec
<1>2. TypeInv => TypeOK
  BY DEF TypeInv
<1> QED BY <1>1, <1>2, PTL

-----------------------------------------------------------------------------
(* What a step does to the chain, the enrollment and the copies *)

\* The chain keeps the events it has.
LEMMA ChainOnlyGrows ==
    ASSUME TypeInv, [Next]_vars
    PROVE  /\ Len(chain) \in Nat /\ Len(chain') \in Nat /\ Len(chain) <= Len(chain')
           /\ DOMAIN chain = 1 .. Len(chain) /\ DOMAIN chain' = 1 .. Len(chain')
           /\ \A k \in DOMAIN chain : chain'[k] = chain[k]
<1>1. chain \in Seq(Event) /\ Len(chain) \in Nat /\ DOMAIN chain = 1 .. Len(chain)
  BY DEF TypeInv, TypeOK
<1>2. ASSUME NEW h \in Handlers, PutProgress(h)
      PROVE  chain' = chain \/ \E e \in Event : chain' = Append(chain, e)
  BY <1>2, ProgressTyped DEF PutProgress
<1>3. ASSUME NEW h \in Handlers, PutSubmission(h)
      PROVE  \/ \E e \in Event : chain' = Append(chain, e)
             \/ \E e \in Event, f \in Event : chain' = chain \o <<e, f>>
  <2>1. job[h].pc = "submit"
    BY <1>3 DEF PutSubmission
  <2>2. Submitted(h) \in Event /\ Completed(h, Graded(h).covered) \in Event
    BY <2>1, SubmissionTyped
  <2>3. chain' \in {chain \o <<Submitted(h), Completed(h, Graded(h).covered)>>,
                    Append(chain, Submitted(h))}
    BY <1>3 DEF PutSubmission
  <2> QED BY <2>2, <2>3
<1>4. \/ chain' = chain
      \/ \E e \in Event : chain' = Append(chain, e)
      \/ \E e \in Event, f \in Event : chain' = chain \o <<e, f>>
  BY <1>2, <1>3 DEF Next, vars, Heartbeat, SubmitQuiz, ReadWatch, PutWatch, ReadEnrollment,
                    CountAttempts, ReadForQuiz, ReadCoverage, Stop, Tick
<1>5. CASE chain' = chain
  BY <1>1, <1>5
<1>6. CASE \E e \in Event : chain' = Append(chain, e)
  <2>1. PICK e \in Event : chain' = Append(chain, e)
    BY <1>6
  <2>2. /\ Len(chain') = Len(chain) + 1 /\ DOMAIN chain' = 1 .. Len(chain) + 1
        /\ \A k \in 1 .. Len(chain) : chain'[k] = chain[k]
    BY <1>1, <2>1, GrownByOne
  <2> QED BY <1>1, <2>2
<1>7. CASE \E e \in Event, f \in Event : chain' = chain \o <<e, f>>
  <2>1. PICK e \in Event, f \in Event : chain' = chain \o <<e, f>>
    BY <1>7
  <2>2. /\ Len(chain') = Len(chain) + 2 /\ DOMAIN chain' = 1 .. Len(chain) + 2
        /\ \A k \in 1 .. Len(chain) : chain'[k] = chain[k]
    BY <1>1, <2>1, GrownByTwo
  <2> QED BY <1>1, <2>2
<1> QED BY <1>1, <1>4, <1>5, <1>6, <1>7

\* Only two writes touch the enrollment, the chain or the attempts.
LEMMA OnlyPutsWrite ==
    ASSUME [Next]_vars
    PROVE  \/ UNCHANGED <<enrollment, chain, attempts>>
           \/ \E h \in Handlers : PutProgress(h) \/ PutSubmission(h)
BY DEF Next, vars, Heartbeat, SubmitQuiz, ReadWatch, PutWatch, ReadEnrollment,
       CountAttempts, ReadForQuiz, ReadCoverage, Stop, Tick

\* A handler's copy is the one it had, a fresh one, or the enrollment itself.
LEMMA CopiesAreRead ==
    ASSUME TypeInv, [Next]_vars, NEW g \in Handlers
    PROVE  job'[g].copy \in {job[g].copy, NewEnrollment, enrollment}
<1>1. job \in [Handlers -> Job]
  BY DEF TypeInv, TypeOK
<1>2. ASSUME NEW h \in Handlers, NEW beat \in Beats, ReadWatch(h, beat)
      PROVE  job'[g].copy \in {job[g].copy, NewEnrollment}
  BY <1>1, <1>2 DEF ReadWatch, Idle
<1>3. ASSUME NEW h \in Handlers, PutWatch(h)
      PROVE  job'[g].copy = job[g].copy
  BY <1>1, <1>3 DEF PutWatch, Job
<1>4. ASSUME NEW h \in Handlers, ReadEnrollment(h) \/ ReadForQuiz(h)
      PROVE  job'[g].copy \in {job[g].copy, enrollment}
  BY <1>1, <1>4 DEF ReadEnrollment, ReadForQuiz, Job
<1>5. ASSUME NEW h \in Handlers, PutProgress(h) \/ PutSubmission(h) \/ ReadCoverage(h) \/ Stop(h)
      PROVE  job'[g].copy = job[g].copy
  <2>1. CASE ReadCoverage(h)
    BY <1>1, <2>1 DEF ReadCoverage, Job
  <2>2. CASE PutProgress(h) \/ PutSubmission(h) \/ Stop(h)
    <3>1. job' = [job EXCEPT ![h].pc = "done"] \/ job' = [job EXCEPT ![h].pc = "stopped"]
      BY <2>2 DEF PutProgress, PutSubmission, Stop
    <3> QED BY <1>1, <3>1 DEF Job
  <2> QED BY <1>5, <2>1, <2>2
<1>6. ASSUME NEW h \in Handlers, NEW quiz \in Quizzes, NEW passed \in BOOLEAN,
             CountAttempts(h, quiz, passed)
      PROVE  job'[g].copy \in {job[g].copy, NewEnrollment}
  BY <1>1, <1>6 DEF CountAttempts, Idle
<1>7. CASE Tick \/ UNCHANGED vars
  BY <1>7 DEF Tick, vars
<1> QED BY <1>2, <1>3, <1>4, <1>5, <1>6, <1>7 DEF Next, Heartbeat, SubmitQuiz

-----------------------------------------------------------------------------
(* A validated module is in the chain *)

ModuleJournalled == \E k \in DOMAIN chain : chain[k].action = "module.completed"

\* Neither the enrollment nor a copy shows a validated module that the chain does not.
CompletionInv ==
    /\ enrollment.completed => ModuleJournalled
    /\ \A h \in Handlers : job[h].copy.completed => ModuleJournalled

LEMMA CompletionStep ==
    ASSUME TypeInv, CompletionInv, [Next]_vars
    PROVE  CompletionInv'
<1>1. ModuleJournalled => ModuleJournalled'
  BY ChainOnlyGrows DEF ModuleJournalled
<1>2. ASSUME NEW h \in Handlers, job[h].copy.completed
      PROVE  ModuleJournalled'
  BY <1>1, <1>2 DEF CompletionInv
<1>3. ASSUME NEW h \in Handlers, PutProgress(h), enrollment'.completed
      PROVE  ModuleJournalled'
  <2> DEFINE e == ApplyProgress(job[h].copy, job[h].seen, FALSE, FALSE)
  <2>1. /\ enrollment' = e
        /\ chain' = IF e.completed /\ ~ job[h].copy.completed
                    THEN Append(chain, Completed(h, e.covered)) ELSE chain
    BY <1>3 DEF PutProgress
  <2>2. Completed(h, e.covered) \in Event /\ Completed(h, e.covered).action = "module.completed"
    BY ProgressTyped DEF Completed
  <2> HIDE DEF e
  <2>3. CASE job[h].copy.completed
    BY <1>2, <2>3
  <2>4. CASE ~ job[h].copy.completed
    <3>1. chain' = Append(chain, Completed(h, e.covered)) /\ chain \in Seq(Event)
      BY <1>3, <2>1, <2>4 DEF TypeInv, TypeOK
    <3>2. /\ Len(chain) + 1 \in DOMAIN chain'
          /\ chain'[Len(chain) + 1] = Completed(h, e.covered)
      BY <2>2, <3>1, GrownByOne
    <3> QED BY <2>2, <3>2 DEF ModuleJournalled
  <2> QED BY <2>3, <2>4
<1>4. ASSUME NEW h \in Handlers, PutSubmission(h), enrollment'.completed
      PROVE  ModuleJournalled'
  <2> DEFINE c == Completed(h, Graded(h).covered)
  <2>1. /\ enrollment' = Graded(h) /\ job[h].pc = "submit"
        /\ Graded(h).completed /\ ~ job[h].copy.completed => chain' = chain \o <<Submitted(h), c>>
    BY <1>4 DEF PutSubmission
  <2>2. Submitted(h) \in Event /\ c \in Event /\ c.action = "module.completed"
    BY <2>1, SubmissionTyped DEF Completed
  <2> HIDE DEF c
  <2>3. CASE job[h].copy.completed
    BY <1>2, <2>3
  <2>4. CASE ~ job[h].copy.completed
    <3>1. chain' = chain \o <<Submitted(h), c>> /\ chain \in Seq(Event)
      BY <1>4, <2>1, <2>4 DEF TypeInv, TypeOK
    <3>2. Len(chain) + 2 \in DOMAIN chain' /\ chain'[Len(chain) + 2] = c
      BY <2>2, <3>1, GrownByTwo
    <3> QED BY <2>2, <3>2 DEF ModuleJournalled
  <2> QED BY <2>3, <2>4
<1>5. enrollment'.completed => ModuleJournalled'
  BY <1>1, <1>3, <1>4, OnlyPutsWrite DEF CompletionInv
<1>6. ASSUME NEW g \in Handlers, job'[g].copy.completed
      PROVE  ModuleJournalled'
  <2>1. job'[g].copy \in {job[g].copy, NewEnrollment, enrollment}
    BY CopiesAreRead
  <2>2. ~ NewEnrollment.completed
    BY DEF NewEnrollment
  <2> QED BY <1>1, <1>2, <1>6, <2>1, <2>2 DEF CompletionInv
<1> QED BY <1>5, <1>6 DEF CompletionInv

\* Whatever stale copies are put, the enrollment never shows a validated module that the
\* chain does not (CompletionJournalled, learning/service.go:191-195).
THEOREM CompletionsAreJournalled == Spec => []CompletionJournalled
<1>1. Init => CompletionInv
  BY DEF Init, Idle, NewEnrollment, CompletionInv
<1>2. Spec => [](TypeInv /\ CompletionInv)
  BY <1>1, TypeInit, TypeStep, CompletionStep, PTL DEF Spec
<1>3. CompletionInv => CompletionJournalled
  BY DEF CompletionInv, ModuleJournalled, CompletionJournalled
<1> QED BY <1>2, <1>3, PTL

-----------------------------------------------------------------------------
(* A pass is only lost by a stale copy *)

LEMMA ReportKeepsPass ==
    ASSUME NEW copy \in Progress, NEW c \in Record, NEW graded \in BOOLEAN, NEW passed \in BOOLEAN,
           copy.quizPassed
    PROVE  ApplyProgress(copy, c, graded, passed).quizPassed
<1>1. Report(copy, c, graded, passed).quizPassed
  BY DEF Report, Progress
<1>2. Report(copy, c, graded, passed) \in Progress
  BY ApplyProgressKeepsProgress
<1> HIDE DEF Report
<1> QED BY <1>1, <1>2 DEF ApplyProgress, Progress

\* No write forgets the pass its own copy shows: a failed retake keeps it, a signal keeps
\* it (OnlyStaleCopiesForget, learning/service.go:298-300).
THEOREM StaleCopiesOnlyForget == Spec => OnlyStaleCopiesForget
<1>1. ASSUME TypeInv, [Next]_vars
      PROVE  [enrollment.quizPassed /\ ~ enrollment'.quizPassed =>
                 \E h \in Handlers : job'[h] # job[h] /\ ~ job[h].copy.quizPassed]_vars
  <2> SUFFICES ASSUME enrollment.quizPassed, ~ enrollment'.quizPassed
               PROVE  \E h \in Handlers : job'[h] # job[h] /\ ~ job[h].copy.quizPassed
    OBVIOUS
  <2>1. PICK h \in Handlers : PutProgress(h) \/ PutSubmission(h)
    BY <1>1, OnlyPutsWrite
  <2>2. job \in [Handlers -> Job] /\ job[h] \in Job
    BY <1>1 DEF TypeInv, TypeOK
  <2>3. job[h].copy \in Progress /\ job[h].seen \in Record /\ job[h].passed \in BOOLEAN
    BY <2>2 DEF Job
  <2>4. job'[h] # job[h]
    <3>1. job[h].pc \in {"progress", "submit"} /\ job' = [job EXCEPT ![h].pc = "done"]
      BY <2>1 DEF PutProgress, PutSubmission
    <3>2. job'[h].pc = "done"
      BY <2>2, <3>1 DEF Job
    <3> QED BY <3>1, <3>2
  <2>5. ~ job[h].copy.quizPassed
    <3> SUFFICES ASSUME job[h].copy.quizPassed PROVE enrollment'.quizPassed
      BY <1>1
    <3>1. /\ ApplyProgress(job[h].copy, job[h].seen, FALSE, FALSE).quizPassed
          /\ ApplyProgress(job[h].copy, job[h].seen, TRUE, job[h].passed).quizPassed
      BY <2>3, ReportKeepsPass
    <3>2. /\ [job[h].copy EXCEPT !.positioned = TRUE].quizPassed
          /\ [job[h].copy EXCEPT !.finalPassed = job[h].passed].quizPassed
      BY <2>3 DEF Progress
    <3>3. CASE PutProgress(h)
      BY <3>1, <3>3 DEF PutProgress
    <3>4. CASE PutSubmission(h)
      <4>1. enrollment' = Graded(h) /\ job[h].quiz \in AllQuizzes
        BY <2>2, <3>4 DEF PutSubmission, Job
      <4> QED BY <3>1, <3>2, <4>1 DEF Graded, AllQuizzes
    <3> QED BY <2>1, <3>3, <3>4
  <2> QED BY <2>4, <2>5
<1> QED BY <1>1, TypeInit, TypeStep, PTL DEF Spec, OnlyStaleCopiesForget

-----------------------------------------------------------------------------
(* A stored attempt is the last one journalled under its number *)

IsCopy(e, quiz, n) == e.action = "quiz.submitted" /\ e.quiz = quiz /\ e.number = n

\* The event of rank k is the last one of attempt n of the quiz, and its copy is stored.
StoredAt(quiz, n, k) ==
    /\ k \in DOMAIN chain
    /\ IsCopy(chain[k], quiz, n)
    /\ chain[k].by = attempts[quiz][n]
    /\ \A j \in DOMAIN chain : IsCopy(chain[j], quiz, n) => j <= k

AttemptsInv ==
    \A quiz \in Quizzes : /\ Allowed(quiz, Len(attempts[quiz]))
                          /\ \A n \in DOMAIN attempts[quiz] : \E k : StoredAt(quiz, n, k)

\* The attempts of a quiz once a submission has put its own.
LEMMA StoredShape ==
    ASSUME TypeInv, NEW h \in Handlers, job[h].pc = "submit",
           Allowed(job[h].quiz, Len(attempts[job[h].quiz]))
    PROVE  /\ Allowed(job[h].quiz, Len(Stored(h)))
           /\ DOMAIN Stored(h) = DOMAIN attempts[job[h].quiz] \cup {job[h].number}
           /\ Stored(h)[job[h].number] = h
           /\ \A n \in DOMAIN attempts[job[h].quiz] :
                  n # job[h].number => Stored(h)[n] = attempts[job[h].quiz][n]
<1>1. /\ job[h].quiz \in Quizzes /\ job[h].number \in 1 .. Len(attempts[job[h].quiz]) + 1
      /\ Allowed(job[h].quiz, job[h].number)
  BY DEF TypeInv, NumberInOrder
<1>2. attempts[job[h].quiz] \in Seq(Handlers)
  BY <1>1 DEF TypeInv, TypeOK, Job
<1>3. PICK s \in Seq(Handlers) : s = attempts[job[h].quiz]
  BY <1>2
<1>4. PICK n \in 1 .. Len(s) + 1 : n = job[h].number
  BY <1>1, <1>3
<1> DEFINE t == [i \in DOMAIN s \cup {n} |-> IF i = n THEN h ELSE s[i]]
<1>5. Stored(h) = t
  BY <1>3, <1>4 DEF Stored
<1>6. Len(t) = IF n <= Len(s) THEN Len(s) ELSE n
  BY PutKeepsSequence
<1>7. DOMAIN t = DOMAIN s \cup {n} /\ t[n] = h /\ \A i \in DOMAIN s : i # n => t[i] = s[i]
  OBVIOUS
<1> HIDE DEF t
<1>8. Allowed(job[h].quiz, Len(t))
  BY <1>1, <1>3, <1>4, <1>6
<1> QED BY <1>3, <1>4, <1>5, <1>7, <1>8

\* An attempt stays the last one of its number while no other is journalled under it.
LEMMA StaysStored ==
    ASSUME TypeInv, [Next]_vars, NEW quiz \in Quizzes, NEW n, NEW k, StoredAt(quiz, n, k),
           attempts'[quiz][n] = attempts[quiz][n],
           \A j \in DOMAIN chain' : j \notin DOMAIN chain => ~ IsCopy(chain'[j], quiz, n)
    PROVE  StoredAt(quiz, n, k)'
<1>1. /\ DOMAIN chain \subseteq DOMAIN chain'
      /\ \A j \in DOMAIN chain : chain'[j] = chain[j]
  BY ChainOnlyGrows
<1>2. k \in DOMAIN chain /\ chain'[k] = chain[k]
  BY <1>1 DEF StoredAt
<1>3. \A j \in DOMAIN chain' : IsCopy(chain'[j], quiz, n) => j <= k
  BY <1>1 DEF StoredAt
<1> QED BY <1>1, <1>2, <1>3 DEF StoredAt

\* The event e says that the submission of h has just validated the module.
Validates(h, e) == /\ e = Completed(h, Graded(h).covered)
                   /\ Graded(h).completed /\ ~ job[h].copy.completed

\* What a submission adds to the chain.
LEMMA SubmissionAdds ==
    ASSUME TypeInv, NEW h \in Handlers, PutSubmission(h)
    PROVE  \E top \in Nat :
              /\ DOMAIN chain = 1 .. top
              /\ top + 1 \in DOMAIN chain' /\ chain'[top + 1] = Submitted(h)
              /\ \A j \in DOMAIN chain' :
                     j \in DOMAIN chain \/ j = top + 1
                         \/ (j = top + 2 /\ Validates(h, chain'[j]))
<1> DEFINE c == Completed(h, Graded(h).covered)
           newly == Graded(h).completed /\ ~ job[h].copy.completed
<1>1. /\ job[h].pc = "submit"
      /\ chain' = IF newly THEN chain \o <<Submitted(h), c>> ELSE Append(chain, Submitted(h))
  BY DEF PutSubmission
<1>2. Submitted(h) \in Event /\ c \in Event /\ chain \in Seq(Event)
  BY <1>1, SubmissionTyped DEF TypeInv, TypeOK
<1>3. newly => Validates(h, c)
  BY DEF Validates
<1> HIDE DEF c, newly
<1>4. PICK top \in Nat : top = Len(chain) /\ DOMAIN chain = 1 .. top
  BY <1>2
<1> SUFFICES /\ top + 1 \in DOMAIN chain' /\ chain'[top + 1] = Submitted(h)
             /\ \A j \in DOMAIN chain' :
                    j \in DOMAIN chain \/ j = top + 1
                        \/ (j = top + 2 /\ Validates(h, chain'[j]))
  BY <1>4
<1>5. CASE newly
  <2>1. /\ DOMAIN chain' = 1 .. top + 2
        /\ chain'[top + 1] = Submitted(h) /\ chain'[top + 2] = c
    BY <1>1, <1>2, <1>4, <1>5, GrownByTwo
  <2>2. \A j \in 1 .. top + 2 : j \in 1 .. top \/ j = top + 1 \/ j = top + 2
    OBVIOUS
  <2>3. top + 1 \in 1 .. top + 2
    OBVIOUS
  <2> QED BY <1>3, <1>4, <1>5, <2>1, <2>2, <2>3
<1>6. CASE ~ newly
  <2>1. DOMAIN chain' = 1 .. top + 1 /\ chain'[top + 1] = Submitted(h)
    BY <1>1, <1>2, <1>4, <1>6, GrownByOne
  <2>2. \A j \in 1 .. top + 1 : j \in 1 .. top \/ j = top + 1
    OBVIOUS
  <2>3. top + 1 \in 1 .. top + 1
    OBVIOUS
  <2> QED BY <1>4, <2>1, <2>2, <2>3
<1> QED BY <1>5, <1>6

LEMMA AttemptsStep ==
    ASSUME TypeInv, AttemptsInv, [Next]_vars
    PROVE  AttemptsInv'
<1>1. CASE UNCHANGED <<enrollment, chain, attempts>>
  BY <1>1 DEF AttemptsInv, StoredAt
<1>2. ASSUME NEW h \in Handlers, PutProgress(h)
      PROVE  AttemptsInv'
  <2> DEFINE e == Completed(h, ApplyProgress(job[h].copy, job[h].seen, FALSE, FALSE).covered)
  <2>1. UNCHANGED attempts /\ chain' \in {chain, Append(chain, e)}
    BY <1>2 DEF PutProgress
  <2>2. e \in Event /\ e.action = "module.completed" /\ chain \in Seq(Event)
    BY ProgressTyped DEF Completed, TypeInv, TypeOK
  <2> HIDE DEF e
  <2>3. \A j \in DOMAIN chain' : j \notin DOMAIN chain => chain'[j].action = "module.completed"
    <3>1. CASE chain' = chain
      BY <3>1
    <3>2. CASE chain' = Append(chain, e)
      <4>1. /\ DOMAIN chain' = 1 .. Len(chain) + 1 /\ chain'[Len(chain) + 1] = e
            /\ DOMAIN chain = 1 .. Len(chain) /\ Len(chain) \in Nat
        BY <2>2, <3>2, GrownByOne
      <4> QED BY <2>2, <4>1
    <3> QED BY <2>1, <3>1, <3>2
  <2>4. ASSUME NEW quiz \in Quizzes, NEW n \in DOMAIN attempts'[quiz]
        PROVE  \E k : StoredAt(quiz, n, k)'
    <3>1. PICK k : StoredAt(quiz, n, k)
      BY <2>1 DEF AttemptsInv
    <3>2. \A j \in DOMAIN chain' : j \notin DOMAIN chain => ~ IsCopy(chain'[j], quiz, n)
      BY <2>3 DEF IsCopy
    <3>3. attempts'[quiz][n] = attempts[quiz][n]
      BY <2>1
    <3>4. StoredAt(quiz, n, k)'
      BY <3>1, <3>2, <3>3, StaysStored
    <3> QED BY <3>4
  <2> QED BY <2>1, <2>4 DEF AttemptsInv
<1>3. ASSUME NEW h \in Handlers, PutSubmission(h)
      PROVE  AttemptsInv'
  <2>1. job[h].pc = "submit" /\ attempts' = [attempts EXCEPT ![job[h].quiz] = Stored(h)]
    BY <1>3 DEF PutSubmission
  <2>2. PICK q \in Quizzes, number \in Nat :
          q = job[h].quiz /\ number = job[h].number
    BY <2>1, SubmissionTyped DEF Job
  <2>3. /\ attempts'[q] = Stored(h)
        /\ \A quiz \in Quizzes : quiz # q => attempts'[quiz] = attempts[quiz]
    BY <2>1, <2>2 DEF TypeInv, TypeOK
  <2>4. /\ Allowed(q, Len(Stored(h)))
        /\ DOMAIN Stored(h) = DOMAIN attempts[q] \cup {number}
        /\ Stored(h)[number] = h
        /\ \A n \in DOMAIN attempts[q] : n # number => Stored(h)[n] = attempts[q][n]
    BY <2>1, <2>2, StoredShape DEF AttemptsInv
  <2>5. \A e : e = Submitted(h) => /\ e.action = "quiz.submitted" /\ e.quiz = q
                                   /\ e.number = number /\ e.by = h
    BY <2>2 DEF Submitted
  <2>6. PICK top \in Nat :
          /\ DOMAIN chain = 1 .. top
          /\ top + 1 \in DOMAIN chain' /\ chain'[top + 1] = Submitted(h)
          /\ \A j \in DOMAIN chain' :
                 j \in DOMAIN chain \/ j = top + 1
                     \/ (j = top + 2 /\ Validates(h, chain'[j]))
    BY <1>3, SubmissionAdds
  <2>11. \A e : Validates(h, e) => e.action = "module.completed"
    BY DEF Validates, Completed
  <2>7. \A quiz \in Quizzes : Allowed(quiz, Len(attempts'[quiz]))
    BY <2>3, <2>4 DEF AttemptsInv
  <2>8. StoredAt(q, number, top + 1)'
    <3>1. /\ IsCopy(chain'[top + 1], q, number)
          /\ chain'[top + 1].by = attempts'[q][number]
      BY <2>3, <2>4, <2>5, <2>6 DEF IsCopy
    <3>2. \A j \in DOMAIN chain' : IsCopy(chain'[j], q, number) => j <= top + 1
      BY <2>6, <2>11 DEF IsCopy
    <3> QED BY <2>6, <3>1, <3>2 DEF StoredAt
  <2>9. ASSUME NEW quiz \in Quizzes, NEW n \in DOMAIN attempts'[quiz], quiz # q \/ n # number
        PROVE  \E k : StoredAt(quiz, n, k)'
    <3>1. n \in DOMAIN attempts[quiz] /\ attempts'[quiz][n] = attempts[quiz][n]
      BY <2>3, <2>4, <2>9
    <3>2. PICK k : StoredAt(quiz, n, k)
      BY <3>1 DEF AttemptsInv
    <3>3. \A j \in DOMAIN chain' : j \notin DOMAIN chain => ~ IsCopy(chain'[j], quiz, n)
      BY <2>5, <2>6, <2>9, <2>11 DEF IsCopy
    <3>4. StoredAt(quiz, n, k)'
      BY <3>1, <3>2, <3>3, StaysStored
    <3> QED BY <3>4
  <2>10. ASSUME NEW quiz \in Quizzes, NEW n \in DOMAIN attempts'[quiz]
         PROVE  \E k : StoredAt(quiz, n, k)'
    <3>1. CASE quiz # q \/ n # number
      BY <2>9, <3>1
    <3>2. CASE quiz = q /\ n = number
      BY <2>8, <3>2
    <3> QED BY <3>1, <3>2
  <2> QED BY <2>7, <2>10 DEF AttemptsInv
<1> QED BY <1>1, <1>2, <1>3, OnlyPutsWrite

\* An attempt that is stored is the last one journalled under its number, and no number
\* exceeds the limit, even when a lagging count gives two submissions the same number
\* (AttemptsJournalled, httpapi/learning.go:320-329).
THEOREM AttemptsAreJournalled == Spec => []AttemptsJournalled
<1>1. Init => AttemptsInv
  BY LearningConstants DEF Init, AttemptsInv, Allowed
<1>2. Spec => [](TypeInv /\ AttemptsInv)
  BY <1>1, TypeInit, TypeStep, AttemptsStep, PTL DEF Spec
<1>3. AttemptsInv => AttemptsJournalled
  BY DEF AttemptsInv, StoredAt, IsCopy, Allowed, AttemptsJournalled
<1> QED BY <1>2, <1>3, PTL

-----------------------------------------------------------------------------
(* What the records hold was played *)

EarnedSlices == {i \in 0 .. SegmentCount - 1 : Earned(i)}

\* A handler that has not applied its signal has had none accepted.
NotYet == \A h \in Handlers : job[h].pc \in {"idle", "watch"} => ~ job[h].accepted

\* The slices of the record, and of every copy of it, were played.
SlicesInv ==
    /\ NotYet
    /\ watch.segments \subseteq EarnedSlices
    /\ \A h \in Handlers : job[h].seen.segments \subseteq EarnedSlices

\* What a step other than a write of the record makes of the job of g.
Moves(g) ==
    \/ /\ job[g].pc = "idle" /\ ~ job'[g].accepted
       /\ job'[g].seen \in {Loaded, NoCoverage}
    \/ /\ job'[g].accepted = job[g].accepted /\ job'[g].beat = job[g].beat
       /\ job'[g].seen \in {job[g].seen, watch, NoCoverage}
       /\ job'[g].pc \in {"idle", "watch"} => job[g].pc \in {"idle", "watch"}

LEMMA OthersMove ==
    ASSUME TypeInv, [Next]_vars, NEW g \in Handlers
    PROVE  (\E h \in Handlers : PutWatch(h)) \/ (UNCHANGED watch /\ Moves(g))
<1>0. job \in [Handlers -> Job]
  BY DEF TypeInv, TypeOK
<1>1. ASSUME NEW h \in Handlers, NEW beat \in Beats, ReadWatch(h, beat)
      PROVE  UNCHANGED watch /\ Moves(g)
  BY <1>0, <1>1 DEF ReadWatch, Moves, Idle
<1>2. ASSUME NEW h \in Handlers, ReadEnrollment(h)
      PROVE  UNCHANGED watch /\ Moves(g)
  BY <1>0, <1>2 DEF ReadEnrollment, Moves, Job
<1>3. ASSUME NEW h \in Handlers, PutProgress(h)
      PROVE  UNCHANGED watch /\ Moves(g)
  <2>1. job' = [job EXCEPT ![h].pc = "done"] /\ UNCHANGED watch
    BY <1>3 DEF PutProgress
  <2> QED BY <1>0, <2>1 DEF Moves, Job
<1>4. ASSUME NEW h \in Handlers, NEW quiz \in Quizzes, NEW passed \in BOOLEAN,
             CountAttempts(h, quiz, passed)
      PROVE  UNCHANGED watch /\ Moves(g)
  BY <1>0, <1>4 DEF CountAttempts, Moves, Idle
<1>5. ASSUME NEW h \in Handlers, ReadForQuiz(h)
      PROVE  UNCHANGED watch /\ Moves(g)
  <2>1. UNCHANGED watch /\ \E place \in {"coverage", "submit"} :
           job' = [job EXCEPT ![h].pc = place, ![h].copy = enrollment]
    BY <1>5 DEF ReadForQuiz
  <2> QED BY <1>0, <2>1 DEF Moves, Job
<1>6. ASSUME NEW h \in Handlers, ReadCoverage(h)
      PROVE  UNCHANGED watch /\ Moves(g)
  BY <1>0, <1>6 DEF ReadCoverage, Moves, Job
<1>7. ASSUME NEW h \in Handlers, PutSubmission(h) \/ Stop(h)
      PROVE  UNCHANGED watch /\ Moves(g)
  <2>1. UNCHANGED watch /\ \E place \in {"done", "stopped"} : job' = [job EXCEPT ![h].pc = place]
    BY <1>7 DEF PutSubmission, Stop
  <2> QED BY <1>0, <2>1 DEF Moves, Job
<1>8. CASE Tick \/ UNCHANGED vars
  BY <1>8 DEF Tick, vars, Moves
<1> QED BY <1>1, <1>2, <1>3, <1>4, <1>5, <1>6, <1>7, <1>8 DEF Next, Heartbeat, SubmitQuiz

LEMMA WatchOrMoves ==
    ASSUME TypeInv, [Next]_vars
    PROVE  (\E h \in Handlers : PutWatch(h)) \/ (UNCHANGED watch /\ \A g \in Handlers : Moves(g))
<1>1. CASE \E h \in Handlers : PutWatch(h)
  BY <1>1
<1>2. CASE ~ \E h \in Handlers : PutWatch(h)
  <2>1. \A g \in Handlers : Moves(g)
    BY <1>2, OthersMove
  <2>2. UNCHANGED watch
    BY <1>2 DEF Next, vars, Heartbeat, SubmitQuiz, ReadWatch, ReadEnrollment, PutProgress,
                CountAttempts, ReadForQuiz, ReadCoverage, PutSubmission, Stop, Tick
  <2> QED BY <2>1, <2>2
<1> QED BY <1>1, <1>2

\* What a write of the record does.
LEMMA WatchMoves ==
    ASSUME TypeInv, NEW h \in Handlers, PutWatch(h)
    PROVE  \E at \in 0 .. Horizon :
              /\ job[h].pc = "watch" /\ watch' = Apply(job[h].seen, job[h].beat, at)
              /\ job'[h].seen = watch' /\ job'[h].beat = job[h].beat
              /\ job'[h].accepted = Accepted(job[h].seen, job[h].beat, at)
              /\ job'[h].pc \notin {"idle", "watch"}
              /\ \A g \in Handlers : g # h => job'[g] = job[g]
<1>1. PICK at \in job[h].now .. clock :
        /\ watch' = Apply(job[h].seen, job[h].beat, at)
        /\ job' = [job EXCEPT ![h].seen = Apply(job[h].seen, job[h].beat, at),
                              ![h].accepted = Accepted(job[h].seen, job[h].beat, at),
                              ![h].pc = IF Accepted(job[h].seen, job[h].beat, at)
                                        THEN "enrollment" ELSE "refused"]
  BY DEF PutWatch
<1>2. job \in [Handlers -> Job] /\ at \in 0 .. Horizon
  BY LearningConstants DEF TypeInv, TypeOK, Job
<1>3. /\ job'[h].seen = watch' /\ job'[h].beat = job[h].beat
      /\ job'[h].accepted = Accepted(job[h].seen, job[h].beat, at)
      /\ job'[h].pc \in {"enrollment", "refused"}
      /\ \A g \in Handlers : g # h => job'[g] = job[g]
  BY <1>1, <1>2 DEF Job
<1> QED BY <1>1, <1>2, <1>3 DEF PutWatch

\* A signal that was accepted stays accepted.
LEMMA ListenedGrows ==
    ASSUME TypeInv, NotYet, [Next]_vars
    PROVE  /\ NotYet'
           /\ \A g \in Handlers : job[g].accepted => job'[g].accepted /\ job'[g].beat = job[g].beat
           /\ \A i : Earned(i) => Earned(i)'
<1>1. ASSUME NEW h \in Handlers, PutWatch(h)
      PROVE  /\ NotYet'
             /\ \A g \in Handlers : job[g].accepted => job'[g].accepted /\ job'[g].beat = job[g].beat
  <2>1. /\ job[h].pc = "watch" /\ job'[h].pc \notin {"idle", "watch"}
        /\ \A g \in Handlers : g # h => job'[g] = job[g]
    BY <1>1, WatchMoves
  <2> QED BY <2>1 DEF NotYet
<1>2. ASSUME \A g \in Handlers : Moves(g)
      PROVE  /\ NotYet'
             /\ \A g \in Handlers : job[g].accepted => job'[g].accepted /\ job'[g].beat = job[g].beat
  <2>1. ASSUME NEW g \in Handlers
        PROVE  /\ job'[g].pc \in {"idle", "watch"} => ~ job'[g].accepted
               /\ job[g].accepted => job'[g].accepted /\ job'[g].beat = job[g].beat
    <3>1. CASE job[g].pc = "idle" /\ ~ job'[g].accepted
      BY <3>1 DEF NotYet
    <3>2. CASE /\ job'[g].accepted = job[g].accepted /\ job'[g].beat = job[g].beat
               /\ job'[g].pc \in {"idle", "watch"} => job[g].pc \in {"idle", "watch"}
      BY <3>2 DEF NotYet
    <3> QED BY <1>2, <3>1, <3>2 DEF Moves
  <2> QED BY <2>1 DEF NotYet
<1>3. /\ NotYet'
      /\ \A g \in Handlers : job[g].accepted => job'[g].accepted /\ job'[g].beat = job[g].beat
  BY <1>1, <1>2, WatchOrMoves
<1>4. \A i : Earned(i) => Earned(i)'
  BY <1>3 DEF Earned, Listened
<1> QED BY <1>3, <1>4

\* The slices a signal touches lie in what it plays.
LEMMA SliceArithmetic ==
    ASSUME NEW a \in Int, NEW s \in Nat \ {0}, NEW i \in Int
    PROVE  /\ a \div s <= i => a < (i + 1) * s
           /\ i <= (a - 1) \div s => i * s < a
OBVIOUS

LEMMA TouchedIsPlayed ==
    ASSUME NEW beat \in Beats \cup {NoBeat}, NEW i \in Touched(beat)
    PROVE  i \in 0 .. SegmentCount - 1 /\ beat.from < (i + 1) * SegmentMs /\ i * SegmentMs < beat.to
<1>1. beat.from \in Int /\ beat.to \in Int /\ DurationMs \in Nat /\ SegmentMs \in Nat \ {0}
  BY CoverageConstants, LearningConstants DEF NoBeat
<1>2. /\ i \in 0 .. SegmentCount - 1 /\ beat.from \div SegmentMs <= i
      /\ i <= (Lesser(beat.to, DurationMs) - 1) \div SegmentMs
  BY DEF Touched
<1>3. Lesser(beat.to, DurationMs) \in Int /\ Lesser(beat.to, DurationMs) <= beat.to
  BY <1>1 DEF Lesser
<1>4. i \in Int
  BY <1>2, SegmentCountIsNat
<1>5. beat.from < (i + 1) * SegmentMs /\ i * SegmentMs < Lesser(beat.to, DurationMs)
  BY <1>1, <1>2, <1>3, <1>4, SliceArithmetic
<1>6. i * SegmentMs \in Int
  BY <1>1, <1>4
<1> QED BY <1>1, <1>2, <1>3, <1>5, <1>6

LEMMA SlicesStep ==
    ASSUME TypeInv, SlicesInv, [Next]_vars
    PROVE  SlicesInv' /\ EarnedSlices \subseteq EarnedSlices'
<1>1. NotYet' /\ EarnedSlices \subseteq EarnedSlices'
  BY ListenedGrows DEF SlicesInv, EarnedSlices
<1>2. Loaded.segments = watch.segments /\ NoCoverage.segments = {}
  BY DEF TypeInv, TypeOK, Record, Loaded, NoCoverage, NewCoverage
<1>3. ASSUME NEW h \in Handlers, PutWatch(h)
      PROVE  /\ watch'.segments \subseteq EarnedSlices'
             /\ \A g \in Handlers : job'[g].seen.segments \subseteq EarnedSlices'
  <2>1. PICK at \in 0 .. Horizon :
          /\ job[h].pc = "watch" /\ watch' = Apply(job[h].seen, job[h].beat, at)
          /\ job'[h].seen = watch' /\ job'[h].beat = job[h].beat
          /\ job'[h].accepted = Accepted(job[h].seen, job[h].beat, at)
          /\ job'[h].pc \notin {"idle", "watch"}
          /\ \A g \in Handlers : g # h => job'[g] = job[g]
    BY <1>3, WatchMoves
  <2>2. job[h].seen \in Record /\ job[h].beat \in Beats \cup {NoBeat}
    BY DEF TypeInv, TypeOK, Job
  <2>3. watch'.segments \subseteq EarnedSlices'
    <3>1. CASE Accepted(job[h].seen, job[h].beat, at)
      <4>1. watch'.segments = job[h].seen.segments \cup Touched(job[h].beat)
        BY <2>1, <2>2, <3>1 DEF Apply, Record
      <4>2. job'[h].accepted /\ job'[h].beat.focused
        BY <2>1, <3>1 DEF Accepted
      <4>3. ASSUME NEW i \in Touched(job[h].beat) PROVE i \in EarnedSlices'
        <5>1. /\ i \in 0 .. SegmentCount - 1
              /\ job'[h].beat.from < (i + 1) * SegmentMs /\ i * SegmentMs < job'[h].beat.to
          BY <2>1, <2>2, TouchedIsPlayed
        <5> QED BY <4>2, <5>1 DEF EarnedSlices, Earned, Listened
      <4> QED BY <1>1, <4>1, <4>3 DEF SlicesInv
    <3>2. CASE ~ Accepted(job[h].seen, job[h].beat, at)
      BY <1>1, <2>1, <3>2 DEF Apply, SlicesInv
    <3> QED BY <3>1, <3>2
  <2>4. ASSUME NEW g \in Handlers PROVE job'[g].seen.segments \subseteq EarnedSlices'
    BY <1>1, <2>1, <2>3 DEF SlicesInv
  <2> QED BY <2>3, <2>4
<1>4. ASSUME UNCHANGED watch, \A g \in Handlers : Moves(g)
      PROVE  /\ watch'.segments \subseteq EarnedSlices'
             /\ \A g \in Handlers : job'[g].seen.segments \subseteq EarnedSlices'
  <2>1. watch'.segments \subseteq EarnedSlices'
    BY <1>1, <1>4 DEF SlicesInv
  <2>2. ASSUME NEW g \in Handlers PROVE job'[g].seen.segments \subseteq EarnedSlices'
    <3>1. job'[g].seen \in {job[g].seen, watch, Loaded, NoCoverage}
      BY <1>4 DEF Moves
    <3>2. CASE job'[g].seen = job[g].seen
      BY <1>1, <3>2 DEF SlicesInv
    <3>3. CASE job'[g].seen \in {watch, Loaded}
      BY <1>1, <1>2, <3>3 DEF SlicesInv
    <3>4. CASE job'[g].seen = NoCoverage
      BY <1>2, <3>4
    <3> QED BY <3>1, <3>2, <3>3, <3>4
  <2> QED BY <2>1, <2>2
<1>5. (\E h \in Handlers : PutWatch(h)) \/ (UNCHANGED watch /\ \A g \in Handlers : Moves(g))
  BY WatchOrMoves
<1> QED BY <1>1, <1>3, <1>4, <1>5 DEF SlicesInv

LEMMA SlicesInit == Init => SlicesInv
BY DEF Init, Idle, NoCoverage, NewCoverage, SlicesInv, NotYet

-----------------------------------------------------------------------------
(* The time watched fits the time elapsed *)

\* n accepted signals account for the time watched in c.
WithinTime(c, n) ==
    /\ ~ c.started => c.watched = 0
    /\ c.started => /\ n >= 1
                    /\ c.watched <= DurationMs + (c.lastAt - c.firstAt) * MaxRate
                                      + (n - 1) * ClockTolerance

TimeInv ==
    /\ WithinTime(watch, Cardinality(Listened))
    /\ \A h \in Handlers : WithinTime(job[h].seen, Cardinality(Listened))

LEMMA ListenedIsFinite == IsFiniteSet(Listened) /\ Cardinality(Listened) \in Nat
BY LearningConstants, FS_Subset, FS_CardinalityType DEF Listened

LEMMA MoreSignals ==
    ASSUME NEW c \in Record, NEW m \in Nat, NEW n \in Nat, m <= n, WithinTime(c, m)
    PROVE  WithinTime(c, n)
<1>1. ClockTolerance \in Nat
  BY CoverageConstants
<1>2. (m - 1) * ClockTolerance <= (n - 1) * ClockTolerance
  BY <1>1
<1>3. /\ c.watched \in Int /\ c.firstAt \in Int /\ c.lastAt \in Int
      /\ DurationMs \in Int /\ MaxRate \in Int
      /\ (m - 1) * ClockTolerance \in Int /\ (n - 1) * ClockTolerance \in Int
      /\ (c.lastAt - c.firstAt) * MaxRate \in Int
  BY CoverageConstants, LearningConstants DEF Record
<1> QED BY <1>2, <1>3 DEF WithinTime

\* A signal adds at most what its own budget allows.
LEMMA OneMoreSignal ==
    ASSUME NEW c \in Record, NEW n \in Nat, NEW beat \in Beats \cup {NoBeat},
           NEW at \in 0 .. Horizon, Accepted(c, beat, at), WithinTime(c, n)
    PROVE  WithinTime(Apply(c, beat, at), n + 1)
<1> DEFINE d == Apply(c, beat, at)
           p == Played(beat)
<1>1. /\ d.started /\ d.watched = c.watched + p /\ d.lastAt = at
      /\ d.firstAt = IF c.started THEN c.firstAt ELSE at
  BY DEF Apply, Record
<1>2. /\ p \in Int /\ c.watched \in Int /\ c.firstAt \in Int /\ c.lastAt \in Int /\ at \in Int
      /\ DurationMs \in Nat /\ MaxRate \in Nat /\ ClockTolerance \in Nat
      /\ c.started \in BOOLEAN
  BY PlayedIsInt, CoverageConstants, LearningConstants DEF Record
<1>3. CASE ~ c.started
  <2>1. p <= DurationMs
    BY <1>2, CoverageConstants, LearningConstants DEF Accepted, Played, Lesser, NoBeat
  <2>2. d.watched = p /\ d.lastAt - d.firstAt = 0
    BY <1>1, <1>2, <1>3 DEF WithinTime
  <2>3. n * ClockTolerance >= 0 /\ n * ClockTolerance \in Int /\ 0 * MaxRate = 0
    BY <1>2
  <2> HIDE DEF d, p
  <2>4. n + 1 - 1 = n /\ n + 1 >= 1
    OBVIOUS
  <2>5. d.watched <= DurationMs + (d.lastAt - d.firstAt) * MaxRate + (n + 1 - 1) * ClockTolerance
    BY <1>2, <2>1, <2>2, <2>3, <2>4
  <2> QED BY <1>1, <2>4, <2>5 DEF WithinTime, d
<1>4. CASE c.started
  <2>1. p <= (at - c.lastAt) * MaxRate + ClockTolerance
    BY <1>4 DEF Accepted, WithinBudget
  <2>2. /\ n >= 1
        /\ c.watched <= DurationMs + (c.lastAt - c.firstAt) * MaxRate + (n - 1) * ClockTolerance
    BY <1>4 DEF WithinTime
  <2>3. (at - c.lastAt) * MaxRate + (c.lastAt - c.firstAt) * MaxRate = (at - c.firstAt) * MaxRate
    BY <1>2
  <2>4. (n - 1) * ClockTolerance + ClockTolerance = (n + 1 - 1) * ClockTolerance
    BY <1>2
  <2>5. /\ (at - c.lastAt) * MaxRate \in Int /\ (c.lastAt - c.firstAt) * MaxRate \in Int
        /\ (at - c.firstAt) * MaxRate \in Int /\ (n - 1) * ClockTolerance \in Int
        /\ (n + 1 - 1) * ClockTolerance \in Int
    BY <1>2
  <2> HIDE DEF d, p
  <2>6. c.watched + p <= DurationMs + (at - c.firstAt) * MaxRate + (n + 1 - 1) * ClockTolerance
    BY <1>2, <2>1, <2>2, <2>3, <2>4, <2>5
  <2>7. n + 1 >= 1
    OBVIOUS
  <2> QED BY <1>1, <1>4, <2>6, <2>7 DEF WithinTime, d
<1> QED BY <1>2, <1>3, <1>4

LEMMA NewRecordsTakeNoTime ==
    ASSUME NEW n \in Nat, watch \in Record
    PROVE  WithinTime(NoCoverage, n) /\ (WithinTime(watch, n) => WithinTime(Loaded, n))
<1>1. ~ NoCoverage.started /\ NoCoverage.watched = 0
  BY DEF NoCoverage, NewCoverage
<1>2. /\ Loaded.started = watch.started /\ Loaded.watched = watch.watched
      /\ Loaded.firstAt = watch.firstAt /\ Loaded.lastAt = watch.lastAt
  BY DEF Loaded, Record
<1> QED BY <1>1, <1>2 DEF WithinTime

LEMMA TimeStep ==
    ASSUME TypeInv, NotYet, TimeInv, [Next]_vars
    PROVE  TimeInv'
<1>1. watch \in Record /\ \A g \in Handlers : job[g].seen \in Record /\ job[g].beat \in Beats \cup {NoBeat}
  BY DEF TypeInv, TypeOK, Job
<1>2. PICK m \in Nat : m = Cardinality(Listened)
  BY ListenedIsFinite
<1>3. WithinTime(watch, m) /\ \A g \in Handlers : WithinTime(job[g].seen, m)
  BY <1>2 DEF TimeInv
<1>4. ASSUME NEW h \in Handlers, PutWatch(h)
      PROVE  TimeInv'
  <2>1. PICK at \in 0 .. Horizon :
          /\ job[h].pc = "watch" /\ watch' = Apply(job[h].seen, job[h].beat, at)
          /\ job'[h].seen = watch' /\ job'[h].beat = job[h].beat
          /\ job'[h].accepted = Accepted(job[h].seen, job[h].beat, at)
          /\ job'[h].pc \notin {"idle", "watch"}
          /\ \A g \in Handlers : g # h => job'[g] = job[g]
    BY <1>4, WatchMoves
  <2>2. h \notin Listened
    BY <2>1 DEF NotYet, Listened
  <2>3. CASE Accepted(job[h].seen, job[h].beat, at)
    <3>1. Listened' = Listened \cup {h}
      BY <2>1, <2>3 DEF Listened
    <3>2. Cardinality(Listened') = m + 1
      BY <1>2, <2>2, <3>1, ListenedIsFinite, FS_AddElement
    <3>3. WithinTime(watch', m + 1)
      BY <1>1, <1>3, <2>1, <2>3, OneMoreSignal
    <3>4. m + 1 \in Nat /\ m <= m + 1
      OBVIOUS
    <3>5. ASSUME NEW g \in Handlers PROVE WithinTime(job'[g].seen, m + 1)
      <4>1. CASE g = h
        BY <2>1, <3>3, <4>1
      <4>2. CASE g # h
        <5>1. job'[g].seen = job[g].seen /\ WithinTime(job[g].seen, m + 1)
          BY <1>1, <1>3, <2>1, <3>4, <4>2, MoreSignals
        <5> QED BY <5>1
      <4> QED BY <4>1, <4>2
    <3> QED BY <3>2, <3>3, <3>5 DEF TimeInv
  <2>4. CASE ~ Accepted(job[h].seen, job[h].beat, at)
    <3>1. Listened' = Listened
      BY <2>1, <2>2, <2>4 DEF Listened
    <3>2. watch' = job[h].seen
      BY <2>1, <2>4 DEF Apply
    <3>3. ASSUME NEW g \in Handlers PROVE WithinTime(job'[g].seen, m)
      BY <1>3, <2>1, <3>2
    <3> QED BY <1>2, <1>3, <3>1, <3>2, <3>3 DEF TimeInv
  <2> QED BY <2>3, <2>4
<1>5. ASSUME UNCHANGED watch, \A g \in Handlers : Moves(g)
      PROVE  TimeInv'
  <2>1. ASSUME NEW g \in Handlers PROVE job'[g].accepted <=> job[g].accepted
    BY <1>5 DEF Moves, NotYet
  <2>2. Listened' = Listened
    BY <2>1 DEF Listened
  <2>3. WithinTime(Loaded, m) /\ WithinTime(NoCoverage, m)
    BY <1>1, <1>3, NewRecordsTakeNoTime
  <2>4. ASSUME NEW g \in Handlers PROVE WithinTime(job'[g].seen, m)
    <3>1. job'[g].seen \in {job[g].seen, watch, Loaded, NoCoverage}
      BY <1>5 DEF Moves
    <3> QED BY <1>3, <2>3, <3>1
  <2> QED BY <1>2, <1>3, <1>5, <2>2, <2>4 DEF TimeInv
<1>6. (\E h \in Handlers : PutWatch(h)) \/ (UNCHANGED watch /\ \A g \in Handlers : Moves(g))
  BY WatchOrMoves
<1> QED BY <1>4, <1>5, <1>6

\* What the record holds was earned: each lit slice was played by an accepted signal, and
\* the time watched fits the time elapsed, whatever updates of the record were lost
\* (WatchEarned, lms/coverage.go:92-95).
THEOREM WatchIsEarned == Spec => []WatchEarned
<1>1. Init => TimeInv
  <2> SUFFICES ASSUME Init PROVE TimeInv
    OBVIOUS
  <2>1. Cardinality(Listened) \in Nat
    BY ListenedIsFinite
  <2>2. watch = NoCoverage /\ watch \in Record /\ \A h \in Handlers : job[h].seen = NoCoverage
    BY NewRecords DEF Init, Idle
  <2> QED BY <2>1, <2>2, NewRecordsTakeNoTime DEF TimeInv
<1>2. Spec => [](TypeInv /\ SlicesInv /\ TimeInv)
  <2>1. TypeInv /\ SlicesInv /\ TimeInv /\ [Next]_vars => (TypeInv /\ SlicesInv /\ TimeInv)'
    BY TypeStep, SlicesStep, TimeStep DEF SlicesInv
  <2> QED BY <1>1, <2>1, TypeInit, SlicesInit, PTL DEF Spec
<1>3. SlicesInv /\ TimeInv => WatchEarned
  BY DEF SlicesInv, EarnedSlices, TimeInv, WithinTime, WatchEarned
<1> QED BY <1>2, <1>3, PTL

-----------------------------------------------------------------------------
(* A validated module was seen and passed *)

EarnedCount == Cardinality(EarnedSlices)

Passes(e) == e.action = "quiz.submitted" /\ e.quiz = "post_module" /\ e.passed

PassJournalled == \E k \in DOMAIN chain : Passes(chain[k])

\* What a progress shows is in the chain and was played.
Justified(progress) ==
    /\ progress.covered <= EarnedCount
    /\ progress.quizPassed => PassJournalled

EarnedInv ==
    /\ Justified(enrollment)
    /\ \A h \in Handlers : Justified(job[h].copy)
    /\ CompletionEarned

LEMMA SlicesAreFinite ==
    ASSUME NEW S \in SUBSET (0 .. SegmentCount - 1)
    PROVE  IsFiniteSet(S) /\ Cardinality(S) \in Nat
<1>1. IsFiniteSet(0 .. SegmentCount - 1)
  <2>1. 0 \in Int /\ SegmentCount - 1 \in Int
    BY SegmentCountIsNat
  <2> QED BY <2>1, FS_Interval
<1> QED BY <1>1, FS_Subset, FS_CardinalityType

LEMMA EarnedSlicesFinite == IsFiniteSet(EarnedSlices) /\ EarnedCount \in Nat
BY SlicesAreFinite DEF EarnedSlices, EarnedCount

LEMMA EarnedCountGrows ==
    ASSUME TypeInv, SlicesInv, [Next]_vars
    PROVE  EarnedCount \in Nat /\ EarnedCount' \in Nat /\ EarnedCount <= EarnedCount'
<1>1. EarnedSlices \subseteq EarnedSlices'
  BY SlicesStep
<1>2. IsFiniteSet(EarnedSlices') /\ EarnedCount' \in Nat
  <2>1. EarnedSlices' \in SUBSET (0 .. SegmentCount - 1)
    BY DEF EarnedSlices
  <2> QED BY <2>1, SlicesAreFinite DEF EarnedCount
<1>3. Cardinality(EarnedSlices) <= Cardinality(EarnedSlices')
  BY <1>1, <1>2, FS_Subset
<1> QED BY <1>2, <1>3, EarnedSlicesFinite DEF EarnedCount

LEMMA SameInterval ==
    ASSUME NEW m \in Nat, NEW n \in Nat, 1 .. m = 1 .. n
    PROVE  m = n
<1>1. CASE m < n
  <2>1. n \in 1 .. n /\ n \notin 1 .. m
    BY <1>1
  <2> QED BY <2>1
<1>2. CASE n < m
  <2>1. m \in 1 .. m /\ m \notin 1 .. n
    BY <1>2
  <2> QED BY <2>1
<1> QED BY <1>1, <1>2

\* What is carried over to an enrollment is justified by the copy, the record and the
\* grade.
LEMMA ProgressJustified ==
    ASSUME NEW copy \in Progress, NEW c \in Record, NEW graded \in BOOLEAN, NEW passed \in BOOLEAN,
           copy.covered <= EarnedCount, c.segments \subseteq EarnedSlices
    PROVE  LET e == ApplyProgress(copy, c, graded, passed)
           IN  /\ e \in Progress /\ e.covered <= EarnedCount
               /\ e.quizPassed => copy.quizPassed \/ (graded /\ passed)
               /\ e.completed /\ ~ copy.completed => e.covered >= MinSegments /\ e.quizPassed
<1> DEFINE r == Report(copy, c, graded, passed)
           e == ApplyProgress(copy, c, graded, passed)
<1>1. CoveredSegments(c) <= EarnedCount /\ CoveredSegments(c) \in Int
  <2>1. CoveredSegments(c) \in 0 .. SegmentCount
    BY CoveredIsBounded DEF Record
  <2>2. Cardinality(c.segments) <= Cardinality(EarnedSlices)
    BY EarnedSlicesFinite, FS_Subset
  <2> QED BY <2>1, <2>2, SegmentCountIsNat DEF CoveredSegments, EarnedCount
<1>2. r \in Progress /\ e \in Progress
  BY ApplyProgressKeepsProgress
<1>3. /\ r.covered <= EarnedCount
      /\ r.quizPassed => copy.quizPassed \/ (graded /\ passed)
      /\ r.completed = copy.completed
  BY <1>1 DEF Report, Progress
<1> HIDE DEF r
<1>4. /\ e.covered = r.covered /\ e.quizPassed = r.quizPassed
      /\ e.completed = (r.completed \/ Complete(r))
  BY <1>2 DEF ApplyProgress, Progress, r
<1> HIDE DEF e
<1>5. e.completed /\ ~ copy.completed => e.covered >= MinSegments /\ e.quizPassed
  BY <1>3, <1>4 DEF Complete
<1> QED BY <1>2, <1>3, <1>4, <1>5 DEF e

\* What a signal adds to the chain.
LEMMA ProgressAdds ==
    ASSUME TypeInv, NEW h \in Handlers, PutProgress(h)
    PROVE  LET e == ApplyProgress(job[h].copy, job[h].seen, FALSE, FALSE)
           IN  \E top \in Nat :
                  /\ DOMAIN chain = 1 .. top
                  /\ \A j \in DOMAIN chain' :
                         \/ j \in DOMAIN chain
                         \/ /\ j = top + 1 /\ chain'[j] = Completed(h, e.covered)
                            /\ e.completed /\ ~ job[h].copy.completed
<1> DEFINE e == ApplyProgress(job[h].copy, job[h].seen, FALSE, FALSE)
           c == Completed(h, e.covered)
<1>1. chain' = IF e.completed /\ ~ job[h].copy.completed THEN Append(chain, c) ELSE chain
  BY DEF PutProgress
<1>2. c \in Event /\ chain \in Seq(Event)
  BY ProgressTyped DEF TypeInv, TypeOK
<1> HIDE DEF c, e
<1>3. PICK top \in Nat : top = Len(chain) /\ DOMAIN chain = 1 .. top
  BY <1>2
<1>4. ASSUME NEW j \in DOMAIN chain'
      PROVE  \/ j \in DOMAIN chain
             \/ j = top + 1 /\ chain'[j] = c /\ e.completed /\ ~ job[h].copy.completed
  <2>1. CASE e.completed /\ ~ job[h].copy.completed
    <3>1. DOMAIN chain' = 1 .. top + 1 /\ chain'[top + 1] = c
      BY <1>1, <1>2, <1>3, <2>1, GrownByOne
    <3>2. j \in 1 .. top \/ j = top + 1
      BY <3>1
    <3> QED BY <1>3, <2>1, <3>1, <3>2
  <2>2. CASE ~ (e.completed /\ ~ job[h].copy.completed)
    BY <1>1, <2>2
  <2> QED BY <2>1, <2>2
<1> QED BY <1>3, <1>4 DEF c, e

\* What a submission shows is justified once it is in the chain.
LEMMA GradeJustified ==
    ASSUME TypeInv, SlicesInv, NEW h \in Handlers, job[h].pc = "submit", Justified(job[h].copy)
    PROVE  /\ Graded(h) \in Progress /\ Graded(h).covered <= EarnedCount
           /\ Graded(h).quizPassed => PassJournalled \/ Passes(Submitted(h))
           /\ Graded(h).completed /\ ~ job[h].copy.completed =>
                  Graded(h).covered >= MinSegments /\ Graded(h).quizPassed
<1> DEFINE copy == job[h].copy
           e == ApplyProgress(copy, job[h].seen, TRUE, job[h].passed)
<1>1. /\ copy \in Progress /\ job[h].seen \in Record /\ job[h].passed \in BOOLEAN
      /\ job[h].quiz \in AllQuizzes /\ job[h].seen.segments \subseteq EarnedSlices
  BY DEF TypeInv, TypeOK, Job, SlicesInv
<1>2. /\ e \in Progress /\ e.covered <= EarnedCount
      /\ e.quizPassed => copy.quizPassed \/ job[h].passed
      /\ e.completed /\ ~ copy.completed => e.covered >= MinSegments /\ e.quizPassed
  BY <1>1, ProgressJustified DEF Justified
<1>3. Graded(h) \in Progress
  BY SubmissionTyped
<1>4. CASE job[h].quiz = "post_module"
  <2>1. Graded(h) = e
    BY <1>4 DEF Graded
  <2>2. job[h].passed => Passes(Submitted(h))
    BY <1>4 DEF Passes, Submitted
  <2> HIDE DEF e
  <2> QED BY <1>2, <1>3, <2>1, <2>2 DEF Justified
<1>5. CASE job[h].quiz # "post_module"
  <2>1. /\ Graded(h).covered = copy.covered /\ Graded(h).quizPassed = copy.quizPassed
        /\ Graded(h).completed = copy.completed
    BY <1>1, <1>5 DEF Graded, AllQuizzes, Progress
  <2> QED BY <1>3, <2>1 DEF Justified
<1> QED BY <1>4, <1>5

\* A module validated by the k-th event was earned and passed by then.
EarnedAt(k) ==
    chain[k].action = "module.completed" =>
        /\ \E j \in 1 .. k - 1 : Passes(chain[j])
        /\ chain[k].covered >= MinSegments
        /\ chain[k].covered <= EarnedCount

LEMMA CompletionUnfolded == CompletionEarned <=> \A k \in DOMAIN chain : EarnedAt(k)
BY DEF CompletionEarned, EarnedAt, Passes, EarnedCount, EarnedSlices

LEMMA EarnedStep ==
    ASSUME TypeInv, SlicesInv, EarnedInv, [Next]_vars
    PROVE  EarnedInv'
<1>1. EarnedCount \in Nat /\ EarnedCount' \in Nat /\ EarnedCount <= EarnedCount'
  BY EarnedCountGrows
<1>2. PICK top \in Nat : DOMAIN chain = 1 .. top
  BY ChainOnlyGrows
<1>3. DOMAIN chain \subseteq DOMAIN chain' /\ \A k \in DOMAIN chain : chain'[k] = chain[k]
  BY ChainOnlyGrows
<1>4. PassJournalled => PassJournalled'
  BY <1>3 DEF PassJournalled
<1>5. ASSUME NEW p \in Progress, Justified(p)
      PROVE  Justified(p)'
  <2>1. p.covered \in Int
    BY SegmentCountIsNat DEF Progress
  <2> QED BY <1>1, <1>4, <1>5, <2>1 DEF Justified
<1>6. ASSUME NEW k \in DOMAIN chain
      PROVE  EarnedAt(k)'
  <2>1. EarnedAt(k)
    BY CompletionUnfolded DEF EarnedInv
  <2>2. chain'[k] = chain[k] /\ \A j \in 1 .. k - 1 : j \in DOMAIN chain /\ chain'[j] = chain[j]
    BY <1>2, <1>3
  <2>3. chain \in Seq(Event)
    BY DEF TypeInv, TypeOK
  <2>4. chain[k] \in Event
    BY <2>3
  <2>5. chain[k].covered \in Int
    BY <2>4, SegmentCountIsNat DEF Event
  <2> QED BY <1>1, <2>1, <2>2, <2>5 DEF EarnedAt
<1>7. ASSUME UNCHANGED <<enrollment, chain>>
      PROVE  Justified(enrollment)' /\ \A k \in DOMAIN chain' : EarnedAt(k)'
  BY <1>5, <1>6, <1>7 DEF EarnedInv, TypeInv, TypeOK
<1>8. ASSUME NEW h \in Handlers, PutProgress(h)
      PROVE  Justified(enrollment)' /\ \A k \in DOMAIN chain' : EarnedAt(k)'
  <2> DEFINE copy == job[h].copy
             e == ApplyProgress(copy, job[h].seen, FALSE, FALSE)
  <2>1. /\ copy \in Progress /\ job[h].seen \in Record
        /\ job[h].seen.segments \subseteq EarnedSlices /\ Justified(copy)
    BY DEF TypeInv, TypeOK, Job, SlicesInv, EarnedInv
  <2>2. /\ e \in Progress /\ e.covered <= EarnedCount
        /\ e.quizPassed => copy.quizPassed
        /\ e.completed /\ ~ copy.completed => e.covered >= MinSegments /\ e.quizPassed
    BY <2>1, ProgressJustified DEF Justified
  <2>3. enrollment' = e
    BY <1>8 DEF PutProgress
  <2>4. \A j \in DOMAIN chain' : j \notin DOMAIN chain =>
           /\ j = top + 1 /\ chain'[j] = Completed(h, e.covered)
           /\ e.completed /\ ~ copy.completed
    <3>1. PICK n \in Nat :
            /\ DOMAIN chain = 1 .. n
            /\ \A j \in DOMAIN chain' :
                   \/ j \in DOMAIN chain
                   \/ /\ j = n + 1 /\ chain'[j] = Completed(h, e.covered)
                      /\ e.completed /\ ~ copy.completed
      BY <1>8, ProgressAdds
    <3>2. n = top
      BY <1>2, <3>1, SameInterval
    <3> QED BY <3>1, <3>2
  <2>5. Completed(h, e.covered).covered = e.covered
    BY DEF Completed
  <2> HIDE DEF e, copy
  <2>6. e.quizPassed => PassJournalled
    BY <2>1, <2>2 DEF Justified
  <2>7. Justified(e)
    BY <2>2, <2>6 DEF Justified
  <2>8. ASSUME NEW k \in DOMAIN chain', k \notin DOMAIN chain
        PROVE  EarnedAt(k)'
    <3>1. k = top + 1 /\ chain'[k].covered = e.covered /\ e.covered >= MinSegments /\ e.quizPassed
      BY <2>2, <2>4, <2>5, <2>8
    <3>2. \E j \in 1 .. k - 1 : Passes(chain'[j])
      BY <1>2, <1>3, <2>6, <3>1 DEF PassJournalled
    <3>3. e.covered <= EarnedCount'
      BY <1>1, <2>2, SegmentCountIsNat DEF Progress
    <3> QED BY <3>1, <3>2, <3>3 DEF EarnedAt
  <2>9. Justified(enrollment)'
    <3>1. e.covered <= EarnedCount'
      BY <1>1, <2>2, SegmentCountIsNat DEF Progress
    <3> QED BY <1>4, <2>3, <2>6, <3>1 DEF Justified
  <2> QED BY <1>6, <2>8, <2>9
<1>9. ASSUME NEW h \in Handlers, PutSubmission(h)
      PROVE  Justified(enrollment)' /\ \A k \in DOMAIN chain' : EarnedAt(k)'
  <2>1. job[h].pc = "submit" /\ enrollment' = Graded(h)
    BY <1>9 DEF PutSubmission
  <2>2. /\ Graded(h) \in Progress /\ Graded(h).covered <= EarnedCount
        /\ Graded(h).quizPassed => PassJournalled \/ Passes(Submitted(h))
        /\ Graded(h).completed /\ ~ job[h].copy.completed =>
               Graded(h).covered >= MinSegments /\ Graded(h).quizPassed
    BY <2>1, GradeJustified DEF EarnedInv
  <2>3. /\ top + 1 \in DOMAIN chain' /\ chain'[top + 1] = Submitted(h)
        /\ \A j \in DOMAIN chain' :
               j \in DOMAIN chain \/ j = top + 1
                   \/ (j = top + 2 /\ Validates(h, chain'[j]))
    <3>1. PICK n \in Nat :
            /\ DOMAIN chain = 1 .. n
            /\ n + 1 \in DOMAIN chain' /\ chain'[n + 1] = Submitted(h)
            /\ \A j \in DOMAIN chain' :
                   j \in DOMAIN chain \/ j = n + 1
                       \/ (j = n + 2 /\ Validates(h, chain'[j]))
      BY <1>9, SubmissionAdds
    <3>2. n = top
      BY <1>2, <3>1, SameInterval
    <3> QED BY <3>1, <3>2
  <2>4. Graded(h).covered <= EarnedCount' /\ Graded(h).covered \in Int
    BY <1>1, <2>2, SegmentCountIsNat DEF Progress
  <2>5. Justified(enrollment)'
    <3>1. Graded(h).quizPassed => PassJournalled'
      BY <1>4, <2>2, <2>3 DEF PassJournalled
    <3> QED BY <2>1, <2>4, <3>1 DEF Justified
  <2>6. Submitted(h).action # "module.completed"
    BY DEF Submitted
  <2>7. ASSUME NEW k \in DOMAIN chain', k \notin DOMAIN chain
        PROVE  EarnedAt(k)'
    <3>1. CASE k = top + 1
      BY <2>3, <2>6, <3>1 DEF EarnedAt
    <3>2. CASE k = top + 2 /\ Validates(h, chain'[k])
      <4>1. /\ chain'[k].covered = Graded(h).covered
            /\ Graded(h).covered >= MinSegments /\ Graded(h).quizPassed
        BY <2>2, <3>2 DEF Validates, Completed
      <4>2. \E j \in 1 .. k - 1 : Passes(chain'[j])
        <5>1. top + 1 \in 1 .. k - 1 /\ \A j \in 1 .. top : j \in 1 .. k - 1
          BY <3>2
        <5> QED BY <1>2, <1>3, <2>2, <2>3, <4>1, <5>1 DEF PassJournalled
      <4> QED BY <2>4, <4>1, <4>2 DEF EarnedAt
    <3> QED BY <2>3, <2>7, <3>1, <3>2
  <2> QED BY <1>6, <2>5, <2>7
<1>10. Justified(enrollment)' /\ \A k \in DOMAIN chain' : EarnedAt(k)'
  BY <1>7, <1>8, <1>9, OnlyPutsWrite
<1>11. ASSUME NEW g \in Handlers
       PROVE  Justified(job[g].copy)'
  <2>1. PICK p \in Progress : p = job'[g].copy /\ Justified(p)
    <3>1. job'[g].copy \in {job[g].copy, NewEnrollment, enrollment}
      BY CopiesAreRead
    <3>2. job[g].copy \in Progress /\ enrollment \in Progress /\ NewEnrollment \in Progress
      BY NewProgress DEF TypeInv, TypeOK, Job
    <3>3. Justified(NewEnrollment)
      BY <1>1 DEF Justified, NewEnrollment
    <3> QED BY <3>1, <3>2, <3>3 DEF EarnedInv
  <2>2. Justified(p)'
    BY <1>5, <2>1
  <2> QED BY <2>1, <2>2 DEF Justified
<1>12. CompletionEarned'
  BY <1>10 DEF CompletionEarned, EarnedAt, Passes, EarnedCount, EarnedSlices
<1> QED BY <1>10, <1>11, <1>12 DEF EarnedInv

\* A module validated in the chain was really seen and passed, both, before: neither lost
\* updates nor a coverage that could not be read validate one (CompletionEarned,
\* catalog/model.go:276-287).
THEOREM CompletionIsEarned == Spec => []CompletionEarned
<1>1. Init => EarnedInv
  <2> SUFFICES ASSUME Init PROVE EarnedInv
    OBVIOUS
  <2>1. EarnedCount \in Nat
    BY EarnedSlicesFinite
  <2>2. Justified(NewEnrollment)
    BY <2>1 DEF Justified, NewEnrollment
  <2>3. enrollment = NewEnrollment /\ chain = <<>> /\ \A h \in Handlers : job[h].copy = NewEnrollment
    BY DEF Init, Idle
  <2>4. CompletionEarned
    BY <2>3 DEF CompletionEarned
  <2> QED BY <2>2, <2>3, <2>4 DEF EarnedInv
<1>2. Spec => [](TypeInv /\ SlicesInv /\ EarnedInv)
  <2>1. TypeInv /\ SlicesInv /\ EarnedInv /\ [Next]_vars => (TypeInv /\ SlicesInv /\ EarnedInv)'
    BY TypeStep, SlicesStep, EarnedStep
  <2> QED BY <1>1, <2>1, TypeInit, SlicesInit, PTL DEF Spec
<1>3. EarnedInv => CompletionEarned
  BY DEF EarnedInv
<1> QED BY <1>2, <1>3, PTL

-----------------------------------------------------------------------------
(* Gaps: what the scan of the bitmap computes, by induction on the slices. *)
(* The induction theorems take a predicate as a parameter; that Nat is     *)
(* well founded takes none, and a smallest counterexample does as well.    *)

LessOnNat == {p \in Nat \X Nat : p[1] < p[2]}

LEMMA LessIsWellFounded == IsWellFoundedOn(LessOnNat, Nat)
<1>1. LessOnNat = OpToRel(<, Nat)
  BY DEF LessOnNat, OpToRel
<1> QED BY <1>1, NatLessThanWellFounded

\* A set of numbers that has 0, and the successor of each up to n, has them all.
LEMMA CountingUp ==
    ASSUME NEW n \in Nat, NEW T, 0 \in T, \A i \in 0 .. n - 1 : i \in T => i + 1 \in T
    PROVE  \A i \in 0 .. n : i \in T
<1> DEFINE Missed == {i \in 0 .. n : i \notin T}
<1>1. SUFFICES ASSUME Missed # {} PROVE FALSE
  OBVIOUS
<1>2. Missed \subseteq Nat
  OBVIOUS
<1>3. \E i \in Missed : \A j \in Missed : <<j, i>> \notin LessOnNat
  <2> HIDE DEF Missed
  <2> QED BY <1>1, <1>2, LessIsWellFounded, WFMin
<1>4. PICK i \in Missed : \A j \in Missed : <<j, i>> \notin LessOnNat
  BY <1>3
<1>5. i \in 1 .. n /\ i \notin T
  OBVIOUS
<1>6. PICK j \in Nat : j = i - 1
  BY <1>5
<1>7. j \in 0 .. n - 1 /\ j \notin T /\ j + 1 = i
  BY <1>5, <1>6
<1>8. <<j, i>> \in LessOnNat
  BY <1>5, <1>7 DEF LessOnNat
<1> QED BY <1>4, <1>7, <1>8

NoGapYet == [open |-> -1, list |-> <<>>]

ScansTo(c, n, f) == f = [i \in 0 .. n |-> IF i = 0 THEN NoGapYet ELSE Scanned(c, f[i - 1], i - 1)]

LEMMA ScanExists == ASSUME NEW c PROVE \A n \in 0 .. SegmentCount : \E f : ScansTo(c, n, f)
<1> DEFINE T == {n \in Nat : \E f : ScansTo(c, n, f)}
<1>1. 0 \in T
  <2>1. ScansTo(c, 0, [i \in 0 .. 0 |-> NoGapYet])
    BY DEF ScansTo
  <2> QED BY <2>1
<1>2. ASSUME NEW n \in 0 .. SegmentCount - 1, n \in T PROVE n + 1 \in T
  <2>1. PICK f : ScansTo(c, n, f)
    BY <1>2
  <2>2. PICK g : g = [i \in 0 .. n + 1 |-> IF i = n + 1 THEN Scanned(c, f[n], n) ELSE f[i]]
    OBVIOUS
  <2>3. n \in Nat
    BY SegmentCountIsNat
  <2>4. \A i \in 0 .. n : g[i] = f[i]
    BY <2>2, <2>3
  <2>5. \A i \in 0 .. n : f[i] = IF i = 0 THEN NoGapYet ELSE Scanned(c, f[i - 1], i - 1)
    BY <2>1 DEF ScansTo
  <2>6. ASSUME NEW i \in 0 .. n + 1 PROVE g[i] = IF i = 0 THEN NoGapYet ELSE Scanned(c, g[i - 1], i - 1)
    <3>1. CASE i = n + 1
      <4>1. i # 0 /\ i - 1 = n /\ g[i] = Scanned(c, f[n], n) /\ g[n] = f[n]
        BY <2>2, <2>3, <2>4, <3>1
      <4> QED BY <4>1
    <3>2. CASE i \in 0 .. n
      <4>1. i # 0 => i - 1 \in 0 .. n
        BY <2>3, <3>2
      <4> QED BY <2>4, <2>5, <3>2, <4>1
    <3> QED BY <2>3, <3>1, <3>2
  <2>7. ScansTo(c, n + 1, g)
    <3>1. g = [i \in 0 .. n + 1 |-> g[i]]
      BY <2>2
    <3>2. [i \in 0 .. n + 1 |-> g[i]] = [i \in 0 .. n + 1 |-> IF i = 0 THEN NoGapYet ELSE Scanned(c, g[i - 1], i - 1)]
      BY <2>6
    <3> QED BY <3>1, <3>2 DEF ScansTo
  <2> QED BY <2>3, <2>7
<1>3. \A i \in 0 .. SegmentCount : i \in T
  <2> HIDE DEF T
  <2> QED BY <1>1, <1>2, SegmentCountIsNat, CountingUp
<1> QED BY <1>3

LEMMA ScanIs ==
    ASSUME NEW c
    PROVE  \A i \in 0 .. SegmentCount :
               Scan(c)[i] = IF i = 0 THEN NoGapYet ELSE Scanned(c, Scan(c)[i - 1], i - 1)
<1>1. PICK f : ScansTo(c, SegmentCount, f)
  BY ScanExists, SegmentCountIsNat
<1>2. Scan(c) = CHOOSE g : g = [i \in 0 .. SegmentCount |->
                                IF i = 0 THEN NoGapYet ELSE Scanned(c, g[i - 1], i - 1)]
  BY DEF Scan, NoGapYet
<1>3. Scan(c) = CHOOSE g : ScansTo(c, SegmentCount, g)
  BY <1>2 DEF ScansTo
<1>4. ScansTo(c, SegmentCount, Scan(c))
  BY <1>1, <1>3
<1> QED BY <1>4 DEF ScansTo

LEMMA Multiples ==
    ASSUME NEW a \in Nat, NEW b \in Nat
    PROVE  /\ a * SegmentMs \in Nat
           /\ a < b <=> a * SegmentMs < b * SegmentMs
           /\ a <= b <=> a * SegmentMs <= b * SegmentMs
<1>1. SegmentMs \in Nat /\ SegmentMs >= 1
  BY CoverageConstants
<1>2. ASSUME NEW x \in Nat, NEW y \in Nat, x < y PROVE x * SegmentMs < y * SegmentMs
  <2>1. PICK d \in Nat : d = y - x - 1
    BY <1>2
  <2>2. y = x + d + 1
    BY <1>2, <2>1
  <2>3. y * SegmentMs = x * SegmentMs + d * SegmentMs + SegmentMs
    BY <1>1, <2>2
  <2>4. d * SegmentMs \in Nat /\ x * SegmentMs \in Nat
    BY <1>1
  <2> QED BY <1>1, <2>3, <2>4
<1>3. a * SegmentMs \in Nat /\ b * SegmentMs \in Nat
  BY <1>1
<1>4. (a < b => a * SegmentMs < b * SegmentMs) /\ (b < a => b * SegmentMs < a * SegmentMs)
  BY <1>2
<1>5. a = b => a * SegmentMs = b * SegmentMs
  OBVIOUS
<1> QED BY <1>3, <1>4, <1>5

\* The last slice begins before the end of the module.
LEMMA LastSlice == SegmentCount \in Nat \ {0} /\ (SegmentCount - 1) * SegmentMs < DurationMs
<1>1. DurationMs \in Nat /\ DurationMs >= 1 /\ SegmentMs \in Nat /\ SegmentMs >= 1
  BY CoverageConstants
<1>2. PICK n \in Nat : n = DurationMs + SegmentMs - 1
  BY <1>1
<1>3. PICK q \in Nat : q = n \div SegmentMs
  BY <1>1
<1>4. q * SegmentMs <= n /\ q >= 1
  BY <1>1, <1>2, <1>3
<1>5. (q - 1) * SegmentMs = q * SegmentMs - SegmentMs
  BY <1>1
<1>6. q * SegmentMs - SegmentMs < DurationMs
  BY <1>1, <1>2, <1>4
<1> QED BY <1>2, <1>3, <1>4, <1>5, <1>6 DEF SegmentCount

GapList == Seq(Nat \X Nat)

\* Instant t is in a gap of the list.
InGap(list, t) == \E k \in DOMAIN list : list[k][1] <= t /\ t < list[k][2]

\* The gaps of a list are intervals that end by the time until, in order and apart.
InOrder(list, until) ==
    /\ list \in GapList
    /\ \A k \in DOMAIN list : list[k][1] < list[k][2] /\ list[k][2] <= until
    /\ \A k \in DOMAIN list : k > 1 => list[k - 1][2] < list[k][1]

\* What the scan has found before slice i.
Found(c, i, list, open) ==
    /\ open \in -1 .. i - 1
    /\ list \in GapList
    /\ i = 0 => list = <<>>
    /\ i > 0 => InOrder(list, (i - 1) * SegmentMs)
    /\ open >= 0 => \A k \in DOMAIN list : list[k][2] < open * SegmentMs
    /\ \A j \in 0 .. i - 1 :
          j \notin c.segments <=> (InGap(list, j * SegmentMs) \/ (open >= 0 /\ open <= j))

FoundBefore(c, i, found) ==
    \E list, open : found = [open |-> open, list |-> list] /\ Found(c, i, list, open)

\* One more gap at the end of a list.
LEMMA OneMoreGap ==
    ASSUME NEW list, NEW from \in Nat, NEW to \in Nat, NEW until \in Nat, NEW before \in Nat,
           InOrder(list, before), before <= until, from < to, to <= until,
           \A k \in DOMAIN list : list[k][2] < from
    PROVE  /\ InOrder(Append(list, <<from, to>>), until)
           /\ \A t \in Nat : InGap(Append(list, <<from, to>>), t) <=> (InGap(list, t) \/ (from <= t /\ t < to))
<1>1. PICK longer : longer = Append(list, <<from, to>>)
  OBVIOUS
<1>2. PICK n \in Nat : n = Len(list) /\ DOMAIN list = 1 .. n
  BY DEF InOrder, GapList
<1>3. /\ longer \in GapList /\ DOMAIN longer = 1 .. n + 1 /\ longer[n + 1] = <<from, to>>
      /\ \A k \in 1 .. n : longer[k] = list[k] /\ list[k] \in Nat \X Nat
  BY <1>1, <1>2 DEF InOrder, GapList
<1>4. \A k \in 1 .. n + 1 : longer[k][1] < longer[k][2] /\ longer[k][2] <= until
  <2>1. ASSUME NEW k \in 1 .. n PROVE longer[k][1] < longer[k][2] /\ longer[k][2] <= until
    <3>1. list[k][1] < list[k][2] /\ list[k][2] <= before /\ list[k] \in Nat \X Nat
      BY <1>2, <1>3 DEF InOrder
    <3> QED BY <1>3, <3>1
  <2>2. longer[n + 1][1] < longer[n + 1][2] /\ longer[n + 1][2] <= until
    BY <1>3
  <2>3. \A k \in 1 .. n + 1 : k \in 1 .. n \/ k = n + 1
    OBVIOUS
  <2> QED BY <2>1, <2>2, <2>3
<1>5. ASSUME NEW k \in 1 .. n + 1, k > 1 PROVE longer[k - 1][2] < longer[k][1]
  <2>1. k - 1 \in 1 .. n /\ longer[k - 1] = list[k - 1]
    BY <1>3, <1>5
  <2>2. CASE k = n + 1
    BY <1>2, <1>3, <2>1, <2>2
  <2>3. CASE k \in 1 .. n
    <3>1. list[k - 1][2] < list[k][1]
      BY <1>2, <1>5, <2>3 DEF InOrder
    <3> QED BY <1>3, <2>1, <2>3, <3>1
  <2> QED BY <2>2, <2>3
<1>6. \A t \in Nat : InGap(longer, t) <=> (InGap(list, t) \/ (from <= t /\ t < to))
  BY <1>2, <1>3 DEF InGap
<1>7. InOrder(longer, until)
  BY <1>3, <1>4, <1>5 DEF InOrder
<1> QED BY <1>1, <1>6, <1>7

LEMMA InOrderLater ==
    ASSUME NEW list, NEW before \in Nat, NEW until \in Nat, InOrder(list, before), before <= until
    PROVE  InOrder(list, until)
<1>1. \A k \in DOMAIN list : list[k] \in Nat \X Nat
  BY DEF InOrder, GapList
<1> QED BY <1>1 DEF InOrder

LEMMA ScanStep ==
    ASSUME NEW c, NEW i \in 0 .. SegmentCount - 1, NEW found, FoundBefore(c, i, found)
    PROVE  FoundBefore(c, i + 1, Scanned(c, found, i))
<1>1. PICK list, open :
        /\ found = [open |-> open, list |-> list]
        /\ open \in -1 .. i - 1
        /\ list \in GapList
        /\ i = 0 => list = <<>>
        /\ i > 0 => InOrder(list, (i - 1) * SegmentMs)
        /\ open >= 0 => \A k \in DOMAIN list : list[k][2] < open * SegmentMs
        /\ \A j \in 0 .. i - 1 :
              j \notin c.segments <=> (InGap(list, j * SegmentMs) \/ (open >= 0 /\ open <= j))
  BY DEF FoundBefore, Found
<1>2. found.open = open /\ found.list = list /\ i \in Nat /\ i + 1 - 1 = i
  BY <1>1, SegmentCountIsNat
<1>3. /\ i * SegmentMs \in Nat /\ (i > 0 => (i - 1) * SegmentMs \in Nat /\ (i - 1) * SegmentMs < i * SegmentMs)
  <2>1. i > 0 => i - 1 \in Nat /\ i - 1 < i
    BY <1>2
  <2> QED BY <1>2, <2>1, Multiples
<1>4. \E before \in Nat : InOrder(list, before) /\ before <= i * SegmentMs /\ (i > 0 => before < i * SegmentMs)
  <2>1. CASE i = 0
    <3>1. InOrder(<<>>, 0)
      BY DEF InOrder, GapList
    <3> QED BY <1>1, <1>3, <2>1, <3>1
  <2>2. CASE i > 0
    BY <1>1, <1>3, <2>2
  <2> QED BY <1>2, <2>1, <2>2
<1>5. InOrder(list, i * SegmentMs) /\ \A k \in DOMAIN list : list[k] \in Nat \X Nat
  BY <1>3, <1>4, InOrderLater DEF InOrder, GapList
<1>6. \A k \in DOMAIN list : list[k][2] < i * SegmentMs
  <2>1. i = 0 => DOMAIN list = {}
    BY <1>1
  <2>2. CASE i > 0
    <3>1. InOrder(list, (i - 1) * SegmentMs)
      BY <1>1, <2>2
    <3> QED BY <1>3, <1>5, <2>2, <3>1 DEF InOrder
  <2> QED BY <1>2, <2>1, <2>2
<1>7. ~ InGap(list, i * SegmentMs)
  BY <1>3, <1>5, <1>6 DEF InGap
<1>8. CASE i \notin c.segments /\ open < 0
  <2>1. Scanned(c, found, i) = [open |-> i, list |-> list]
    BY <1>1, <1>2, <1>8 DEF Scanned
  <2>2. \A j \in 0 .. i : j \notin c.segments <=> (InGap(list, j * SegmentMs) \/ (i >= 0 /\ i <= j))
    BY <1>1, <1>2, <1>7, <1>8
  <2>3. i + 1 # 0 /\ i \in -1 .. i /\ 0 .. i + 1 - 1 = 0 .. i
    BY <1>2
  <2>4. Found(c, i + 1, list, i)
    BY <1>1, <1>2, <1>5, <1>6, <2>2, <2>3 DEF Found
  <2> QED BY <2>1, <2>4 DEF FoundBefore
<1>9. CASE i \in c.segments /\ open >= 0
  <2>1. PICK from \in Nat : from = open * SegmentMs /\ open \in Nat
    BY <1>1, <1>2, <1>9, Multiples
  <2>2. PICK to \in Nat : to = i * SegmentMs
    BY <1>3
  <2>3. Scanned(c, found, i) = [open |-> -1, list |-> Append(list, <<from, to>>)]
    BY <1>2, <1>9, <2>1, <2>2 DEF Scanned
  <2>4. from < to
    BY <1>1, <1>2, <2>1, <2>2, Multiples
  <2>5. \A k \in DOMAIN list : list[k][2] < from
    BY <1>1, <1>9, <2>1
  <2>6. /\ InOrder(Append(list, <<from, to>>), to)
        /\ \A t \in Nat : InGap(Append(list, <<from, to>>), t) <=> (InGap(list, t) \/ (from <= t /\ t < to))
    BY <1>5, <2>2, <2>4, <2>5, OneMoreGap
  <2>7. ASSUME NEW j \in 0 .. i
        PROVE  j \notin c.segments <=> (InGap(Append(list, <<from, to>>), j * SegmentMs) \/ (-1 >= 0 /\ -1 <= j))
    <3>1. j \in Nat /\ j * SegmentMs \in Nat
      BY <1>2, Multiples
    <3>2. from <= j * SegmentMs <=> open <= j
      BY <2>1, <3>1, Multiples
    <3>3. j * SegmentMs < to <=> j < i
      BY <1>2, <2>2, <3>1, Multiples
    <3>4. CASE j = i
      BY <1>2, <1>7, <1>9, <2>6, <3>1, <3>3, <3>4
    <3>5. CASE j \in 0 .. i - 1
      BY <1>1, <1>9, <2>6, <3>1, <3>2, <3>3, <3>5
    <3> QED BY <1>2, <3>4, <3>5
  <2>8. PICK longer : longer = Append(list, <<from, to>>)
    OBVIOUS
  <2>9. i + 1 # 0 /\ -1 \in -1 .. i + 1 - 1 /\ InOrder(longer, (i + 1 - 1) * SegmentMs)
    BY <1>2, <2>2, <2>6, <2>8
  <2>10. longer \in GapList
    BY <2>9 DEF InOrder
  <2>11. \A j \in 0 .. i + 1 - 1 : j \notin c.segments <=> (InGap(longer, j * SegmentMs) \/ (-1 >= 0 /\ -1 <= j))
    BY <1>2, <2>7, <2>8
  <2>12. Found(c, i + 1, longer, -1)
    BY <2>9, <2>10, <2>11 DEF Found
  <2> QED BY <2>3, <2>8, <2>12 DEF FoundBefore
<1>10. CASE ~ (i \notin c.segments /\ open < 0) /\ ~ (i \in c.segments /\ open >= 0)
  <2>1. Scanned(c, found, i) = [open |-> open, list |-> list]
    BY <1>1, <1>2, <1>10 DEF Scanned
  <2>2. \A j \in 0 .. i : j \notin c.segments <=> (InGap(list, j * SegmentMs) \/ (open >= 0 /\ open <= j))
    BY <1>1, <1>2, <1>7, <1>10
  <2>3. open \in -1 .. i
    BY <1>1, <1>2
  <2>4. i + 1 # 0 /\ 0 .. i + 1 - 1 = 0 .. i /\ -1 .. i + 1 - 1 = -1 .. i
    BY <1>2
  <2>5. Found(c, i + 1, list, open)
    BY <1>1, <1>2, <1>5, <2>2, <2>3, <2>4 DEF Found
  <2> QED BY <2>1, <2>5 DEF FoundBefore
<1> QED BY <1>1, <1>2, <1>8, <1>9, <1>10

LEMMA ScanFinds == ASSUME NEW c PROVE FoundBefore(c, SegmentCount, Scan(c)[SegmentCount])
<1> DEFINE T == {i \in 0 .. SegmentCount : FoundBefore(c, i, Scan(c)[i])}
<1>1. 0 \in T
  <2>1. Scan(c)[0] = NoGapYet
    BY ScanIs, SegmentCountIsNat
  <2>2. FoundBefore(c, 0, NoGapYet)
    <3>1. Found(c, 0, <<>>, -1)
      BY DEF Found, GapList
    <3> QED BY <3>1 DEF FoundBefore, NoGapYet
  <2> QED BY <2>1, <2>2, SegmentCountIsNat
<1>2. ASSUME NEW i \in 0 .. SegmentCount - 1, i \in T PROVE i + 1 \in T
  <2>1. i + 1 \in 0 .. SegmentCount /\ i + 1 # 0 /\ i + 1 - 1 = i
    BY SegmentCountIsNat
  <2>2. Scan(c)[i + 1] = Scanned(c, Scan(c)[i], i)
    BY <2>1, ScanIs
  <2> QED BY <1>2, <2>1, <2>2, ScanStep
<1>3. \A i \in 0 .. SegmentCount : i \in T
  <2> HIDE DEF T
  <2> QED BY <1>1, <1>2, SegmentCountIsNat, CountingUp
<1> QED BY <1>3, SegmentCountIsNat

\* The gaps shown are exactly what was not seen, whatever the bitmap.
LEMMA GapsOfBitmap ==
    ASSUME NEW c
    PROVE  /\ InOrder(Gaps(c), DurationMs)
           /\ \A j \in 0 .. SegmentCount - 1 : j \notin c.segments <=> InGap(Gaps(c), j * SegmentMs)
<1>1. PICK n \in Nat : n = SegmentCount /\ n > 0
  BY LastSlice
<1>2. PICK list, open :
        /\ Scan(c)[n] = [open |-> open, list |-> list]
        /\ open \in -1 .. n - 1
        /\ list \in GapList
        /\ InOrder(list, (n - 1) * SegmentMs)
        /\ open >= 0 => \A k \in DOMAIN list : list[k][2] < open * SegmentMs
        /\ \A j \in 0 .. n - 1 :
              j \notin c.segments <=> (InGap(list, j * SegmentMs) \/ (open >= 0 /\ open <= j))
  BY <1>1, ScanFinds DEF FoundBefore, Found
<1>3. PICK before \in Nat : before = (n - 1) * SegmentMs /\ before < DurationMs
  <2>1. n - 1 \in Nat
    BY <1>1
  <2> QED BY <1>1, <2>1, LastSlice, Multiples
<1>4. DurationMs \in Nat
  BY CoverageConstants
<1>5. Gaps(c) = IF open >= 0 THEN Append(list, <<open * SegmentMs, DurationMs>>) ELSE list
  BY <1>1, <1>2 DEF Gaps, LastGap
<1>6. CASE open < 0
  BY <1>1, <1>2, <1>3, <1>4, <1>5, <1>6, InOrderLater
<1>7. CASE open >= 0
  <2>1. PICK from \in Nat : from = open * SegmentMs /\ open \in Nat
    BY <1>1, <1>2, <1>7, Multiples
  <2>2. from <= before
    <3>1. n - 1 \in Nat /\ open <= n - 1
      BY <1>1, <1>2
    <3> QED BY <1>3, <2>1, <3>1, Multiples
  <2>3. \A k \in DOMAIN list : list[k][2] < from
    BY <1>2, <1>7, <2>1
  <2>4. InOrder(list, before)
    BY <1>2, <1>3
  <2>5. /\ InOrder(Append(list, <<from, DurationMs>>), DurationMs)
        /\ \A t \in Nat : InGap(Append(list, <<from, DurationMs>>), t)
                              <=> (InGap(list, t) \/ (from <= t /\ t < DurationMs))
    BY <1>3, <1>4, <2>2, <2>3, <2>4, OneMoreGap
  <2>6. ASSUME NEW j \in 0 .. n - 1
        PROVE  j \notin c.segments <=> InGap(Append(list, <<from, DurationMs>>), j * SegmentMs)
    <3>1. j \in Nat /\ n - 1 \in Nat /\ j <= n - 1
      BY <1>1
    <3>2. j * SegmentMs \in Nat /\ j * SegmentMs <= before
      BY <1>3, <3>1, Multiples
    <3>3. from <= j * SegmentMs <=> open <= j
      BY <2>1, <3>1, Multiples
    <3> QED BY <1>2, <1>3, <1>4, <1>7, <2>5, <3>2, <3>3
  <2> QED BY <1>1, <1>5, <1>7, <2>1, <2>5, <2>6
<1> QED BY <1>2, <1>6, <1>7

\* The gaps shown to the trainer are exactly the time not covered.
THEOREM GapsAreExact == Spec => []GapsExact
<1>1. GapsExact
  <2>1. PICK gaps : gaps = Gaps(watch)
    OBVIOUS
  <2>2. /\ InOrder(gaps, DurationMs)
        /\ \A j \in 0 .. SegmentCount - 1 : j \notin watch.segments <=> InGap(gaps, j * SegmentMs)
    BY <2>1, GapsOfBitmap
  <2> QED BY <2>1, <2>2 DEF GapsExact, InOrder, InGap
<1> QED BY <1>1, PTL
=============================================================================
