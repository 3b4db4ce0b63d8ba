------------------------------ MODULE Quizzes ------------------------------
(***************************************************************************)
(* The versions of one questionnaire, and what learners make of them       *)
(* (learning/quiz_store.go, quiz/model.go, quiz/grade.go, httpapi/quiz.go, *)
(* httpapi/learning.go).                                                   *)
(*                                                                         *)
(* A version is saved by its number, which the client chooses, then        *)
(* published.  A learner is shown the latest published version and         *)
(* submits; the submission looks the latest published version up again and *)
(* grades the answers on it.  Versions are listed by a query that lags     *)
(* behind the table.  What a submission writes and the count of attempts   *)
(* are in Learning.                                                        *)
(*                                                                         *)
(* The options of a question are numbers, 0 for a blank one; a numeric     *)
(* answer is a number, or a word.  Titles, prompts, explanations, times,   *)
(* the shuffle and free texts are left out.                                *)
(***************************************************************************)
EXTENDS Integers, Sequences, FiniteSets, SequencesExt

CONSTANTS
    Questionnaires,  \* what a version may hold: its questions and its threshold
    Answers,         \* what learners answer: Answers[id] is a sequence of values
    Learners, Editors,
    MaxVersions, MaxEdits, MaxAttempts,
    Words,           \* the values that are no numbers
    Samples, Given,  \* questions by options, and values given to them
    None

ByOptions == {"single", "multiple", "boolean"}

VARIABLES
    versions,    \* versions[v]: its questionnaire, whether it is published, or None
    shownAs,     \* shownAs[v]: what the query lists of version v
    page,        \* page[l]: the version and the questionnaire learner l was shown, or None
    attempts,    \* the attempts graded, in order
    releases,    \* the versions and the questionnaires that were ever published together
    edits,       \* the number of saves and publications
    desk         \* desk[e]: where editor e is

quizVars == <<versions, shownAs, page, attempts, releases, edits, desk>>

-----------------------------------------------------------------------------
(* Validation *)

ValidQuestion(q) ==
    CASE q.type \in ByOptions -> /\ Len(q.options) >= 2
                                 /\ q.points > 0 => q.correct # << >>
                                 /\ ToSet(q.correct) \subseteq ToSet(q.options)
                                 /\ q.type = "single" => Len(q.correct) <= 1
      [] q.type = "numeric"   -> q.tolerance >= 0
      [] q.type = "likert"    -> q.points <= 0

Total(questions) == FoldLeft(LAMBDA sum, q : sum + q.points, 0, questions)

Valid(questionnaire) ==
    /\ questionnaire.questions # << >>
    /\ \A k \in DOMAIN questionnaire.questions : ValidQuestion(questionnaire.questions[k])
    /\ IsInjective([k \in DOMAIN questionnaire.questions |-> questionnaire.questions[k].id])
    /\ questionnaire.graded => Total(questionnaire.questions) # 0
    /\ questionnaire.pass \in 0 .. 100

QuizzesConstants ==
    /\ MaxVersions \in Nat /\ MaxEdits \in Nat /\ MaxAttempts \in Nat
    /\ \A questionnaire \in Questionnaires : Valid(questionnaire)
    /\ \A q \in Samples : q.type \in ByOptions

-----------------------------------------------------------------------------
(* Grading *)

\* Sorted, without blanks nor repetitions.
Normalize(values) == SetToSortSeq(ToSet(values) \ {0}, <)

\* isCorrect: several choices are all or nothing.
Right(q, values) ==
    CASE q.type \in {"single", "boolean"} -> Len(q.correct) = 1 /\ values = q.correct
      [] q.type = "multiple" -> values = SortSeq(q.correct, <)
      [] q.type = "numeric"  -> /\ Len(values) = 1 /\ values[1] \notin Words
                                /\ values[1] - q.expected \in - q.tolerance .. q.tolerance

Scorable(q) == q.type # "likert" /\ q.points > 0

Earned(q, answers) ==
    IF Scorable(q) /\ Right(q, IF q.id \in DOMAIN answers THEN Normalize(answers[q.id]) ELSE << >>)
    THEN q.points ELSE 0

\* A submission without an answer to a required question is refused.
Gradable(questionnaire, answers) ==
    \A k \in DOMAIN questionnaire.questions :
        questionnaire.questions[k].required => questionnaire.questions[k].id \in DOMAIN answers

Score(questionnaire, answers) ==
    FoldLeft(LAMBDA sum, q : sum + Earned(q, answers), 0, questionnaire.questions)

\* A questionnaire that is not graded is passed once it is filled.
Passed(questionnaire, answers) ==
    questionnaire.graded /\ Total(questionnaire.questions) > 0 =>
        Score(questionnaire, answers) * 100 >= questionnaire.pass * Total(questionnaire.questions)

\* What validation accepts, and what grading makes of it: the answer to a question by
\* options is right when the options ticked, blanks aside, are those expected, in any order
\* and however often each is ticked.  A repeated expected option, or several of a
\* true-or-false question, pass validation, and then no answer is right (model.go:113-146).
RightAsSets ==
    \A q \in {sample \in Samples : ValidQuestion(sample)}, values \in Given :
        Right(q, Normalize(values)) <=>
            /\ ToSet(values) \ {0} = ToSet(q.correct)
            /\ IsInjective(q.correct)
            /\ q.type # "multiple" => Len(q.correct) = 1

-----------------------------------------------------------------------------
(* The versions *)

Away == [at |-> "away", version |-> 0, copy |-> None, seen |-> None]

Init ==
    /\ versions = [v \in 1 .. MaxVersions |-> None]
    /\ shownAs = versions
    /\ page = [l \in Learners |-> None]
    /\ attempts = << >> /\ releases = {} /\ edits = 0
    /\ desk = [e \in Editors |-> Away]

Sits(e, d) == desk' = [desk EXCEPT ![e] = d]

\* Faulty: a version is saved whether it is published or not.
FaultyEditable(version) == TRUE

Editable(version) == version # None => ~ version.published

\* The check of a save; a read that fails lets it through.
CheckSave(e) ==
    /\ desk[e].at = "away" /\ edits < MaxEdits /\ edits' = edits + 1
    /\ \E v \in 1 .. MaxVersions, questionnaire \in Questionnaires :
          \/ /\ Editable(versions[v])
             /\ Sits(e, [at |-> "save", version |-> v, copy |-> questionnaire, seen |-> versions[v]])
          \/ Sits(e, [at |-> "saveBlind", version |-> v, copy |-> questionnaire, seen |-> None])
    /\ UNCHANGED <<versions, shownAs, page, attempts, releases>>

\* The record is a new one, and not published.
PutSave(e) ==
    /\ desk[e].at \in {"save", "saveBlind"}
    /\ versions' = [versions EXCEPT ![desk[e].version] = [holds |-> desk[e].copy, published |-> FALSE]]
    /\ Sits(e, Away)
    /\ UNCHANGED <<shownAs, page, attempts, releases, edits>>

ReadPublish(e) ==
    /\ desk[e].at = "away" /\ edits < MaxEdits /\ edits' = edits + 1
    /\ \E v \in 1 .. MaxVersions :
          /\ versions[v] # None
          /\ Sits(e, [at |-> "publish", version |-> v, copy |-> versions[v].holds, seen |-> versions[v]])
    /\ UNCHANGED <<versions, shownAs, page, attempts, releases>>

PutPublish(e) ==
    LET v == desk[e].version IN
    /\ desk[e].at = "publish"
    /\ versions' = [versions EXCEPT ![v] = [holds |-> desk[e].copy, published |-> TRUE]]
    /\ releases' = releases \cup {<<v, desk[e].copy>>}
    /\ Sits(e, Away)
    /\ UNCHANGED <<shownAs, page, attempts, edits>>

Leave(e) == desk[e].at # "away" /\ Sits(e, Away)
            /\ UNCHANGED <<versions, shownAs, page, attempts, releases, edits>>

\* The query lists a version as it is.
CatchUp ==
    /\ \E v \in 1 .. MaxVersions : /\ shownAs[v] # versions[v]
                                   /\ shownAs' = [shownAs EXCEPT ![v] = versions[v]]
    /\ UNCHANGED <<versions, page, attempts, releases, edits, desk>>

-----------------------------------------------------------------------------
(* The learners *)

\* Faulty: a version that is not published counts too.
FaultyReleased(v) == shownAs[v] # None

Released(v) == shownAs[v] # None /\ shownAs[v].published

Latest(v) == Released(v) /\ \A w \in v + 1 .. MaxVersions : ~ Released(w)

GetQuiz(l) ==
    /\ \E v \in 1 .. MaxVersions :
          Latest(v) /\ page' = [page EXCEPT ![l] = [version |-> v, holds |-> shownAs[v].holds]]
    /\ UNCHANGED <<versions, shownAs, attempts, releases, edits, desk>>

SubmitQuiz(l) ==
    /\ page[l] # None /\ Len(attempts) < MaxAttempts
    /\ \E v \in 1 .. MaxVersions, answers \in Answers :
          LET questionnaire == shownAs[v].holds IN
          /\ Latest(v) /\ Gradable(questionnaire, answers)
          /\ attempts' = Append(attempts, [version |-> v, holds |-> questionnaire, shown |-> page[l],
                                           passed |-> Passed(questionnaire, answers)])
    /\ page' = [page EXCEPT ![l] = None]
    /\ UNCHANGED <<versions, shownAs, releases, edits, desk>>

Next ==
    \/ \E e \in Editors : CheckSave(e) \/ PutSave(e) \/ ReadPublish(e) \/ PutPublish(e) \/ Leave(e)
    \/ \E l \in Learners : GetQuiz(l) \/ SubmitQuiz(l)
    \/ CatchUp

Spec == Init /\ [][Next]_quizVars

-----------------------------------------------------------------------------
(* Properties *)

\* A step that rewrites a published version.
RewrittenByRace ==
    \A v \in 1 .. MaxVersions :
        versions[v] # None /\ versions[v].published /\ versions'[v] # versions[v] =>
           \E e \in Editors :
              /\ desk'[e] # desk[e] /\ desk[e].version = v
              /\ desk[e].at = "saveBlind" \/ desk[e].seen # versions[v]

\* A version that is published is rewritten only by a save whose check could not read, or
\* by a race: a save that was checked, or a publication that read, before it was published
\* (quiz_store.go:40-60, 62-69).
OnlyRacesRewrite == [][RewrittenByRace]_quizVars

\* What is graded was published as such, under the number that the attempt keeps, whatever
\* the lag of the list and the races of the editors; and what the learner was shown too
\* (quiz_store.go:71-90, learning.go:313-330).
GradedOnRelease ==
    \A n \in DOMAIN attempts :
        /\ <<attempts[n].version, attempts[n].holds>> \in releases
        /\ <<attempts[n].shown.version, attempts[n].shown.holds>> \in releases

\* Answers are graded on the questions the learner was shown: quiz_store.go:73-75 says that
\* what is under way goes on with its own version.
GradedAsShown ==
    \A n \in DOMAIN attempts : attempts[n].holds = attempts[n].shown.holds
=============================================================================
