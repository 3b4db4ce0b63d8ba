----------------------------- MODULE MCTeaching ------------------------------
(* Small instances of Teaching for TLC.  Its components write records of their own: a     *)
(* behaviour runs one of them, so that TLC explores their sum.                            *)
EXTENDS Teaching, TLC

CONSTANTS Parts, h1, h2, film, book, anatomy, posture, ada, bob, yoga, pilates

VARIABLE part

Content(video, timed) == [video |-> video, timed |-> timed]
SomeContents == {Content(None, FALSE), Content(film, TRUE), Content(film, FALSE)}

AllMentions == {"goal", "audience", "objectives", "assessment", "sanction", "duration"}
Edit(fill, clear) == [fill |-> fill, clear |-> clear]
SomeEdits == {Edit(AllMentions, {}), Edit({}, {"audience"}), Edit({}, {"objectives"})}

TwoHandlers == {h1, h2}

\* The requests of a behaviour and their number.
SomeStories ==
    [S \in {{"edit", "publish", "module"}, {"edit", "cover", "publish"}, {"create", "duplicate", "module"},
            {"library", "delete", "import"}, {"import", "publish", "video"}} |-> 4]

OneVideo == {film}
OneEntry == {book}
TwoSections == {anatomy, posture}

TwoLearners == {ada, bob}
TwoCourses == {yoga, pilates}

\* A single and a multiple choice, of which two points in three pass; a single choice and
\* a number, both needed; and an opinion.
Question(id, type, correct, points) ==
    [id |-> id, type |-> type, correct |-> correct, points |-> points, required |-> TRUE,
     options |-> IF type \in {"numeric", "likert"} THEN << >> ELSE <<1, 2, 3>>, expected |-> 5, tolerance |-> 1]

Form(questions, graded, pass) == [questions |-> questions, graded |-> graded, pass |-> pass]

SomeForms ==
    {Form(<<Question("a", "single", <<1>>, 1), Question("b", "multiple", <<3, 1>>, 2)>>, TRUE, 66),
     Form(<<Question("a", "single", <<2>>, 1), Question("b", "numeric", << >>, 1)>>, TRUE, 100),
     Form(<<Question("a", "likert", << >>, 0)>>, FALSE, 70)}

SomeAnswers == {[a |-> <<1>>, b |-> <<1, 3>>], [a |-> <<1>>], [a |-> <<2>>, b |-> <<4>>],
                [a |-> <<2>>, b |-> <<3, 0, 1, 3>>], [a |-> <<2>>, b |-> <<9>>]}

\* Up to three expected options of three, or of one that is there twice; up to three values
\* of four.
UpTo(n, S) == UNION {[1 .. k -> S] : k \in 0 .. n}

OptionSamples ==
    {[Question("q", type, correct, 1) EXCEPT !.options = options] :
         type \in {"single", "multiple", "boolean"}, correct \in UpTo(3, 1 .. 3),
         options \in {<<1, 2, 3>>, <<2, 2>>, <<1>>}}
ValuesGiven == UpTo(3, 0 .. 3)

ASSUME PartConstants ==
    /\ VideoConstants /\ C!CatalogueConstants /\ A!AttributionConstants /\ Q!QuizzesConstants
    /\ C!Mentions = AllMentions

\* The grading of questions by options, against its definition by sets.
ASSUME GradingBySets == Q!RightAsSets

PartInit ==
    /\ part \in Parts
    /\ Init /\ C!Init /\ A!Init /\ Q!Init
    \* One initial state for the parts that do not run.
    /\ part # "catalogue" =>
          /\ kinds = {"library", "delete", "import"}
          /\ \A k \in {anatomy, posture} : sections[book][k] = Content(None, FALSE)

PartNext ==
    \/ part = "video" /\ Next /\ UNCHANGED <<part, catalogue, attribution, quizzes>>
    \/ part = "catalogue" /\ C!Next /\ UNCHANGED <<part, videoVars, attribution, quizzes>>
    \/ part = "attribution" /\ A!Next /\ UNCHANGED <<part, videoVars, catalogue, quizzes>>
    \/ part = "quizzes" /\ Q!Next /\ UNCHANGED <<part, videoVars, catalogue, attribution>>

PartSpec == PartInit /\ [][PartNext]_<<part, videoVars, catalogue, attribution, quizzes>>

Sym == Permutations(TwoHandlers) \cup Permutations({ada, bob}) \cup Permutations({yoga, pilates})
=============================================================================
