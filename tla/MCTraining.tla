----------------------------- MODULE MCTraining ------------------------------
(* Small instances of Training for TLC.  Its components write records of their own: a     *)
(* behaviour runs one of them, so that TLC explores their sum.                            *)
EXTENDS Training, TLC

CONSTANTS Parts, h1, h2, h3, m1, m2, alice, bob, carol, f1, f2, k1, k2, none

VARIABLE part

ThreeHandlers == {h1, h2, h3}

Beat(from, to) == [from |-> from, to |-> to, focused |-> TRUE]
\* A module of 5, in slices of 2: its start, all of it, its end as a player rounds it, and
\* a signal from the background.
ManyBeats == {Beat(0, 2), Beat(0, 5), Beat(2, 6), [from |-> 0, to |-> 5, focused |-> FALSE]}

\* A quiz that may be taken as often as one likes, and quizzes that may not.
Limits == [quiz \in AllQuizzes |-> CASE quiz = "final"       -> 1
                                      [] quiz = "positioning" -> 0
                                      [] OTHER                -> 2]

\* A morning; from an afternoon to the next morning; from a lunch to the next evening; and
\* a week of videos.
FourSessions == {[mode |-> "onsite", start |-> 40, end |-> 48],
                 [mode |-> "onsite", start |-> 56, end |-> 144],
                 [mode |-> "virtual", start |-> 54, end |-> 160],
                 [mode |-> "async", start |-> 36, end |-> 708]}

TwoModules == {m1, m2}
OneAttendee == {alice}
TwoMethods == {"signature", "absent"}
\* As a morning opens, before the other sessions begin; and the next afternoon.
TwoInstants == {35, 156}

\* Two files, and a learner without one.
ThreeLearners == {alice, bob, carol}
TwoReachable == {alice, bob}
TwoFiles == (alice :> f1) @@ (bob :> none) @@ (carol :> f2)
TwoDesks == {k1, k2}

\* A day of March, the last of March, which February does not have, and a day of April.
Date(m, d) == [month |-> m, day |-> d]
ThreeDates == <<Date(3, 20), Date(3, 31), Date(4, 20)>>
Lengths == [m \in 2 .. 4 |-> CASE m = 2 -> 28 [] m = 3 -> 31 [] m = 4 -> 30]
OneDue == {Date(3, 20)}
OneDesk == {k1}

ASSUME TrainingConstants == A!AttendanceConstants /\ F!FollowUpConstants

\* The parts that do not run have one initial state.
PartInit ==
    /\ part \in Parts
    /\ Init /\ A!Init /\ F!Init
    /\ part # "attendance" => session.mode = "async"
    /\ part # "followup" => ~ surveyed

PartNext ==
    \/ part = "learning" /\ Next /\ UNCHANGED <<part, attendance, followup>>
    \/ part = "attendance" /\ A!Next /\ UNCHANGED <<part, vars, followup>>
    \/ part = "followup" /\ F!Next /\ UNCHANGED <<part, vars, attendance>>

PartSpec == PartInit /\ [][PartNext]_<<part, vars, attendance, followup>>

\* The handlers of the parts change places together, which keeps the group
\* small: an odd permutation of three goes with an exchange of two.
Turn(yes, x, y) == IF yes THEN (x :> y) @@ (y :> x) ELSE (x :> x) @@ (y :> y)

Odd(p) == Cardinality({h \in ThreeHandlers : p[h] = h}) = 1

Sym == {p @@ Turn(Odd(p), k1, k2) : p \in Permutations(ThreeHandlers)}
=============================================================================
