------------------------------ MODULE Coverage ------------------------------
(***************************************************************************)
(* What a learner has really seen of a video (lms/coverage.go): a bitmap   *)
(* of slices of SegmentMs, the time watched, and the rule that bounds the  *)
(* time a signal may claim by the time elapsed since the one before.       *)
(*                                                                         *)
(* The bitmap is the set of its lit slices, numbered from 0.  The counters *)
(* of refused signals and of sessions, and the last position, decide       *)
(* nothing and are left out.                                               *)
(***************************************************************************)
EXTENDS Integers, Sequences, FiniteSets

CONSTANTS
    DurationMs,      \* duration of the module
    SegmentMs,       \* length of a slice
    MaxRate,         \* fastest reading allowed
    ClockTolerance   \* time a signal may claim beyond its budget

ASSUME CoverageConstants ==
    /\ DurationMs \in Nat \ {0} /\ SegmentMs \in Nat \ {0}
    /\ MaxRate \in Nat \ {0} /\ ClockTolerance \in Nat

Lesser(a, b) == IF a <= b THEN a ELSE b

SegmentCount == (DurationMs + SegmentMs - 1) \div SegmentMs

NewCoverage == [duration |-> DurationMs, segments |-> {}, watched |-> 0, started |-> FALSE,
                firstAt |-> 0, lastAt |-> 0]

\* The interval a signal plays, cut at the end of the module.
Played(beat) == Lesser(beat.to, DurationMs) - beat.from

\* The slices it touches.
Touched(beat) ==
    {i \in 0 .. SegmentCount - 1 :
        beat.from \div SegmentMs <= i /\ i <= (Lesser(beat.to, DurationMs) - 1) \div SegmentMs}

\* Faulty: the budget counts from the first signal, not from the last.
FaultyWithinBudget(c, beat, at) ==
    c.started => Played(beat) <= (at - c.firstAt) * MaxRate + ClockTolerance

\* The first signal claims what it wants, the next ones what the clock allows.
WithinBudget(c, beat, at) ==
    c.started => /\ at >= c.lastAt
                 /\ Played(beat) <= (at - c.lastAt) * MaxRate + ClockTolerance

Accepted(c, beat, at) ==
    /\ c.duration > 0
    /\ beat.focused
    /\ beat.from < beat.to
    /\ 0 <= beat.from /\ beat.to <= DurationMs + SegmentMs
    /\ WithinBudget(c, beat, at)

Apply(c, beat, at) ==
    IF Accepted(c, beat, at)
    THEN [c EXCEPT !.segments = @ \cup Touched(beat), !.watched = @ + Played(beat),
                   !.started = TRUE, !.firstAt = IF c.started THEN @ ELSE at, !.lastAt = at]
    ELSE c

CoveredSegments(c) == Cardinality(c.segments)

\* Faulty: a closed gap stays open.
FaultyScanned(c, found, i) ==
    CASE i \notin c.segments /\ found.open < 0 -> [found EXCEPT !.open = i]
      [] i \in c.segments /\ found.open >= 0 ->
             [found EXCEPT !.list = Append(@, <<found.open * SegmentMs, i * SegmentMs>>)]
      [] OTHER -> found

\* One slice of the scan: a gap opens on a slice not seen, closes on a slice seen.
Scanned(c, found, i) ==
    CASE i \notin c.segments /\ found.open < 0 -> [found EXCEPT !.open = i]
      [] i \in c.segments /\ found.open >= 0 ->
             [open |-> -1,
              list |-> Append(found.list, <<found.open * SegmentMs, i * SegmentMs>>)]
      [] OTHER -> found

\* The gap still open at the end of the module.
LastGap(found) == IF found.open >= 0
                  THEN Append(found.list, <<found.open * SegmentMs, DurationMs>>)
                  ELSE found.list

\* The scan of the bitmap: what was found before slice i.
Scan(c) ==
    LET scan[i \in 0 .. SegmentCount] ==
            IF i = 0 THEN [open |-> -1, list |-> <<>>] ELSE Scanned(c, scan[i - 1], i - 1)
    IN  scan

\* The intervals not seen, in order.
Gaps(c) == LastGap(Scan(c)[SegmentCount])
=============================================================================
