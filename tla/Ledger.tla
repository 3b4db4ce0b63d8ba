------------------------------- MODULE Ledger -------------------------------
(***************************************************************************)
(* What the append-only journal promises its callers.                      *)
(*                                                                         *)
(* Each subject ("file/...", "org/...", "enrollment/...") owns one business*)
(* item and one log.  A request takes effect at most once, in one atomic   *)
(* step that appends its whole batch of entries to the subject's log and   *)
(* gives the item its new value.  Nothing else ever changes either of them.*)
(* AuditLog, which reads the last event, builds the next ones and commits  *)
(* under a condition with a bounded retry, is shown to implement this.     *)
(***************************************************************************)
EXTENDS Naturals, Sequences

CONSTANTS Subjects, Requests, Values, Absent

VARIABLES log,     \* log[s]: the entries of subject s, in order
          state    \* state[s]: the business item of s, Absent before creation

vars == <<log, state>>

Entry == [by : Requests, part : {1, 2}, value : Values \cup {Absent}]

Recorded(r) == \E s \in Subjects : \E k \in DOMAIN log[s] : log[s][k].by = r

Init == /\ log = [s \in Subjects |-> <<>>]
        /\ state = [s \in Subjects |-> Absent]

\* Request r takes effect on s: n entries, and a new item value unless v is
\* Absent (a fact recorded without a business write).
Record(r, s, v, n) ==
    /\ ~ Recorded(r)
    /\ log' = [log EXCEPT ![s] = @ \o [i \in 1 .. n |-> [by |-> r, part |-> i, value |-> v]]]
    /\ state' = IF v = Absent THEN state ELSE [state EXCEPT ![s] = v]

Next == \E r \in Requests, s \in Subjects, v \in Values \cup {Absent}, n \in {1, 2} :
            Record(r, s, v, n)

Spec == Init /\ [][Next]_vars
=============================================================================
