------------------------------ MODULE Register ------------------------------
(***************************************************************************)
(* A register of numbered documents, as accounting asks for it             *)
(* (invoicing/invoice.go, the rules at the head of the file).              *)
(*                                                                         *)
(* Each year has its counter.  A rank is taken, and then booked at most    *)
(* once, for ever.  A rank that is taken and never booked is a gap.        *)
(***************************************************************************)
EXTENDS Naturals

CONSTANTS Years, Papers

VARIABLES taken,   \* taken[y]: how many ranks were taken in year y
          booked   \* the entries of the register

vars == <<taken, booked>>

Entry == [year : Years, rank : Nat \ {0}, paper : Papers]

Init == taken = [y \in Years |-> 0] /\ booked = {}

Take(y) == taken' = [taken EXCEPT ![y] = @ + 1] /\ UNCHANGED booked

Book(e) == /\ e.rank <= taken[e.year]
           /\ \A other \in booked : <<other.year, other.rank>> # <<e.year, e.rank>>
           /\ booked' = booked \cup {e}
           /\ UNCHANGED taken

\* An entry is what a step adds, if it adds one: entries are never enumerated.
Next == \/ \E y \in Years : Take(y)
        \/ \E e \in booked' \ booked : e \in Entry /\ Book(e)

Spec == Init /\ [][Next]_vars
=============================================================================
