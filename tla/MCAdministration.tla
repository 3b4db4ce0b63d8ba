-------------------------- MODULE MCAdministration ---------------------------
(* Small instances of Administration for TLC.  Its components share no table: a behaviour *)
(* runs one of them, so that TLC explores their sum.                                      *)
EXTENDS Administration, TLC

CONSTANTS Parts, h1, h2, h3, i1, i2, hours, exempt, taxed, none,
          o1, o2, o3, ada, bob, sam, zoe, d1, d2

VARIABLE part

TwoInvoices == {i1, i2}
ThreeHandlers == {h1, h2, h3}
TwoYears == {1, 2}
TwoTerms == {exempt, taxed}
TwoDesks == {d1, d2}
ThreeOrgs == {o1, o2, o3}
FourEmails == {ada, bob, sam, zoe}
OwnerAdmin == {"owner", "admin"}

\* An organisation with two owners, and the team.
Account(o, e, role) == [org |-> o, email |-> e, role |-> role, disabled |-> FALSE, pwd |-> 0]
OwnersAndTeam == <<Account(o1, ada, "owner"), Account(o1, bob, "owner"), Account(o2, sam, "superadmin")>>

\* Any two requests, and stories of three.
Requests == {"register", "open", "invite", "login", "accept", "profile", "password",
             "update", "impersonate", "end", "logout"}
Stories == {{"invite", "accept", "update"}, {"impersonate", "end", "login"},
            {"open", "accept", "login"}, {"login", "update", "password"},
            {"invite", "accept", "profile"}}
PairsAndStories == {{k, l} : k, l \in Requests} \cup Stories
Bounds == [S \in PairsAndStories |-> IF S \in Stories THEN 3 ELSE 2]

ASSUME AdministrationConstants ==
    InvoicingConstants /\ A!AccountsConstants /\ A!Kinds = Requests

\* Where the accounts are not at work, one initial state of theirs.
PartInit ==
    /\ part \in Parts
    /\ Init /\ A!Init
    /\ part # "accounts" => kinds = {"logout"} /\ team = {}

PartNext ==
    \/ part = "invoices" /\ Next /\ UNCHANGED <<part, accounts>>
    \/ part = "accounts" /\ A!Next /\ UNCHANGED <<part, vars>>

PartSpec == PartInit /\ [][PartNext]_<<part, vars, accounts>>

\* The symmetries of the handlers go together, which keeps the group small.
Turn(yes, x, y) == IF yes THEN (x :> y) @@ (y :> x) ELSE (x :> x) @@ (y :> y)

Odd(p) == Cardinality({h \in ThreeHandlers : p[h] = h}) = 1

Sym == {p @@ Turn(Odd(p), d1, d2) @@ Turn(a, i1, i2) @@ Turn(b, exempt, taxed) :
              p \in Permutations(ThreeHandlers), a \in BOOLEAN, b \in BOOLEAN}
=============================================================================
