------------------------------ MODULE MCOffice -------------------------------
(* Small instances of Office for TLC.  Its components write records of their own: a       *)
(* behaviour runs one of them, so that TLC explores their sum.                            *)
EXTENDS Office, TLC

CONSTANTS Parts, f1, h1, h2, h3, opco, session, ref, none, noFile,
          c1, c2, d1, d2, n1, n2, key, acme, acmeSas

VARIABLE part

OneFile == {f1}
ThreeHandlers == {h1, h2, h3}
ThreeStages == {"prospect", "in_training", "closed"}
OneFunding == {opco}
OneSession == {session}
\* A document sent under a reference, signed, and the reference sent again as
\* another document: the office chooses the references.
QuoteThenConvention == {Fact("document.sent", "quote", ref), Fact("document.signed", none, ref),
                        Fact("document.sent", "convention", ref)}

TwoStages == <<"prospect", "quote">>
TwoFiles == {d1, d2}
TwoItems == {n1, n2}
OneKey == {key}
TwoClerks == {c1, c2}
FourStories == {{"update", "attach", "erase"}, {"erase", "move"},
                {"detach", "look", "access", "erase"}, {"close", "remove", "suivi"}}

\* A paid, an unpaid and a cancelled subscription, and one to a plan that is not in the
\* catalogue.
StripeEvent(type, status, plan) == [type |-> type, status |-> status, plan |-> plan]
FourEvents == {StripeEvent("customer.subscription.updated", "active", "essentiel"),
               StripeEvent("customer.subscription.updated", "past_due", "essentiel"),
               StripeEvent("customer.subscription.deleted", "canceled", none),
               StripeEvent("checkout.session.completed", "", "legacy")}
TwoNames == {acme, acmeSas}
TwoPlans == {"trial", "essentiel"}

ASSUME OfficeConstants == P!PeopleConstants /\ O!OrganisationConstants

\* Where a part is not at work, one initial state of it.
PartInit ==
    /\ part \in Parts
    /\ Init /\ P!Init /\ O!Init
    /\ part # "people" => /\ kinds = {"close", "remove", "suivi"} /\ ~ card.doc
                          /\ \A f \in DOMAIN stage : stage[f] = none
    /\ part # "organisation" => org.name = acme /\ org.plan = "trial" /\ directory = org

PartNext ==
    \/ part = "file" /\ Next /\ UNCHANGED <<part, people, billing>>
    \/ part = "people" /\ P!Next /\ UNCHANGED <<part, vars, billing>>
    \/ part = "organisation" /\ O!Next /\ UNCHANGED <<part, vars, people>>

PartSpec == PartInit /\ [][PartNext]_<<part, vars, people, billing>>

\* The symmetries of the parts go together, which keeps the group small.
Turn(yes, x, y) == IF yes THEN (x :> y) @@ (y :> x) ELSE (x :> x) @@ (y :> y)

Odd(p) == Cardinality({h \in ThreeHandlers : p[h] = h}) = 1

Sym == {p @@ Turn(Odd(p), d1, d2) @@ Turn(a, c1, c2) @@ Turn(b, n1, n2) :
              p \in Permutations(ThreeHandlers), a \in BOOLEAN, b \in BOOLEAN}
=============================================================================
