---------------------------- MODULE Organisation -----------------------------
(***************************************************************************)
(* The record of an organisation, which holds its subscription and its     *)
(* legal identity, and its card in the directory of the team               *)
(* (identity/directory.go): the team and the webhook of Stripe set the     *)
(* plan (httpapi/admin.go, billing/stripe.go), the organisation edits its  *)
(* identity (httpapi/org_legal.go), a login enters a missing card.         *)
(*                                                                         *)
(* Each writer reads the record, puts it whole, then reads the card and    *)
(* puts it anew.  Stripe may send an event again, late or out of order; a  *)
(* signature is accepted for Tolerance on both sides of the clock.  The    *)
(* identity is one name; prices and the journal of the plan are left out.  *)
(***************************************************************************)
EXTENDS Integers, FiniteSets

CONSTANTS
    LegalNames,   \* legal identities
    PlanCodes,    \* the plans of the catalogue
    Trial,        \* the one of a cancelled subscription
    Events,       \* what Stripe may say: type, status and plan
    Handlers,     \* instances, each serves one request after another
    Tolerance, Horizon,  \* WebhookTolerance, the bound of the clock
    MaxSent,      \* bound on the events of Stripe
    None

SubscriptionTypes == {"checkout.session.completed", "customer.subscription.created",
                      "customer.subscription.updated"}
Cancelled == "customer.subscription.deleted"
InOrder == {"", "active", "trialing", "complete"}   \* statuses that are in order

OrganisationConstants ==
    /\ Trial \in PlanCodes /\ None \notin PlanCodes \cup LegalNames
    /\ Tolerance \in Nat /\ Horizon \in Nat /\ MaxSent \in Nat
    /\ \A e \in Events : DOMAIN e = {"type", "status", "plan"}

VARIABLES
    now,     \* the clock
    org,     \* the record: name and plan
    card,    \* the card of the directory, or None
    sent,    \* what Stripe signed: event and time
    task     \* task[h]: where handler h is

orgVars == <<now, org, card, sent, task>>

-----------------------------------------------------------------------------

AtRest == [pc |-> "idle", kind |-> None, plan |-> None, name |-> None, copy |-> None]

Init ==
    /\ now = 0 /\ sent = {}
    /\ org \in [name : LegalNames, plan : PlanCodes]
    /\ card \in {org, None}
    /\ task = [h \in Handlers |-> AtRest]

Proceed(h, t) == task' = [task EXCEPT ![h] = t] /\ UNCHANGED <<now, sent>>

-----------------------------------------------------------------------------
(* What a webhook asks for *)

Fresh(at) == now - at \in - Tolerance .. Tolerance

\* The plans that an event applies: one or none.  A subscription that is not in order
\* leaves the plan, its cancellation goes back to the trial, an unknown plan is refused.
Applied(e) ==
    PlanCodes \cap
        (IF e.type = Cancelled THEN {Trial}
         ELSE IF e.type \in SubscriptionTypes /\ e.status \in InOrder THEN {e.plan}
         ELSE {})

Webhook(h) ==
    /\ task[h].pc = "idle"
    /\ \E m \in sent : /\ Fresh(m.at)
                       /\ \E plan \in Applied(m.event) :
                             Proceed(h, [AtRest EXCEPT !.pc = "load", !.kind = "stripe", !.plan = plan])
    /\ UNCHANGED <<org, card>>

\* The team chooses a plan of the catalogue.
ChoosePlan(h) ==
    /\ task[h].pc = "idle"
    /\ \E plan \in PlanCodes :
          Proceed(h, [AtRest EXCEPT !.pc = "load", !.kind = "team", !.plan = plan])
    /\ UNCHANGED <<org, card>>

\* The organisation edits its identity.
SaveLegal(h) ==
    /\ task[h].pc = "idle"
    /\ \E name \in LegalNames :
          Proceed(h, [AtRest EXCEPT !.pc = "load", !.kind = "legal", !.name = name])
    /\ UNCHANGED <<org, card>>

-----------------------------------------------------------------------------
(* The writes *)

LoadOrg(h) ==
    /\ task[h].pc = "load"
    /\ Proceed(h, [task[h] EXCEPT !.pc = "put", !.copy = org])
    /\ UNCHANGED <<org, card>>

\* Faulty: the record is rebuilt from the request, the plan from its default.
FaultyEdited(t) == IF t.kind = "legal" THEN [name |-> t.name, plan |-> Trial]
                   ELSE [t.copy EXCEPT !.plan = t.plan]

\* The record with what the request names, and the rest as it was read.
Edited(t) == IF t.kind = "legal" THEN [t.copy EXCEPT !.name = t.name]
             ELSE [t.copy EXCEPT !.plan = t.plan]

PutOrg(h) ==
    /\ task[h].pc = "put"
    /\ org' = Edited(task[h])
    /\ Proceed(h, [task[h] EXCEPT !.pc = "sync", !.copy = Edited(task[h])])
    /\ UNCHANGED card

\* The card of the record that was put.
SyncDirectory(h) ==
    /\ task[h].pc = "sync"
    /\ card' = task[h].copy
    /\ Proceed(h, AtRest)
    /\ UNCHANGED org

\* A login reads the organisation, then enters its card if there is none.
BeginEnsure(h) ==
    /\ task[h].pc = "idle" /\ card = None
    /\ Proceed(h, [AtRest EXCEPT !.pc = "ensure", !.copy = org])
    /\ UNCHANGED <<org, card>>

EnsureDirectory(h) ==
    /\ task[h].pc = "ensure"
    /\ card' = IF card = None THEN task[h].copy ELSE card
    /\ Proceed(h, AtRest)
    /\ UNCHANGED org

Fail(h) ==
    /\ task[h].pc # "idle"
    /\ Proceed(h, AtRest)
    /\ UNCHANGED <<org, card>>

-----------------------------------------------------------------------------

StripeSends(e) ==
    /\ Cardinality(sent) < MaxSent
    /\ sent' = sent \cup {[event |-> e, at |-> now]}
    /\ UNCHANGED <<now, org, card, task>>

Tick == now < Horizon /\ now' = now + 1 /\ UNCHANGED <<org, card, sent, task>>

Next ==
    \/ \E h \in Handlers : \/ Webhook(h) \/ ChoosePlan(h) \/ SaveLegal(h)
                           \/ LoadOrg(h) \/ PutOrg(h) \/ SyncDirectory(h)
                           \/ BeginEnsure(h) \/ EnsureDirectory(h) \/ Fail(h)
    \/ \E e \in Events : StripeSends(e)
    \/ Tick

Spec == Init /\ [][Next]_orgVars

-----------------------------------------------------------------------------
(* Properties *)

Puts(h) == task[h].pc = "put"

\* A handler puts a copy of a record that was changed since it was read.
PutsLate == \E h \in Handlers : Puts(h) /\ task[h].copy # org

\* A step that changes the plan or the identity.
EditedForAReason ==
    /\ org'.plan # org.plan =>
          \/ PutsLate
          \/ \E h \in Handlers : Puts(h) /\ task[h].kind = "team" /\ task[h].plan = org'.plan
          \/ \E m \in sent : \/ m.event.status \in InOrder /\ m.event.plan = org'.plan
                             \/ m.event.type = Cancelled /\ org'.plan = Trial
    /\ org'.name # org.name =>
          PutsLate \/ \E h \in Handlers : Puts(h) /\ task[h].name = org'.name

\* The plan moves only because the team asked for that plan, or Stripe signed an event of a
\* subscription in order that names it, or a cancellation and it is the trial: an unpaid
\* subscription leaves it.  An edit of the identity undoes it, or a change of plan the
\* identity, only over a change made since the record was read (directory.go:91-130,
\* admin.go:206-235, stripe.go:209-228).
OnlyStaleEditsUndo == [][EditedForAReason]_orgVars
=============================================================================
