----------------------------- MODULE Invoicing ------------------------------
(***************************************************************************)
(* Invoices and credit notes of an organisation (invoicing/invoice.go, and *)
(* its routes in httpapi/facture.go).                                      *)
(*                                                                         *)
(* Every handler reads the invoice, checks its status, and puts the whole  *)
(* copy back without a condition.  Issue takes a rank from a counter, in a *)
(* write of its own, before it writes the invoice with its event.  Between *)
(* the read and the write the client's details and the tax regime are read *)
(* again (remplir); together they are the terms of an invoice, and its     *)
(* lines stand for its amounts.  A journalled write is one step, as        *)
(* AuditLog shows; identifiers are fresh, payment means and dates are left *)
(* out.                                                                    *)
(***************************************************************************)
EXTENDS Naturals, Sequences, FiniteSets

CONSTANTS
    Invoices,   \* identifiers
    Handlers,   \* handler executions
    Years,      \* consecutive years, the bound of the clock
    MaxRank,    \* bound on the ranks taken by answers that are lost
    Lines,      \* contents of an invoice
    Terms,      \* client details and tax regime
    None        \* an attribute that is not set

Operations == {"update", "issue", "pay", "credit", "delete"}
Statuses == {"brouillon", "emise", "payee", "annulee"}

Numbers == [prefix : {"FA", "AV"}, year : Years, rank : Nat \ {0}]

Item == [status : Statuses, number : Numbers \cup {None}, lines : Lines, terms : Terms,
         creditFor : Numbers \cup {None}, cancelledBy : Invoices \cup {None}]

InvoicingConstants ==
    /\ Years \subseteq Nat /\ \E y \in Years : \A z \in Years : y <= z
    /\ MaxRank \in Nat /\ Invoices # {}
    /\ None \notin Invoices \cup Lines \cup Terms
    /\ None \notin Numbers /\ None \notin Item

VARIABLES
    year,       \* the year it is
    terms,      \* what the client's record and the organisation say now
    counter,    \* counter[y]: the last rank taken in year y
    invoices,   \* invoices[i]: the item of invoice i, or None
    drawn,      \* the identifiers drawn so far
    journal,    \* the events of the invoices issued
    job         \* job[h]: where handler h is, and its copy

vars == <<year, terms, counter, invoices, drawn, journal, job>>

-----------------------------------------------------------------------------
(* Items *)

\* A draft; the quantities of a credit note are the opposites of its lines.
Draft(lines, filled, note) ==
    [status |-> "brouillon", number |-> None, lines |-> lines, terms |-> filled,
     creditFor |-> note, cancelledBy |-> None]

Modifiable(f) == f.status = "brouillon"
EstAvoir(f) == f.creditFor # None

Number(f, y, rank) == [prefix |-> IF EstAvoir(f) THEN "AV" ELSE "FA", year |-> y, rank |-> rank]

Idle == [pc |-> "idle", kind |-> "pay", invoice |-> CHOOSE i \in Invoices : TRUE, copy |-> None,
         number |-> None, filled |-> None]

Init ==
    /\ year = CHOOSE y \in Years : \A z \in Years : y <= z
    /\ terms \in Terms
    /\ counter = [y \in Years |-> 0]
    /\ invoices = [i \in Invoices |-> None]
    /\ drawn = {}
    /\ journal = <<>>
    /\ job = [h \in Handlers |-> Idle]

\* Create opens a draft under a fresh identifier.
Create(i, lines) ==
    /\ i \notin drawn
    /\ drawn' = drawn \cup {i}
    /\ invoices' = [invoices EXCEPT ![i] = Draft(lines, terms, None)]
    /\ UNCHANGED <<year, terms, counter, journal, job>>

-----------------------------------------------------------------------------
(* Reading: Get, then the guard of each operation *)

\* Faulty: no check of the status.
FaultyMay(kind, f) == TRUE

May(kind, f) ==
    CASE kind \in {"update", "delete", "issue"} -> Modifiable(f)
      [] kind = "pay" -> ~ Modifiable(f)
      [] kind = "credit" -> ~ Modifiable(f) /\ ~ EstAvoir(f) /\ f.cancelledBy = None

\* What follows the read: a number, the terms, or the write at once.
After(kind) == CASE kind = "issue" -> "number"
                 [] kind \in {"update", "credit"} -> "fill"
                 [] OTHER -> "put"

Begin(h, kind, i) ==
    /\ job[h].pc = "idle"
    /\ invoices[i] # None /\ May(kind, invoices[i])
    /\ job' = [job EXCEPT ![h] = [pc |-> After(kind), kind |-> kind, invoice |-> i,
                                  copy |-> invoices[i], number |-> None,
                                  filled |-> None]]
    /\ UNCHANGED <<year, terms, counter, invoices, drawn, journal>>

\* Faulty: the counter is read, then set; another handler may have read it too.
FaultyTakeRank(h) ==
    /\ job[h].pc = "number"
    /\ \E seen \in {counter[year], IF counter[year] = 0 THEN 0 ELSE counter[year] - 1} :
           /\ counter' = [counter EXCEPT ![year] = seen + 1]
           /\ job' = [job EXCEPT ![h].pc = "fill", ![h].number = Number(job[h].copy, year, seen + 1)]
    /\ UNCHANGED <<year, terms, invoices, drawn, journal>>

\* Issue: the counter is incremented and gives the rank, atomically.
TakeRank(h) ==
    /\ job[h].pc = "number"
    /\ counter' = [counter EXCEPT ![year] = @ + 1]
    /\ job' = [job EXCEPT ![h].pc = "fill", ![h].number = Number(job[h].copy, year, counter[year] + 1)]
    /\ UNCHANGED <<year, terms, invoices, drawn, journal>>

\* The increment is done but its answer is lost, and the client library retries.
LoseRank(h) ==
    /\ job[h].pc = "number" /\ counter[year] < MaxRank
    /\ counter' = [counter EXCEPT ![year] = @ + 1]
    /\ UNCHANGED <<year, terms, invoices, drawn, journal, job>>

\* remplir: the client, the regime, and the totals they make.
Fill(h) ==
    /\ job[h].pc = "fill"
    /\ job' = [job EXCEPT ![h].pc = "put", ![h].filled = terms]
    /\ UNCHANGED <<year, terms, counter, invoices, drawn, journal>>

-----------------------------------------------------------------------------
(* Writing *)

Put(h, kind, f) ==
    /\ job[h].pc = "put" /\ job[h].kind = kind
    /\ job' = [job EXCEPT ![h].pc = "done"]
    /\ invoices' = [invoices EXCEPT ![job[h].invoice] = f]
    /\ UNCHANGED <<year, terms, counter>>

PutUpdate(h, lines) ==
    /\ Put(h, "update", [job[h].copy EXCEPT !.lines = lines, !.terms = job[h].filled])
    /\ UNCHANGED <<drawn, journal>>

PutDelete(h) == Put(h, "delete", None) /\ UNCHANGED <<drawn, journal>>

\* MarkPaid, whether the invoice was cancelled or not.
PutPaid(h, paid) ==
    /\ Put(h, "pay", [job[h].copy EXCEPT !.status = IF paid THEN "payee" ELSE "emise"])
    /\ UNCHANGED <<drawn, journal>>

Issued(h) == [job[h].copy EXCEPT !.status = "emise", !.number = job[h].number,
                                 !.terms = job[h].filled]

EventOf(f) == [number |-> f.number, lines |-> f.lines, terms |-> f.terms]

\* Faulty: the event says what the invoice was when it was read.
FaultyPutIssued(h) ==
    /\ Put(h, "issue", Issued(h))
    /\ journal' = Append(journal, EventOf([Issued(h) EXCEPT !.terms = job[h].copy.terms]))
    /\ UNCHANGED drawn

\* The number is kept by the item and by the journal, in one transaction.
PutIssued(h) ==
    /\ Put(h, "issue", Issued(h))
    /\ journal' = Append(journal, EventOf(Issued(h)))
    /\ UNCHANGED drawn

\* CreditNote: the draft of the credit note and the cancelled invoice, together.
PutCredit(h, a) ==
    /\ job[h].pc = "put" /\ job[h].kind = "credit"
    /\ a \notin drawn /\ drawn' = drawn \cup {a}
    /\ job' = [job EXCEPT ![h].pc = "done"]
    /\ invoices' =
          [invoices EXCEPT
              ![a] = Draft(job[h].copy.lines, job[h].filled, job[h].copy.number),
              ![job[h].invoice] = [job[h].copy EXCEPT !.status = "annulee", !.cancelledBy = a]]
    /\ UNCHANGED <<year, terms, counter, journal>>

\* An error of the store, an incomplete legal identity, or the death of the instance.
GiveUp(h) ==
    /\ job[h].pc \in {"number", "fill", "put"}
    /\ job' = [job EXCEPT ![h].pc = "failed"]
    /\ UNCHANGED <<year, terms, counter, invoices, drawn, journal>>

EditTerms(t) == /\ t # terms /\ terms' = t
                /\ UNCHANGED <<year, counter, invoices, drawn, journal, job>>

NewYear == /\ year + 1 \in Years /\ year' = year + 1
           /\ UNCHANGED <<terms, counter, invoices, drawn, journal, job>>

Handle(h) ==
    \/ \E kind \in Operations, i \in Invoices : Begin(h, kind, i)
    \/ TakeRank(h) \/ LoseRank(h) \/ Fill(h) \/ GiveUp(h)
    \/ PutIssued(h) \/ PutDelete(h)
    \/ \E a \in Invoices : PutCredit(h, a)
    \/ \E lines \in Lines : PutUpdate(h, lines)
    \/ \E paid \in BOOLEAN : PutPaid(h, paid)

Next == \/ \E i \in Invoices, lines \in Lines : Create(i, lines)
        \/ \E h \in Handlers : Handle(h)
        \/ \E t \in Terms : EditTerms(t)
        \/ NewYear

Spec == Init /\ [][Next]_vars

-----------------------------------------------------------------------------
(* Properties *)

Jobs == [pc : {"idle", "number", "fill", "put", "done", "failed"}, kind : Operations,
         invoice : Invoices, copy : Item \cup {None}, number : Numbers \cup {None},
         filled : Terms \cup {None}]

\* Items and copies are what the handlers build; a document has a number if and only
\* if it is no draft any more.
TypeOK ==
    /\ year \in Years /\ terms \in Terms /\ counter \in [Years -> Nat]
    /\ invoices \in [Invoices -> Item \cup {None}]
    /\ \A i \in Invoices : invoices[i] # None =>
           /\ i \in drawn
           /\ Modifiable(invoices[i]) <=> invoices[i].number = None
    /\ drawn \subseteq Invoices
    /\ journal \in Seq([number : Numbers, lines : Lines, terms : Terms])
    /\ job \in [Handlers -> Jobs]

\* A numbered document says, for ever, what the journal recorded when it was issued:
\* the client and the regime of that day, whoever wrote it since; and a credit note
\* corrects an invoice the journal knows, never another credit note
\* (invoicing/invoice.go:24-28).  Two documents never bear one number (246-251).
NumberedAsJournalled ==
    /\ TypeOK
    /\ \A i \in Invoices : invoices[i] # None =>
        /\ invoices[i].number # None => \E k \in DOMAIN journal : journal[k] = EventOf(invoices[i])
        /\ EstAvoir(invoices[i]) =>
               \E k \in DOMAIN journal : /\ journal[k].number = invoices[i].creditFor
                                         /\ journal[k].number.prefix = "FA"
    /\ \A i, j \in Invoices :
          i # j /\ invoices[i] # None /\ invoices[j] # None /\ invoices[i].number # None =>
              invoices[i].number # invoices[j].number

\* A number disappears from its document only by a write that had not read it: a draft
\* read before the issue, or a copy of another of two simultaneous issues.  Nothing that
\* reads an issued invoice takes its number back or removes it
\* (invoicing/invoice.go:399-409).
OnlyStaleWritesForget ==
    [][\A i \in Invoices :
          /\ invoices[i] # None /\ invoices[i].number # None
          /\ invoices'[i] = None \/ invoices'[i].number # invoices[i].number
          => \E h \in Handlers : /\ job[h].pc = "put" /\ job'[h].pc = "done"
                                 /\ job[h].invoice = i
                                 /\ job[h].copy.number # invoices[i].number]_vars

\* The counter and the journal are a register of numbered documents: whatever fails or
\* races, no rank is journalled twice (invoicing/invoice.go:246-251).
Papers == [prefix : {"FA", "AV"}, lines : Lines, terms : Terms]

Booked == {[year |-> journal[k].number.year, rank |-> journal[k].number.rank,
            paper |-> [prefix |-> journal[k].number.prefix, lines |-> journal[k].lines,
                       terms |-> journal[k].terms]] : k \in DOMAIN journal}

Reg == INSTANCE Register WITH taken <- counter, booked <- Booked

NumberedRegister == Reg!Spec

\* invoicing/invoice.go:399: an issued invoice is never deleted.
IssuedNeverDeleted ==
    [][\A i \in Invoices : invoices[i] # None /\ invoices[i].number # None => invoices'[i] # None]_vars
=============================================================================
