--------------------------- MODULE AdministrationProofs ----------------------
(***************************************************************************)
(* Proofs about Administration.                                            *)
(*                                                                         *)
(* Invoicing, for every set of invoices, handlers, years and terms: what a *)
(* numbered document says, how its number may disappear, and that the      *)
(* counter and the journal implement Register.                             *)
(*                                                                         *)
(* Accounts, for every set of organisations, addresses, handlers and       *)
(* scenarios, and every list of open accounts to start from: the tables    *)
(* agree, and what only a write that comes late may undo.                  *)
(***************************************************************************)
EXTENDS Administration, TLAPS

-----------------------------------------------------------------------------
(* The inductive invariant *)

\* A handler at work has an invoice it was allowed to work on, and has read what it
\* needs for its next step.
JobOK(j, ids) ==
    j.pc # "idle" =>
        /\ j.copy \in Item /\ j.invoice \in ids /\ May(j.kind, j.copy)
        /\ j.pc = "number" => j.kind = "issue"
        /\ j.pc = "fill" => j.kind \in {"issue", "update", "credit"}
        /\ j.pc \in {"fill", "put"} /\ j.kind = "issue" =>
              j.number \in Numbers /\ j.number.prefix = IF EstAvoir(j.copy) THEN "AV" ELSE "FA"
        /\ j.pc = "put" /\ j.kind \in {"issue", "update", "credit"} => j.filled \in Terms

JobsInv == \A h \in Handlers : JobOK(job[h], drawn)

TypeInv == TypeOK /\ JobsInv

\* What a document is, in its item or in a copy of it: numbered once it is no draft, under
\* the prefix of its kind, and as the journal recorded it.
Coherent(f) == /\ Modifiable(f) <=> f.number = None
               /\ f.number # None => f.number.prefix = IF EstAvoir(f) THEN "AV" ELSE "FA"

Recorded(f) ==
    /\ f.number # None => \E k \in DOMAIN journal : journal[k] = EventOf(f)
    /\ EstAvoir(f) => \E k \in DOMAIN journal : /\ journal[k].number = f.creditFor
                                                /\ journal[k].number.prefix = "FA"

Holds(f) == (\E i \in Invoices : invoices[i] = f) \/ (\E h \in Handlers : job[h].copy = f)

PapersInv == \A f \in Item : Holds(f) => Coherent(f) /\ Recorded(f)

-----------------------------------------------------------------------------
(* Types *)

LEMMA TypeInit == ASSUME InvoicingConstants PROVE Init => TypeInv
<1> SUFFICES ASSUME Init PROVE TypeInv
  OBVIOUS
<1>1. Idle \in Jobs
  <2>1. (CHOOSE i \in Invoices : TRUE) \in Invoices
    BY DEF InvoicingConstants
  <2> QED BY <2>1 DEF Idle, Jobs, Operations
<1>2. year \in Years
  BY DEF Init, InvoicingConstants
<1>3. TypeOK
  BY <1>1, <1>2 DEF Init, TypeOK, InvoicingConstants
<1>4. JobsInv
  BY DEF Init, JobsInv, JobOK, Idle
<1> QED BY <1>3, <1>4 DEF TypeInv

\* The items that the handlers write.
LEMMA DraftIsItem ==
    ASSUME NEW lines \in Lines, NEW filled \in Terms, NEW note \in Numbers \cup {None}
    PROVE  /\ Draft(lines, filled, note) \in Item
           /\ Modifiable(Draft(lines, filled, note)) /\ Draft(lines, filled, note).number = None
           /\ Draft(lines, filled, note).creditFor = note
BY DEF Draft, Item, Modifiable, Statuses

LEMMA NumberIsNumber ==
    ASSUME NEW f, NEW y \in Years, NEW rank \in Nat \ {0}
    PROVE  /\ Number(f, y, rank) \in Numbers
           /\ Number(f, y, rank).year = y /\ Number(f, y, rank).rank = rank
           /\ Number(f, y, rank).prefix = IF EstAvoir(f) THEN "AV" ELSE "FA"
BY DEF Number, Numbers

\* One handler moves, and identifiers are only added.
LEMMA JobMoves ==
    ASSUME TypeInv, NEW h \in Handlers, NEW j \in Jobs, NEW ids, drawn \subseteq ids, JobOK(j, ids),
           job' = [job EXCEPT ![h] = j], drawn' = ids
    PROVE  job' \in [Handlers -> Jobs] /\ JobsInv'
<1>1. job' \in [Handlers -> Jobs] /\ \A g \in Handlers : job'[g] = IF g = h THEN j ELSE job[g]
  BY DEF TypeInv, TypeOK
<1>2. \A g \in Handlers : JobOK(job[g], ids)
  BY DEF TypeInv, JobsInv, JobOK
<1>3. \A g \in Handlers : JobOK(job'[g], ids)
  <2> SUFFICES ASSUME NEW g \in Handlers PROVE JobOK(job'[g], ids)
    OBVIOUS
  <2>1. CASE g = h
    BY <1>1, <2>1
  <2>2. CASE g # h
    <3>1. job'[g] = job[g]
      BY <1>1, <2>2
    <3> QED BY <1>2, <3>1
  <2> QED BY <2>1, <2>2
<1> QED BY <1>1, <1>3 DEF JobsInv

\* A handler writes its invoice.
LEMMA PutMoves ==
    ASSUME InvoicingConstants, TypeInv, NEW h \in Handlers, NEW kind \in Operations,
           NEW f \in Item \cup {None}, f # None => (Modifiable(f) <=> f.number = None),
           Put(h, kind, f), drawn' = drawn,
           journal' \in Seq([number : Numbers, lines : Lines, terms : Terms])
    PROVE  TypeInv'
<1> DEFINE j == [job[h] EXCEPT !.pc = "done"]
           w == [invoices EXCEPT ![job[h].invoice] = f]
<1>1. j \in Jobs /\ JobOK(j, drawn)
  BY DEF Put, TypeInv, TypeOK, Jobs, JobsInv, JobOK
<1>2. job' = [job EXCEPT ![h] = j] /\ invoices' = w /\ UNCHANGED <<year, terms, counter>>
  BY DEF Put, TypeInv, TypeOK, Jobs
<1>3. job[h].invoice \in drawn /\ drawn \subseteq Invoices
  BY DEF Put, TypeInv, TypeOK, JobsInv, JobOK
<1>4. /\ w \in [Invoices -> Item \cup {None}]
      /\ \A i \in Invoices : w[i] # None =>
               i \in drawn /\ (Modifiable(w[i]) <=> w[i].number = None)
  <2>1. w \in [Invoices -> Item \cup {None}]
        /\ \A i \in Invoices : w[i] = IF i = job[h].invoice THEN f ELSE invoices[i]
    BY DEF TypeInv, TypeOK
  <2> HIDE DEF w
  <2>2. ASSUME NEW i \in Invoices, w[i] # None
        PROVE  i \in drawn /\ (Modifiable(w[i]) <=> w[i].number = None)
    <3>1. CASE i = job[h].invoice
      BY <1>3, <2>1, <2>2, <3>1
    <3>2. CASE i # job[h].invoice
      <4>1. w[i] = invoices[i]
        BY <2>1, <3>2
      <4> QED BY <2>2, <4>1 DEF TypeInv, TypeOK
    <3> QED BY <3>1, <3>2
  <2> QED BY <2>1, <2>2
<1> HIDE DEF j, w
<1>5. job' \in [Handlers -> Jobs] /\ JobsInv'
  BY <1>1, <1>2, JobMoves
<1>6. /\ invoices' \in [Invoices -> Item \cup {None}]
      /\ \A i \in Invoices : invoices'[i] # None =>
             i \in drawn' /\ (Modifiable(invoices'[i]) <=> invoices'[i].number = None)
      /\ drawn' \subseteq Invoices
  BY <1>2, <1>3, <1>4
<1> QED BY <1>2, <1>5, <1>6 DEF TypeInv, TypeOK

LEMMA TypeStep ==
    ASSUME InvoicingConstants, TypeInv, PapersInv, [Next]_vars
    PROVE  TypeInv'
<1>1. ASSUME NEW i \in Invoices, NEW lines \in Lines, Create(i, lines)
      PROVE  TypeInv'
  <2>1. Draft(lines, terms, None) \in Item /\ Modifiable(Draft(lines, terms, None))
        /\ Draft(lines, terms, None).number = None
    BY DraftIsItem DEF TypeInv, TypeOK
  <2> HIDE DEF Draft
  <2>2. TypeOK'
    BY <1>1, <2>1 DEF Create, TypeInv, TypeOK
  <2>3. JobsInv'
    BY <1>1 DEF Create, TypeInv, JobsInv, JobOK
  <2> QED BY <2>2, <2>3 DEF TypeInv
<1>2. ASSUME NEW h \in Handlers, NEW kind \in Operations, NEW i \in Invoices, Begin(h, kind, i)
      PROVE  TypeInv'
  <2> DEFINE j == [pc |-> After(kind), kind |-> kind, invoice |-> i,
                   copy |-> invoices[i], number |-> None, filled |-> None]
  <2>1. j \in Jobs /\ JobOK(j, drawn)
    BY <1>2 DEF Begin, TypeInv, TypeOK, Jobs, JobOK, After, Operations
  <2>2. job' = [job EXCEPT ![h] = j] /\ UNCHANGED <<year, terms, counter, invoices, drawn, journal>>
    BY <1>2 DEF Begin
  <2> HIDE DEF j
  <2>3. job' \in [Handlers -> Jobs] /\ JobsInv'
    BY <2>1, <2>2, JobMoves
  <2> QED BY <2>2, <2>3 DEF TypeInv, TypeOK
<1>3. ASSUME NEW h \in Handlers, TakeRank(h)
      PROVE  TypeInv'
  <2> DEFINE n == Number(job[h].copy, year, counter[year] + 1)
             j == [job[h] EXCEPT !.pc = "fill", !.number = n]
  <2>1. n \in Numbers /\ n.prefix = IF EstAvoir(job[h].copy) THEN "AV" ELSE "FA"
    <3>1. year \in Years /\ counter[year] + 1 \in Nat \ {0}
      BY DEF TypeInv, TypeOK
    <3> QED BY <3>1, NumberIsNumber
  <2> HIDE DEF n
  <2>2. j \in Jobs /\ JobOK(j, drawn)
    BY <1>3, <2>1 DEF TakeRank, TypeInv, TypeOK, Jobs, JobsInv, JobOK
  <2>3. job' = [job EXCEPT ![h] = j] /\ UNCHANGED <<year, terms, invoices, drawn, journal>>
        /\ counter' = [counter EXCEPT ![year] = @ + 1]
    BY <1>3 DEF TakeRank, n, TypeInv, TypeOK
  <2> HIDE DEF j
  <2>4. job' \in [Handlers -> Jobs] /\ JobsInv'
    BY <2>2, <2>3, JobMoves
  <2> QED BY <2>3, <2>4 DEF TypeInv, TypeOK
<1>4. ASSUME NEW h \in Handlers, LoseRank(h)
      PROVE  TypeInv'
  BY <1>4 DEF LoseRank, TypeInv, TypeOK, JobsInv, JobOK
<1>5. ASSUME NEW h \in Handlers, Fill(h) \/ GiveUp(h)
      PROVE  TypeInv'
  <2> DEFINE j == IF job'[h].pc = "failed" THEN [job[h] EXCEPT !.pc = "failed"]
                  ELSE [job[h] EXCEPT !.pc = "put", !.filled = terms]
  <2>1. j \in Jobs /\ JobOK(j, drawn)
    BY <1>5 DEF Fill, GiveUp, TypeInv, TypeOK, Jobs, JobsInv, JobOK
  <2>2. job' = [job EXCEPT ![h] = j] /\ UNCHANGED <<year, terms, counter, invoices, drawn, journal>>
    BY <1>5 DEF Fill, GiveUp, TypeInv, TypeOK, Jobs
  <2> HIDE DEF j
  <2>3. job' \in [Handlers -> Jobs] /\ JobsInv'
    BY <2>1, <2>2, JobMoves
  <2> QED BY <2>2, <2>3 DEF TypeInv, TypeOK
<1>6. ASSUME NEW h \in Handlers, NEW lines \in Lines, PutUpdate(h, lines)
      PROVE  TypeInv'
  <2> DEFINE f == [job[h].copy EXCEPT !.lines = lines, !.terms = job[h].filled]
  <2>1. f \in Item /\ (Modifiable(f) <=> f.number = None)
    <3>1. job[h].copy \in Item /\ Coherent(job[h].copy) /\ job[h].filled \in Terms
      BY <1>6 DEF PutUpdate, Put, TypeInv, JobsInv, JobOK, PapersInv, Holds
    <3> QED BY <3>1 DEF Item, Coherent, Modifiable
  <2>2. Put(h, "update", f) /\ drawn' = drawn /\ journal' = journal
    BY <1>6 DEF PutUpdate
  <2> HIDE DEF f
  <2> QED BY <2>1, <2>2, PutMoves DEF TypeInv, TypeOK, Operations
<1>7. ASSUME NEW h \in Handlers, PutDelete(h)
      PROVE  TypeInv'
  <2>1. Put(h, "delete", None) /\ drawn' = drawn /\ journal' = journal
    BY <1>7 DEF PutDelete
  <2> QED BY <2>1, PutMoves DEF TypeInv, TypeOK, Operations
<1>8. ASSUME NEW h \in Handlers, NEW paid \in BOOLEAN, PutPaid(h, paid)
      PROVE  TypeInv'
  <2> DEFINE f == [job[h].copy EXCEPT !.status = IF paid THEN "payee" ELSE "emise"]
  <2>1. f \in Item /\ (Modifiable(f) <=> f.number = None)
    <3>1. job[h].copy \in Item /\ Coherent(job[h].copy) /\ ~ Modifiable(job[h].copy)
      BY <1>8 DEF PutPaid, Put, TypeInv, JobsInv, JobOK, PapersInv, Holds, May
    <3> QED BY <3>1 DEF Item, Coherent, Modifiable, Statuses
  <2>2. Put(h, "pay", f) /\ drawn' = drawn /\ journal' = journal
    BY <1>8 DEF PutPaid
  <2> HIDE DEF f
  <2> QED BY <2>1, <2>2, PutMoves DEF TypeInv, TypeOK, Operations
<1>9. ASSUME NEW h \in Handlers, PutIssued(h)
      PROVE  TypeInv'
  <2> DEFINE f == Issued(h)
  <2>1. job[h].copy \in Item /\ job[h].number \in Numbers /\ job[h].filled \in Terms
    BY <1>9 DEF PutIssued, Put, TypeInv, JobsInv, JobOK
  <2>2. f \in Item /\ (Modifiable(f) <=> f.number = None)
    BY <2>1 DEF Issued, Item, Modifiable, Statuses, InvoicingConstants
  <2>3. EventOf(f) \in [number : Numbers, lines : Lines, terms : Terms]
    BY <2>1 DEF Issued, Item, EventOf
  <2>4. Put(h, "issue", f) /\ drawn' = drawn /\ journal' = Append(journal, EventOf(f))
    BY <1>9 DEF PutIssued
  <2> HIDE DEF f
  <2>5. journal' \in Seq([number : Numbers, lines : Lines, terms : Terms])
    BY <2>3, <2>4 DEF TypeInv, TypeOK
  <2> QED BY <2>2, <2>4, <2>5, PutMoves DEF Operations
<1>10. ASSUME NEW h \in Handlers, NEW a \in Invoices, PutCredit(h, a)
       PROVE  TypeInv'
  <2> DEFINE j == [job[h] EXCEPT !.pc = "done"]
             note == Draft(job[h].copy.lines, job[h].filled, job[h].copy.number)
             f == [job[h].copy EXCEPT !.status = "annulee", !.cancelledBy = a]
             ids == drawn \cup {a}
             b == job[h].invoice
  <2>1. /\ job[h].copy \in Item /\ job[h].filled \in Terms /\ b \in drawn /\ a \notin drawn
        /\ ~ Modifiable(job[h].copy) /\ Coherent(job[h].copy)
    BY <1>10 DEF PutCredit, TypeInv, JobsInv, JobOK, PapersInv, Holds, May
  <2>2. f \in Item /\ ~ Modifiable(f) /\ f.number # None
    BY <2>1 DEF Item, Coherent, Modifiable, Statuses
  <2>3. note \in Item /\ Modifiable(note) /\ note.number = None
    <3>1. job[h].copy.lines \in Lines /\ job[h].copy.number \in Numbers \cup {None}
      BY <2>1 DEF Item
    <3> QED BY <2>1, <3>1, DraftIsItem
  <2>4. j \in Jobs /\ JobOK(j, ids)
    BY <1>10 DEF PutCredit, TypeInv, TypeOK, Jobs, JobsInv, JobOK
  <2>5. /\ job' = [job EXCEPT ![h] = j] /\ drawn' = ids /\ ids \subseteq Invoices
        /\ UNCHANGED <<year, terms, counter, journal>>
    BY <1>10 DEF PutCredit, TypeInv, TypeOK, Jobs
  <2>6. \A i \in Invoices : invoices'[i] = IF i = b THEN f ELSE IF i = a THEN note ELSE invoices[i]
    BY <1>10, <2>1 DEF PutCredit, TypeInv, TypeOK
  <2>7. DOMAIN invoices' = Invoices /\ invoices' = [i \in Invoices |-> invoices'[i]]
    BY <1>10 DEF PutCredit, TypeInv, TypeOK
  <2> HIDE DEF j, note, f, b
  <2>8. job' \in [Handlers -> Jobs] /\ JobsInv'
    BY <2>4, <2>5, JobMoves
  <2>9. ASSUME NEW i \in Invoices
        PROVE  /\ invoices'[i] \in Item \cup {None}
               /\ invoices'[i] # None =>
                      i \in drawn' /\ (Modifiable(invoices'[i]) <=> invoices'[i].number = None)
    <3>1. CASE i = b
      BY <2>1, <2>2, <2>5, <2>6, <3>1
    <3>2. CASE i # b /\ i = a
      BY <2>1, <2>3, <2>5, <2>6, <3>2
    <3>3. CASE i # b /\ i # a
      <4>1. invoices'[i] = invoices[i]
        BY <2>6, <3>3
      <4> QED BY <2>5, <4>1 DEF TypeInv, TypeOK
    <3> QED BY <3>1, <3>2, <3>3
  <2>10. invoices' \in [Invoices -> Item \cup {None}]
    BY <2>7, <2>9
  <2> QED BY <2>5, <2>8, <2>9, <2>10 DEF TypeInv, TypeOK
<1>11. ASSUME (\E t \in Terms : EditTerms(t)) \/ NewYear \/ UNCHANGED vars
       PROVE  TypeInv'
  BY <1>11 DEF EditTerms, NewYear, vars, TypeInv, TypeOK, JobsInv, JobOK
<1> QED BY <1>1, <1>2, <1>3, <1>4, <1>5, <1>6, <1>7, <1>8, <1>9, <1>10, <1>11 DEF Next, Handle

-----------------------------------------------------------------------------
(* What documents say *)

Entries == [number : Numbers, lines : Lines, terms : Terms]

\* The journal only grows, when an invoice is issued.
LEMMA JournalGrows ==
    ASSUME [Next]_vars
    PROVE  UNCHANGED journal \/ \E h \in Handlers : PutIssued(h)
BY DEF Next, Handle, Create, Begin, TakeRank, LoseRank, Fill, GiveUp, PutUpdate, PutDelete, PutPaid,
       PutCredit, EditTerms, NewYear, vars

LEMMA IssuedShape ==
    ASSUME InvoicingConstants, TypeInv, NEW h \in Handlers, PutIssued(h)
    PROVE  /\ Issued(h) \in Item /\ Issued(h).number = job[h].number /\ job[h].number \in Numbers
           /\ Issued(h).creditFor = job[h].copy.creditFor /\ ~ Modifiable(Issued(h))
           /\ EventOf(Issued(h)) \in Entries
<1>1. job[h].copy \in Item /\ job[h].number \in Numbers /\ job[h].filled \in Terms
  BY DEF PutIssued, Put, TypeInv, JobsInv, JobOK
<1>2. /\ Issued(h) \in Item /\ Issued(h).number = job[h].number
      /\ Issued(h).creditFor = job[h].copy.creditFor /\ ~ Modifiable(Issued(h))
  BY <1>1 DEF Issued, Item, Modifiable, Statuses
<1> QED BY <1>1, <1>2 DEF EventOf, Entries, Item

LEMMA JournalAppends ==
    ASSUME InvoicingConstants, TypeInv, NEW h \in Handlers, PutIssued(h)
    PROVE  /\ \A k \in DOMAIN journal : k \in DOMAIN journal' /\ journal'[k] = journal[k]
           /\ \E k \in DOMAIN journal' : journal'[k] = EventOf(Issued(h))
           /\ \A k \in DOMAIN journal' : k \in DOMAIN journal \/ journal'[k] = EventOf(Issued(h))
<1>1. PICK e \in Entries : e = EventOf(Issued(h)) /\ journal' = Append(journal, e)
  BY IssuedShape DEF PutIssued
<1>2. journal \in Seq(Entries)
  BY DEF TypeInv, TypeOK, Entries
<1>3. PICK n \in Nat : n = Len(journal)
  BY <1>2
<1>4. DOMAIN journal = 1 .. n /\ DOMAIN journal' = 1 .. n + 1
      /\ (\A k \in 1 .. n : journal'[k] = journal[k]) /\ journal'[n + 1] = e
  BY <1>1, <1>2, <1>3
<1> QED BY <1>1, <1>4

LEMMA RecordedStays ==
    ASSUME InvoicingConstants, TypeInv, [Next]_vars, NEW f, Recorded(f)
    PROVE  Recorded(f)'
<1>1. \A k \in DOMAIN journal : k \in DOMAIN journal' /\ journal'[k] = journal[k]
  BY JournalGrows, JournalAppends
<1> QED BY <1>1 DEF Recorded

\* A put brings nothing but what it puts.
LEMMA PutHolds ==
    ASSUME TypeInv, NEW h \in Handlers, NEW kind, NEW g, Put(h, kind, g), NEW f \in Item, Holds(f)'
    PROVE  Holds(f) \/ f = g
<1>1. \A x \in Handlers : job'[x].copy = job[x].copy
  BY DEF Put, TypeInv, TypeOK, Jobs
<1>2. \A i \in Invoices : invoices'[i] \in {invoices[i], g}
  BY DEF Put, TypeInv, TypeOK
<1> QED BY <1>1, <1>2 DEF Holds

LEMMA PapersStep ==
    ASSUME InvoicingConstants, TypeInv, PapersInv, [Next]_vars
    PROVE  PapersInv'
<1> SUFFICES ASSUME NEW f \in Item, Holds(f)' PROVE Coherent(f) /\ Recorded(f)'
  BY DEF PapersInv, Coherent
<1>1. CASE Holds(f)
  BY <1>1, RecordedStays DEF PapersInv
<1>2. ASSUME NEW i \in Invoices, NEW lines \in Lines, Create(i, lines), ~ Holds(f)
      PROVE  Coherent(f) /\ Recorded(f)'
  <2>1. f = Draft(lines, terms, None)
    BY <1>2 DEF Create, Holds, TypeInv, TypeOK
  <2>2. Modifiable(f) /\ f.number = None /\ f.creditFor = None
    BY <2>1, DraftIsItem DEF TypeInv, TypeOK
  <2> QED BY <2>2 DEF Coherent, Recorded, EstAvoir
<1>3. ASSUME NEW h \in Handlers, NEW kind \in Operations, NEW i \in Invoices, Begin(h, kind, i)
      PROVE  Holds(f)
  BY <1>3 DEF Begin, Holds, TypeInv, TypeOK
<1>4. ASSUME NEW h \in Handlers, TakeRank(h) \/ LoseRank(h) \/ Fill(h) \/ GiveUp(h)
      PROVE  Holds(f)
  <2>1. invoices' = invoices
    BY <1>4 DEF TakeRank, LoseRank, Fill, GiveUp
  <2>2. \A x \in Handlers : job'[x].copy = job[x].copy
    <3>1. job \in [Handlers -> Jobs]
      BY DEF TypeInv, TypeOK
    <3>2. CASE TakeRank(h)
      BY <3>1, <3>2 DEF TakeRank, Jobs
    <3>3. CASE LoseRank(h)
      BY <3>3 DEF LoseRank
    <3>4. CASE Fill(h) \/ GiveUp(h)
      BY <3>1, <3>4 DEF Fill, GiveUp, Jobs
    <3> QED BY <1>4, <3>2, <3>3, <3>4
  <2> QED BY <2>1, <2>2 DEF Holds
<1>5. ASSUME NEW h \in Handlers, PutDelete(h)
      PROVE  Holds(f)
  <2>1. f # None
    BY DEF InvoicingConstants
  <2> QED BY <1>5, <2>1, PutHolds DEF PutDelete
<1>6. ASSUME NEW h \in Handlers, NEW lines \in Lines, PutUpdate(h, lines), ~ Holds(f)
      PROVE  Coherent(f) /\ Recorded(f)'
  <2>1. job[h].copy \in Item /\ Holds(job[h].copy)
    BY <1>6 DEF PutUpdate, Put, TypeInv, JobsInv, JobOK, Holds
  <2>2. PICK c \in Item : c = job[h].copy
    BY <2>1
  <2>3. Coherent(c) /\ Recorded(c)' /\ Modifiable(c)
    <3>1. Coherent(c) /\ Recorded(c)
      BY <2>1, <2>2 DEF PapersInv
    <3>2. Modifiable(c)
      BY <1>6, <2>2 DEF PutUpdate, Put, TypeInv, JobsInv, JobOK, May
    <3> QED BY <3>1, <3>2, RecordedStays
  <2>4. f = [c EXCEPT !.lines = lines, !.terms = job[h].filled]
    BY <1>6, <2>2, PutHolds DEF PutUpdate
  <2>5. f.status = c.status /\ f.number = c.number /\ f.creditFor = c.creditFor
    BY <2>4 DEF Item
  <2>6. f.number = None
    BY <2>3, <2>5 DEF Coherent
  <2> QED BY <2>3, <2>5, <2>6 DEF Coherent, Recorded, Modifiable, EstAvoir
<1>7. ASSUME NEW h \in Handlers, NEW paid \in BOOLEAN, PutPaid(h, paid), ~ Holds(f)
      PROVE  Coherent(f) /\ Recorded(f)'
  <2>1. job[h].copy \in Item /\ Holds(job[h].copy)
    BY <1>7 DEF PutPaid, Put, TypeInv, JobsInv, JobOK, Holds
  <2>2. PICK c \in Item : c = job[h].copy
    BY <2>1
  <2>3. Coherent(c) /\ Recorded(c)' /\ ~ Modifiable(c)
    <3>1. Coherent(c) /\ Recorded(c)
      BY <2>1, <2>2 DEF PapersInv
    <3>2. ~ Modifiable(c)
      BY <1>7, <2>2 DEF PutPaid, Put, TypeInv, JobsInv, JobOK, May
    <3> QED BY <3>1, <3>2, RecordedStays
  <2>4. f = [c EXCEPT !.status = IF paid THEN "payee" ELSE "emise"]
    BY <1>7, <2>2, PutHolds DEF PutPaid
  <2>5. /\ f.number = c.number /\ f.creditFor = c.creditFor /\ f.lines = c.lines /\ f.terms = c.terms
        /\ f.status # "brouillon"
    BY <2>4 DEF Item
  <2> QED BY <2>3, <2>5 DEF Coherent, Recorded, Modifiable, EstAvoir, EventOf
<1>8. ASSUME NEW h \in Handlers, PutIssued(h), ~ Holds(f)
      PROVE  Coherent(f) /\ Recorded(f)'
  <2>1. f = Issued(h)
    BY <1>8, PutHolds DEF PutIssued
  <2>2. PICK c \in Item : c = job[h].copy
    BY <1>8 DEF PutIssued, Put, TypeInv, JobsInv, JobOK
  <2>3. Recorded(c)'
    <3>1. Holds(c)
      BY <2>2 DEF Holds
    <3> QED BY <3>1, RecordedStays DEF PapersInv
  <2>4. /\ f.number = job[h].number /\ f.number \in Numbers /\ f.creditFor = c.creditFor
        /\ ~ Modifiable(f)
    BY <1>8, <2>1, <2>2, IssuedShape
  <2>5. job[h].number.prefix = IF EstAvoir(c) THEN "AV" ELSE "FA"
    BY <1>8, <2>2 DEF PutIssued, Put, TypeInv, JobsInv, JobOK
  <2>6. \E k \in DOMAIN journal' : journal'[k] = EventOf(f)
    BY <1>8, <2>1, JournalAppends
  <2>7. Coherent(f)
    BY <2>4, <2>5 DEF Coherent, EstAvoir, InvoicingConstants
  <2> QED BY <2>3, <2>4, <2>6, <2>7 DEF Recorded, EstAvoir
<1>9. ASSUME NEW h \in Handlers, NEW a \in Invoices, PutCredit(h, a), ~ Holds(f)
      PROVE  Coherent(f) /\ Recorded(f)'
  <2>1. job[h].copy \in Item /\ job[h].filled \in Terms /\ Holds(job[h].copy)
    BY <1>9 DEF PutCredit, TypeInv, JobsInv, JobOK, Holds
  <2>2. PICK c \in Item : c = job[h].copy
    BY <2>1
  <2>3. Coherent(c) /\ Recorded(c)' /\ ~ Modifiable(c) /\ ~ EstAvoir(c)
    <3>1. Coherent(c) /\ Recorded(c)
      BY <2>1, <2>2 DEF PapersInv
    <3>2. ~ Modifiable(c) /\ ~ EstAvoir(c)
      BY <1>9, <2>2 DEF PutCredit, TypeInv, JobsInv, JobOK, May
    <3> QED BY <3>1, <3>2, RecordedStays
  <2> DEFINE cancelled == [c EXCEPT !.status = "annulee", !.cancelledBy = a]
             note == Draft(c.lines, job[h].filled, c.number)
  <2>4. f = cancelled \/ f = note
    <3>1. \A x \in Handlers : job'[x].copy = job[x].copy
      BY <1>9 DEF PutCredit, TypeInv, TypeOK, Jobs
    <3>2. \A i \in Invoices : invoices'[i] \in {invoices[i], cancelled, note}
      BY <1>9, <2>2 DEF PutCredit, TypeInv, TypeOK
    <3> QED BY <1>9, <3>1, <3>2 DEF Holds
  <2>5. CASE f = cancelled
    <3>1. /\ f.number = c.number /\ f.creditFor = c.creditFor /\ f.lines = c.lines
          /\ f.terms = c.terms /\ f.status # "brouillon"
      BY <2>5 DEF Item
    <3> QED BY <2>3, <3>1 DEF Coherent, Recorded, Modifiable, EstAvoir, EventOf
  <2>6. CASE f = note
    <3>1. Modifiable(f) /\ f.number = None /\ f.creditFor = c.number
      BY <2>1, <2>2, <2>6, DraftIsItem DEF Item
    <3>2. c.number # None /\ c.number.prefix = "FA"
      BY <2>3 DEF Coherent
    <3>3. \E k \in DOMAIN journal' : journal'[k] = EventOf(c)
      BY <2>3, <3>2 DEF Recorded
    <3>4. \E k \in DOMAIN journal' : journal'[k].number = f.creditFor /\ journal'[k].number.prefix = "FA"
      BY <3>1, <3>2, <3>3 DEF EventOf
    <3> QED BY <3>1, <3>4 DEF Coherent, Recorded
  <2> QED BY <2>4, <2>5, <2>6
<1>10. ASSUME (\E t \in Terms : EditTerms(t)) \/ NewYear \/ UNCHANGED vars
       PROVE  Holds(f)
  BY <1>10 DEF EditTerms, NewYear, vars, Holds
<1> QED BY <1>1, <1>2, <1>3, <1>4, <1>5, <1>6, <1>7, <1>8, <1>9, <1>10 DEF Next, Handle

-----------------------------------------------------------------------------
(* Ranks and numbers *)

\* Handler h has taken a number that it has not written yet.
Taken(h) == job[h].kind = "issue" /\ job[h].pc \in {"fill", "put"}

SameRank(n, m) == n.year = m.year /\ n.rank = m.rank

\* The numbers taken are below the counters, none is journalled yet, and no two handlers
\* have the same.
RanksInv ==
    /\ \A k \in DOMAIN journal : journal[k].number.rank <= counter[journal[k].number.year]
    /\ \A h \in Handlers : Taken(h) =>
          /\ job[h].number.rank <= counter[job[h].number.year]
          /\ \A k \in DOMAIN journal : ~ SameRank(job[h].number, journal[k].number)
          /\ \A g \in Handlers : g # h /\ Taken(g) => ~ SameRank(job[h].number, job[g].number)

\* A number is borne by one identifier, in its item and in the copies of it.
Bears(i, n) ==
    \/ invoices[i] # None /\ invoices[i].number = n
    \/ \E h \in Handlers : job[h].pc # "idle" /\ job[h].invoice = i /\ job[h].copy.number = n

OwnersInv == \A n \in Numbers, i, j \in Invoices : Bears(i, n) /\ Bears(j, n) => i = j

\* What a step does to the numbers.
LEMMA NumbersMove ==
    ASSUME InvoicingConstants, TypeInv, [Next]_vars
    PROVE  \/ \E h \in Handlers : TakeRank(h)
           \/ \E h \in Handlers : PutIssued(h)
           \/ /\ UNCHANGED journal
              /\ \A y \in Years : counter'[y] >= counter[y]
              /\ \A h \in Handlers : Taken(h)' => Taken(h) /\ job'[h].number = job[h].number
<1> SUFFICES ASSUME ~ (\E h \in Handlers : TakeRank(h)), ~ (\E h \in Handlers : PutIssued(h))
             PROVE  /\ UNCHANGED journal
                    /\ \A y \in Years : counter'[y] >= counter[y]
                    /\ \A h \in Handlers : Taken(h)' => Taken(h) /\ job'[h].number = job[h].number
  OBVIOUS
<1>1. UNCHANGED journal
  BY JournalGrows
<1>2. \A y \in Years : counter'[y] >= counter[y]
  <2>1. counter' = counter \/ (year \in Years /\ counter' = [counter EXCEPT ![year] = @ + 1])
    BY DEF Next, Handle, Create, Begin, LoseRank, Fill, GiveUp, PutUpdate, PutDelete, PutPaid,
           PutCredit, Put, EditTerms, NewYear, vars, TypeInv, TypeOK
  <2> QED BY <2>1 DEF TypeInv, TypeOK
<1>3. ASSUME NEW h \in Handlers, Taken(h)'
      PROVE  Taken(h) /\ job'[h].number = job[h].number
  <2>1. job \in [Handlers -> Jobs] /\ JobsInv
    BY DEF TypeInv, TypeOK
  <2>2. CASE job' = job
    BY <1>3, <2>2 DEF Taken
  <2>3. ASSUME NEW g \in Handlers, NEW kind \in Operations, NEW i \in Invoices, Begin(g, kind, i)
        PROVE  Taken(h) /\ job'[h].number = job[h].number
    <3>1. CASE g = h
      BY <1>3, <2>1, <2>3, <3>1 DEF Begin, Taken, After, Operations
    <3>2. CASE g # h
      BY <1>3, <2>1, <2>3, <3>2 DEF Begin, Taken
    <3> QED BY <3>1, <3>2
  <2>4. ASSUME NEW g \in Handlers, Fill(g)
        PROVE  Taken(h) /\ job'[h].number = job[h].number
    BY <1>3, <2>1, <2>4 DEF Fill, Taken, Jobs
  <2>5. ASSUME NEW g \in Handlers,
               job' = [job EXCEPT ![g].pc = "failed"] \/ job' = [job EXCEPT ![g].pc = "done"]
        PROVE  Taken(h) /\ job'[h].number = job[h].number
    BY <1>3, <2>1, <2>5 DEF Taken, Jobs
  <2>6. \/ job' = job
        \/ \E g \in Handlers, kind \in Operations, i \in Invoices : Begin(g, kind, i)
        \/ \E g \in Handlers : Fill(g)
        \/ \E g \in Handlers :
              job' = [job EXCEPT ![g].pc = "failed"] \/ job' = [job EXCEPT ![g].pc = "done"]
    BY DEF Next, Handle, Create, LoseRank, GiveUp, PutUpdate, PutDelete, PutPaid,
           PutCredit, Put, EditTerms, NewYear, vars
  <2> QED BY <2>2, <2>3, <2>4, <2>5, <2>6
<1> QED BY <1>1, <1>2, <1>3

LEMMA RanksStep ==
    ASSUME InvoicingConstants, TypeInv, TypeInv', RanksInv, [Next]_vars
    PROVE  RanksInv'
<1>1. /\ \A k \in DOMAIN journal : journal[k].number \in Numbers
      /\ \A h \in Handlers : Taken(h) => job[h].number \in Numbers
      /\ \A n \in Numbers : n.year \in Years /\ n.rank \in Nat /\ counter[n.year] \in Nat
  <2>1. \A k \in DOMAIN journal : journal[k].number \in Numbers
    <3>1. journal \in Seq(Entries)
      BY DEF TypeInv, TypeOK, Entries
    <3>2. \A k \in DOMAIN journal : journal[k] \in Entries
      BY <3>1
    <3> QED BY <3>2 DEF Entries
  <2>2. \A h \in Handlers : Taken(h) => job[h].number \in Numbers
    BY DEF TypeInv, JobsInv, JobOK, Taken
  <2>3. \A n \in Numbers : n.year \in Years /\ n.rank \in Nat /\ counter[n.year] \in Nat
    BY DEF TypeInv, TypeOK, Numbers
  <2> QED BY <2>1, <2>2, <2>3
<1>2. CASE /\ UNCHANGED journal
           /\ \A y \in Years : counter'[y] >= counter[y]
           /\ \A h \in Handlers : Taken(h)' => Taken(h) /\ job'[h].number = job[h].number
  <2>1. \A n \in Numbers : counter'[n.year] \in Nat /\ counter'[n.year] >= counter[n.year]
    <3>1. counter' \in [Years -> Nat]
      BY DEF TypeInv, TypeOK
    <3> QED BY <1>1, <1>2, <3>1
  <2>2. \A k \in DOMAIN journal' : journal'[k].number.rank <= counter'[journal'[k].number.year]
    BY <1>1, <1>2, <2>1 DEF RanksInv
  <2>3. ASSUME NEW h \in Handlers, Taken(h)'
        PROVE  /\ job'[h].number.rank <= counter'[job'[h].number.year]
               /\ \A k \in DOMAIN journal' : ~ SameRank(job'[h].number, journal'[k].number)
               /\ \A g \in Handlers : g # h /\ Taken(g)' => ~ SameRank(job'[h].number, job'[g].number)
    <3>1. Taken(h) /\ job'[h].number = job[h].number
      BY <1>2, <2>3
    <3>2. job'[h].number.rank <= counter'[job'[h].number.year]
      BY <1>1, <2>1, <3>1 DEF RanksInv
    <3> QED BY <1>2, <3>1, <3>2 DEF RanksInv
  <2> QED BY <2>2, <2>3 DEF RanksInv, SameRank
<1>3. ASSUME NEW h \in Handlers, TakeRank(h)
      PROVE  RanksInv'
  <2> DEFINE n == Number(job[h].copy, year, counter[year] + 1)
  <2>1. n \in Numbers /\ n.year = year /\ n.rank = counter[year] + 1 /\ year \in Years
    <3>1. PICK rank \in Nat \ {0} : rank = counter[year] + 1
      BY DEF TypeInv, TypeOK
    <3>2. year \in Years /\ n = Number(job[h].copy, year, rank)
      BY <3>1 DEF TypeInv, TypeOK
    <3> HIDE DEF n
    <3>3. n \in Numbers /\ n.year = year /\ n.rank = rank
      BY <3>2, NumberIsNumber
    <3> QED BY <3>1, <3>2, <3>3
  <2>2. /\ journal' = journal
        /\ \A y \in Years : counter'[y] = IF y = year THEN counter[y] + 1 ELSE counter[y]
        /\ job'[h].number = n
        /\ \A g \in Handlers : g # h => job'[g] = job[g]
    BY <1>3 DEF TakeRank, TypeInv, TypeOK, Jobs
  <2> HIDE DEF n
  <2>3. \A m \in Numbers : m.rank <= counter[m.year] =>
           m.rank <= counter'[m.year] /\ ~ SameRank(m, n) /\ ~ SameRank(n, m)
    BY <1>1, <2>1, <2>2 DEF SameRank
  <2>4. \A k \in DOMAIN journal :
           journal[k].number.rank <= counter'[journal[k].number.year] /\ ~ SameRank(n, journal[k].number)
    BY <1>1, <2>3 DEF RanksInv
  <2>5. n.rank <= counter'[n.year]
    BY <1>1, <2>1, <2>2
  <2>6. ASSUME NEW g \in Handlers, g # h, Taken(g)'
        PROVE  /\ Taken(g) /\ job'[g].number = job[g].number
               /\ job[g].number.rank <= counter'[job[g].number.year]
               /\ ~ SameRank(n, job[g].number) /\ ~ SameRank(job[g].number, n)
    <3>1. Taken(g) /\ job'[g] = job[g]
      BY <2>2, <2>6 DEF Taken
    <3> QED BY <1>1, <2>3, <3>1 DEF RanksInv
  <2>7. ASSUME NEW g \in Handlers, Taken(g)'
        PROVE  /\ job'[g].number.rank <= counter'[job'[g].number.year]
               /\ \A k \in DOMAIN journal' : ~ SameRank(job'[g].number, journal'[k].number)
               /\ \A x \in Handlers : x # g /\ Taken(x)' => ~ SameRank(job'[g].number, job'[x].number)
    <3>1. CASE g = h
      BY <2>2, <2>4, <2>5, <2>6, <3>1
    <3>2. CASE g # h
      <4>1. /\ Taken(g) /\ job'[g].number = job[g].number
            /\ job[g].number.rank <= counter'[job[g].number.year] /\ ~ SameRank(job[g].number, n)
        BY <2>6, <2>7, <3>2
      <4>2. ASSUME NEW x \in Handlers, x # g, Taken(x)'
            PROVE  ~ SameRank(job'[g].number, job'[x].number)
        <5>1. CASE x = h
          BY <2>2, <4>1, <5>1
        <5>2. CASE x # h
          BY <2>6, <4>1, <4>2, <5>2 DEF RanksInv
        <5> QED BY <5>1, <5>2
      <4> QED BY <2>2, <4>1, <4>2 DEF RanksInv
    <3> QED BY <3>1, <3>2
  <2> QED BY <2>2, <2>4, <2>7 DEF RanksInv, SameRank
<1>4. ASSUME NEW h \in Handlers, PutIssued(h)
      PROVE  RanksInv'
  <2>1. /\ counter' = counter /\ Taken(h) /\ ~ Taken(h)'
        /\ \A g \in Handlers : g # h => job'[g] = job[g]
    BY <1>4 DEF PutIssued, Put, Taken, TypeInv, TypeOK, Jobs
  <2>2. \A k \in DOMAIN journal' :
           \/ k \in DOMAIN journal /\ journal'[k] = journal[k]
           \/ journal'[k].number = job[h].number
    <3>1. EventOf(Issued(h)).number = job[h].number
      BY <1>4, IssuedShape DEF EventOf
    <3> QED BY <1>4, <3>1, JournalAppends
  <2>3. \A k \in DOMAIN journal' : journal'[k].number.rank <= counter'[journal'[k].number.year]
    BY <2>1, <2>2 DEF RanksInv
  <2>4. ASSUME NEW g \in Handlers, Taken(g)'
        PROVE  /\ g # h /\ Taken(g) /\ job'[g].number = job[g].number
               /\ \A k \in DOMAIN journal' : ~ SameRank(job'[g].number, journal'[k].number)
    <3>1. g # h /\ Taken(g) /\ job'[g].number = job[g].number
      BY <2>1, <2>4 DEF Taken
    <3>2. ~ SameRank(job[g].number, job[h].number)
      BY <2>1, <3>1 DEF RanksInv
    <3> QED BY <2>2, <3>1, <3>2 DEF RanksInv
  <2> QED BY <2>1, <2>3, <2>4 DEF RanksInv, SameRank
<1> QED BY <1>2, <1>3, <1>4, NumbersMove

\* A put of an item with the number of its copy, or without a number.
LEMMA PutBears ==
    ASSUME TypeInv, NEW h \in Handlers, NEW kind, NEW g, Put(h, kind, g),
           NEW i \in Invoices, NEW n \in Numbers, Bears(i, n)'
    PROVE  \/ Bears(i, n)
           \/ g # None /\ g.number = n /\ i = job[h].invoice
<1>1. job[h].pc # "idle" /\ job'[h].pc # "idle"
      /\ \A x \in Handlers : /\ job'[x].copy = job[x].copy /\ job'[x].invoice = job[x].invoice
                             /\ job'[x].pc # "idle" => job[x].pc # "idle"
  BY DEF Put, TypeInv, TypeOK, Jobs
<1>2. invoices'[i] = IF i = job[h].invoice THEN g ELSE invoices[i]
  BY DEF Put, TypeInv, TypeOK
<1> QED BY <1>1, <1>2 DEF Bears

\* A number spreads only from the identifier that bears it, or from the issue.
LEMMA BearsMove ==
    ASSUME InvoicingConstants, TypeInv, [Next]_vars, NEW i \in Invoices, NEW n \in Numbers, Bears(i, n)'
    PROVE  \/ Bears(i, n)
           \/ \E h \in Handlers : PutIssued(h) /\ i = job[h].invoice /\ n = job[h].number
<1>0. job \in [Handlers -> Jobs] /\ n # None
  BY DEF TypeInv, TypeOK, InvoicingConstants
<1>1. ASSUME NEW x \in Invoices, NEW lines \in Lines, Create(x, lines)
      PROVE  Bears(i, n)
  <2>1. Draft(lines, terms, None).number = None
    BY DraftIsItem DEF TypeInv, TypeOK
  <2> HIDE DEF Draft
  <2>2. invoices'[i] = invoices[i] \/ invoices'[i] = Draft(lines, terms, None)
    BY <1>1 DEF Create, TypeInv, TypeOK
  <2> QED BY <1>0, <1>1, <2>1, <2>2 DEF Create, Bears
<1>2. ASSUME NEW h \in Handlers, NEW kind \in Operations, NEW x \in Invoices, Begin(h, kind, x)
      PROVE  Bears(i, n)
  <2>1. /\ invoices' = invoices /\ invoices[x] # None
        /\ job'[h].invoice = x /\ job'[h].copy = invoices[x]
        /\ \A g \in Handlers : g # h => job'[g] = job[g]
    BY <1>0, <1>2 DEF Begin
  <2> QED BY <2>1 DEF Bears
<1>3. ASSUME NEW h \in Handlers, TakeRank(h) \/ LoseRank(h) \/ Fill(h) \/ GiveUp(h)
      PROVE  Bears(i, n)
  <2>1. invoices' = invoices
    BY <1>3 DEF TakeRank, LoseRank, Fill, GiveUp
  <2>2. \A x \in Handlers : /\ job'[x].copy = job[x].copy /\ job'[x].invoice = job[x].invoice
                            /\ job'[x].pc # "idle" => job[x].pc # "idle"
    <3>1. CASE TakeRank(h)
      BY <1>0, <3>1 DEF TakeRank, Jobs
    <3>2. CASE LoseRank(h)
      BY <3>2 DEF LoseRank
    <3>3. CASE Fill(h) \/ GiveUp(h)
      BY <1>0, <3>3 DEF Fill, GiveUp, Jobs
    <3> QED BY <1>3, <3>1, <3>2, <3>3
  <2> QED BY <2>1, <2>2 DEF Bears
<1>4. ASSUME NEW h \in Handlers, NEW lines \in Lines, PutUpdate(h, lines)
      PROVE  Bears(i, n)
  <2> DEFINE g == [job[h].copy EXCEPT !.lines = lines, !.terms = job[h].filled]
  <2>1. job[h].pc # "idle" /\ job[h].copy \in Item /\ Put(h, "update", g)
    BY <1>4 DEF PutUpdate, Put, TypeInv, JobsInv, JobOK
  <2>2. g.number = job[h].copy.number
    BY <2>1 DEF Item
  <2> HIDE DEF g
  <2> QED BY <2>1, <2>2, PutBears DEF Bears
<1>5. ASSUME NEW h \in Handlers, PutDelete(h)
      PROVE  Bears(i, n)
  BY <1>5, PutBears DEF PutDelete
<1>6. ASSUME NEW h \in Handlers, NEW paid \in BOOLEAN, PutPaid(h, paid)
      PROVE  Bears(i, n)
  <2> DEFINE g == [job[h].copy EXCEPT !.status = IF paid THEN "payee" ELSE "emise"]
  <2>1. job[h].pc # "idle" /\ job[h].copy \in Item /\ Put(h, "pay", g)
    BY <1>6 DEF PutPaid, Put, TypeInv, JobsInv, JobOK
  <2>2. g.number = job[h].copy.number
    BY <2>1 DEF Item
  <2> HIDE DEF g
  <2> QED BY <2>1, <2>2, PutBears DEF Bears
<1>7. ASSUME NEW h \in Handlers, PutIssued(h), ~ Bears(i, n)
      PROVE  i = job[h].invoice /\ n = job[h].number
  <2>1. Issued(h).number = job[h].number
    BY <1>7, IssuedShape
  <2> QED BY <1>7, <2>1, PutBears DEF PutIssued
<1>8. ASSUME NEW h \in Handlers, NEW a \in Invoices, PutCredit(h, a)
      PROVE  Bears(i, n)
  <2> DEFINE g == [job[h].copy EXCEPT !.status = "annulee", !.cancelledBy = a]
             note == Draft(job[h].copy.lines, job[h].filled, job[h].copy.number)
  <2>1. /\ job[h].pc # "idle" /\ job[h].copy \in Item
        /\ \A x \in Handlers : /\ job'[x].copy = job[x].copy /\ job'[x].invoice = job[x].invoice
                               /\ job'[x].pc # "idle" => job[x].pc # "idle"
    BY <1>0, <1>8 DEF PutCredit, TypeInv, JobsInv, JobOK, Jobs
  <2>2. g.number = job[h].copy.number /\ note.number = None
    BY <2>1 DEF Item, Draft
  <2>3. invoices'[i] \in {invoices[i], note} \/ (i = job[h].invoice /\ invoices'[i] = g)
    BY <1>8 DEF PutCredit, TypeInv, TypeOK
  <2> HIDE DEF g, note
  <2> QED BY <1>0, <2>1, <2>2, <2>3 DEF Bears
<1>9. ASSUME (\E t \in Terms : EditTerms(t)) \/ NewYear \/ UNCHANGED vars
      PROVE  Bears(i, n)
  BY <1>9 DEF EditTerms, NewYear, vars, Bears
<1> QED BY <1>1, <1>2, <1>3, <1>4, <1>5, <1>6, <1>7, <1>8, <1>9 DEF Next, Handle

\* A number that is about to be written is borne by nothing.
LEMMA TakenIsFresh ==
    ASSUME InvoicingConstants, TypeInv, PapersInv, RanksInv,
           NEW h \in Handlers, Taken(h), NEW i \in Invoices
    PROVE  ~ Bears(i, job[h].number)
<1> SUFFICES ASSUME Bears(i, job[h].number) PROVE FALSE
  OBVIOUS
<1>1. job[h].number # None
  BY DEF Taken, TypeInv, JobsInv, JobOK, InvoicingConstants
<1>2. PICK c \in Item : Holds(c) /\ c.number = job[h].number
  <2>1. CASE invoices[i] # None /\ invoices[i].number = job[h].number
    <3>1. invoices[i] \in Item /\ Holds(invoices[i])
      BY <2>1 DEF Holds, TypeInv, TypeOK
    <3> QED BY <2>1, <3>1
  <2>2. ASSUME NEW g \in Handlers, job[g].pc # "idle", job[g].copy.number = job[h].number
        PROVE  \E c \in Item : Holds(c) /\ c.number = job[h].number
    <3>1. job[g].copy \in Item /\ Holds(job[g].copy)
      BY <2>2 DEF Holds, TypeInv, JobsInv, JobOK
    <3> QED BY <2>2, <3>1
  <2> QED BY <2>1, <2>2 DEF Bears
<1>3. PICK k \in DOMAIN journal : journal[k] = EventOf(c)
  BY <1>1, <1>2 DEF PapersInv, Recorded
<1> QED BY <1>2, <1>3 DEF EventOf, RanksInv, SameRank

LEMMA OwnersStep ==
    ASSUME InvoicingConstants, TypeInv, PapersInv, RanksInv, OwnersInv, [Next]_vars
    PROVE  OwnersInv'
<1> SUFFICES ASSUME NEW n \in Numbers, NEW i \in Invoices, NEW j \in Invoices,
                    Bears(i, n)', Bears(j, n)'
             PROVE  i = j
  BY DEF OwnersInv
<1>1. CASE Bears(i, n) /\ Bears(j, n)
  BY <1>1 DEF OwnersInv
<1>2. ASSUME NEW h \in Handlers, PutIssued(h)
      PROVE  \A x \in Invoices : Bears(x, n)' /\ n = job[h].number => x = job[h].invoice
  <2>1. Taken(h)
    BY <1>2 DEF PutIssued, Put, Taken
  <2>2. ~ Bears(job[h].invoice, job[h].number)
    BY <1>2, <2>1, TakenIsFresh DEF TypeInv, TypeOK, Jobs
  <2> SUFFICES ASSUME NEW x \in Invoices, Bears(x, n)', n = job[h].number PROVE x = job[h].invoice
    OBVIOUS
  <2>3. ~ Bears(x, n)
    BY <2>1, TakenIsFresh
  <2>4. Issued(h).number = job[h].number
    BY <1>2, IssuedShape
  <2> QED BY <1>2, <2>3, PutBears DEF PutIssued
<1>3. CASE ~ (Bears(i, n) /\ Bears(j, n))
  <2>1. PICK h \in Handlers : PutIssued(h) /\ n = job[h].number
    BY <1>3, BearsMove
  <2> QED BY <1>2, <2>1
<1> QED BY <1>1, <1>3

-----------------------------------------------------------------------------
(* The theorems *)

Inv == TypeInv /\ PapersInv /\ RanksInv /\ OwnersInv

LEMMA InvInit == ASSUME InvoicingConstants PROVE Init => Inv
<1> SUFFICES ASSUME Init PROVE Inv
  OBVIOUS
<1>1. journal = <<>> /\ DOMAIN journal = {}
  BY DEF Init
<1>2. /\ \A i \in Invoices : invoices[i] = None
      /\ \A h \in Handlers : job[h].pc = "idle" /\ job[h].kind = "pay" /\ job[h].copy = None
  <2>1. Idle.pc = "idle" /\ Idle.kind = "pay" /\ Idle.copy = None
    BY DEF Idle
  <2> QED BY <2>1 DEF Init
<1>3. PapersInv
  <2>1. \A f \in Item : ~ Holds(f)
    BY <1>2 DEF Holds, InvoicingConstants
  <2> QED BY <2>1 DEF PapersInv
<1>4. RanksInv
  BY <1>1, <1>2 DEF RanksInv, Taken
<1>5. OwnersInv
  BY <1>2 DEF OwnersInv, Bears
<1> QED BY <1>3, <1>4, <1>5, TypeInit DEF Inv

LEMMA InvStep == ASSUME InvoicingConstants, Inv, [Next]_vars PROVE Inv'
<1>1. TypeInv'
  BY TypeStep DEF Inv
<1> QED BY <1>1, PapersStep, RanksStep, OwnersStep DEF Inv

LEMMA InvAlways == ASSUME InvoicingConstants PROVE Spec => []Inv
<1>1. Inv /\ [Next]_vars => Inv'
  BY InvStep
<1> QED BY <1>1, InvInit, PTL DEF Spec

\* A numbered document says, for ever, what the journal recorded when it was issued, a
\* credit note corrects an invoice the journal knows, and no two documents bear one number,
\* whatever races on them (invoicing/invoice.go:24-28, 246-251).
THEOREM DocumentsAreAsJournalled ==
    ASSUME InvoicingConstants PROVE Spec => []NumberedAsJournalled
<1>1. Inv => NumberedAsJournalled
  <2> SUFFICES ASSUME Inv PROVE NumberedAsJournalled
    OBVIOUS
  <2>1. \A i \in Invoices : invoices[i] # None =>
            invoices[i] \in Item /\ Holds(invoices[i])
    BY DEF Inv, TypeInv, TypeOK, Holds
  <2>2. ASSUME NEW i \in Invoices, NEW f \in Item, f = invoices[i], f # None
        PROVE  Recorded(f)
    BY <2>1, <2>2 DEF Inv, PapersInv
  <2>3. ASSUME NEW i \in Invoices, NEW j \in Invoices, i # j, invoices[i] # None,
               invoices[j] # None, invoices[i].number # None
        PROVE  invoices[i].number # invoices[j].number
    <3>1. invoices[i].number \in Numbers
      BY <2>1, <2>3 DEF Item
    <3>2. invoices[i].number = invoices[j].number =>
             \E n \in Numbers : Bears(i, n) /\ Bears(j, n)
      BY <2>3, <3>1 DEF Bears
    <3> QED BY <2>3, <3>2 DEF Inv, OwnersInv
  <2>4. TypeOK
    BY DEF Inv, TypeInv
  <2> QED BY <2>1, <2>2, <2>3, <2>4 DEF NumberedAsJournalled, Recorded, EstAvoir
<1> QED BY <1>1, InvAlways, PTL

\* The number of a document disappears only by the write of a handler that had not read it
\* (invoicing/invoice.go:399-409).
THEOREM NumbersLostByStaleWrites ==
    ASSUME InvoicingConstants PROVE Spec => OnlyStaleWritesForget
<1>1. ASSUME Inv, [Next]_vars, NEW i \in Invoices, invoices[i] # None, invoices[i].number # None,
             invoices'[i] = None \/ invoices'[i].number # invoices[i].number
      PROVE  \E h \in Handlers : /\ job[h].pc = "put" /\ job'[h].pc = "done"
                                 /\ job[h].invoice = i /\ job[h].copy.number # invoices[i].number
  <2>1. /\ job \in [Handlers -> Jobs] /\ i \in drawn
        /\ \A h \in Handlers : job[h].pc = "put" =>
              /\ job[h].copy \in Item /\ Coherent(job[h].copy) /\ May(job[h].kind, job[h].copy)
    BY <1>1 DEF Inv, TypeInv, TypeOK, JobsInv, JobOK, PapersInv, Holds
  <2>2. ASSUME NEW h \in Handlers, NEW kind \in Operations, NEW g, Put(h, kind, g),
               Modifiable(job[h].copy) \/ (g # None /\ g.number = job[h].copy.number)
        PROVE  \E x \in Handlers : /\ job[x].pc = "put" /\ job'[x].pc = "done"
                                   /\ job[x].invoice = i /\ job[x].copy.number # invoices[i].number
    <3>1. job[h].pc = "put" /\ job'[h].pc = "done"
      BY <2>1, <2>2 DEF Put, Jobs
    <3>2. invoices'[i] = IF i = job[h].invoice THEN g ELSE invoices[i]
      BY <1>1, <2>2 DEF Put, Inv, TypeInv, TypeOK
    <3>3. Modifiable(job[h].copy) => job[h].copy.number = None
      BY <2>1, <3>1 DEF Coherent
    <3> QED BY <1>1, <2>2, <3>1, <3>2, <3>3
  <2>3. ASSUME NEW h \in Handlers, NEW lines \in Lines, PutUpdate(h, lines)
        PROVE  Modifiable(job[h].copy)
    BY <2>1, <2>3 DEF PutUpdate, Put, May
  <2>4. ASSUME NEW h \in Handlers, PutDelete(h) \/ PutIssued(h)
        PROVE  Modifiable(job[h].copy)
    BY <2>1, <2>4 DEF PutDelete, PutIssued, Put, May
  <2>5. ASSUME NEW h \in Handlers, NEW paid \in BOOLEAN, PutPaid(h, paid)
        PROVE  \E x \in Handlers : /\ job[x].pc = "put" /\ job'[x].pc = "done"
                                   /\ job[x].invoice = i /\ job[x].copy.number # invoices[i].number
    <3> DEFINE g == [job[h].copy EXCEPT !.status = IF paid THEN "payee" ELSE "emise"]
    <3>1. Put(h, "pay", g) /\ job[h].copy \in Item
      BY <2>1, <2>5 DEF PutPaid, Put
    <3>2. g \in Item /\ g.number = job[h].copy.number
      BY <3>1 DEF Item, Statuses
    <3> HIDE DEF g
    <3>3. g # None
      BY <3>2 DEF Inv, InvoicingConstants
    <3> QED BY <2>2, <3>1, <3>2, <3>3 DEF Operations
  <2>6. ASSUME NEW h \in Handlers, NEW a \in Invoices, PutCredit(h, a)
        PROVE  \E x \in Handlers : /\ job[x].pc = "put" /\ job'[x].pc = "done"
                                   /\ job[x].invoice = i /\ job[x].copy.number # invoices[i].number
    <3> DEFINE g == [job[h].copy EXCEPT !.status = "annulee", !.cancelledBy = a]
    <3>1. job[h].pc = "put" /\ job'[h].pc = "done" /\ i # a /\ job[h].copy \in Item
      BY <2>1, <2>6 DEF PutCredit, Jobs
    <3>2. invoices'[i] = IF i = job[h].invoice THEN g ELSE invoices[i]
      BY <1>1, <2>6, <3>1 DEF PutCredit, Inv, TypeInv, TypeOK
    <3>3. g \in Item /\ g.number = job[h].copy.number
      BY <2>6, <3>1 DEF Item, Statuses
    <3> HIDE DEF g
    <3>4. g # None
      BY <3>3 DEF InvoicingConstants
    <3> QED BY <1>1, <3>1, <3>2, <3>3, <3>4
  <2>7. \/ invoices'[i] = invoices[i]
        \/ \E h \in Handlers : \/ PutDelete(h) \/ PutIssued(h)
                               \/ (\E lines \in Lines : PutUpdate(h, lines))
                               \/ (\E paid \in BOOLEAN : PutPaid(h, paid))
                               \/ (\E a \in Invoices : PutCredit(h, a))
    <3>1. ASSUME NEW x \in Invoices, NEW lines \in Lines, Create(x, lines)
          PROVE  invoices'[i] = invoices[i]
      BY <2>1, <3>1 DEF Create, Inv, TypeInv, TypeOK
    <3>2. ASSUME NEW h \in Handlers, TakeRank(h) \/ LoseRank(h) \/ Fill(h) \/ GiveUp(h)
          PROVE  invoices'[i] = invoices[i]
      BY <3>2 DEF TakeRank, LoseRank, Fill, GiveUp
    <3>3. ASSUME NEW h \in Handlers, NEW kind \in Operations, NEW x \in Invoices, Begin(h, kind, x)
          PROVE  invoices'[i] = invoices[i]
      BY <3>3 DEF Begin
    <3>4. ASSUME (\E t \in Terms : EditTerms(t)) \/ NewYear \/ UNCHANGED vars
          PROVE  invoices'[i] = invoices[i]
      BY <3>4 DEF EditTerms, NewYear, vars
    <3> QED BY <1>1, <3>1, <3>2, <3>3, <3>4 DEF Next, Handle
  <2>8. ASSUME NEW h \in Handlers, NEW lines \in Lines, PutUpdate(h, lines)
        PROVE  \E x \in Handlers : /\ job[x].pc = "put" /\ job'[x].pc = "done"
                                   /\ job[x].invoice = i /\ job[x].copy.number # invoices[i].number
    BY <2>2, <2>3, <2>8 DEF PutUpdate, Operations
  <2>9. ASSUME NEW h \in Handlers, PutDelete(h) \/ PutIssued(h)
        PROVE  \E x \in Handlers : /\ job[x].pc = "put" /\ job'[x].pc = "done"
                                   /\ job[x].invoice = i /\ job[x].copy.number # invoices[i].number
    BY <2>2, <2>4, <2>9 DEF PutDelete, PutIssued, Operations
  <2> QED BY <1>1, <2>5, <2>6, <2>7, <2>8, <2>9
<1>2. Inv /\ [Next]_vars =>
         [\A i \in Invoices :
          /\ invoices[i] # None /\ invoices[i].number # None
          /\ invoices'[i] = None \/ invoices'[i].number # invoices[i].number
          => \E h \in Handlers : /\ job[h].pc = "put" /\ job'[h].pc = "done"
                                 /\ job[h].invoice = i
                                 /\ job[h].copy.number # invoices[i].number]_vars
  BY <1>1
<1> QED BY <1>2, InvAlways, PTL DEF Spec, OnlyStaleWritesForget

\* What an event is in the register.
Paper(e) == [year |-> e.number.year, rank |-> e.number.rank,
             paper |-> [prefix |-> e.number.prefix, lines |-> e.lines, terms |-> e.terms]]

\* Taking a rank, or issuing, is a step of the register.
LEMMA RegisterStep ==
    ASSUME InvoicingConstants, Inv, [Next]_vars
    PROVE  Reg!Next \/ (counter' = counter /\ Booked' = Booked)
<1>1. CASE \E h \in Handlers : TakeRank(h) \/ LoseRank(h)
  <2>1. year \in Years /\ counter' = [counter EXCEPT ![year] = @ + 1] /\ journal' = journal
    BY <1>1 DEF TakeRank, LoseRank, Inv, TypeInv, TypeOK
  <2> QED BY <2>1 DEF Reg!Next, Reg!Take, Booked
<1>2. ASSUME NEW h \in Handlers, PutIssued(h)
      PROVE  Reg!Next
  <2>1. PICK e \in Entries : e = EventOf(Issued(h))
    BY <1>2, IssuedShape DEF Inv
  <2>2. e.number = job[h].number /\ Taken(h) /\ counter' = counter
    BY <1>2, <2>1, IssuedShape DEF EventOf, Inv, PutIssued, Put, Taken
  <2>3. /\ \A k \in DOMAIN journal : k \in DOMAIN journal' /\ journal'[k] = journal[k]
        /\ \E k \in DOMAIN journal' : journal'[k] = e
        /\ \A k \in DOMAIN journal' : k \in DOMAIN journal \/ journal'[k] = e
    BY <1>2, <2>1, JournalAppends DEF Inv
  <2>4. Booked' = Booked \cup {Paper(e)}
    <3>1. Booked = {Paper(journal[k]) : k \in DOMAIN journal}
      BY DEF Booked, Paper
    <3>2. Booked' = {Paper(journal'[k]) : k \in DOMAIN journal'}
      BY DEF Booked, Paper
    <3> QED BY <2>3, <3>1, <3>2
  <2>5. Paper(e) \in Reg!Entry
    BY <2>1 DEF Paper, Entries, Numbers, Papers, Reg!Entry
  <2>6. Paper(e).rank <= counter[Paper(e).year]
    BY <2>2 DEF Paper, Inv, RanksInv
  <2>7. \A other \in Booked : <<other.year, other.rank>> # <<Paper(e).year, Paper(e).rank>>
    <3>1. \A k \in DOMAIN journal : ~ SameRank(e.number, journal[k].number)
      BY <2>2 DEF Inv, RanksInv
    <3>2. \A k \in DOMAIN journal :
             <<Paper(journal[k]).year, Paper(journal[k]).rank>> # <<Paper(e).year, Paper(e).rank>>
      BY <3>1 DEF SameRank, Paper
    <3> QED BY <3>2 DEF Booked, Paper
  <2>8. Paper(e) \notin Booked
    BY <2>7
  <2> HIDE DEF Paper
  <2>9. Reg!Book(Paper(e))
    BY <2>2, <2>4, <2>6, <2>7 DEF Reg!Book
  <2> QED BY <2>4, <2>5, <2>8, <2>9 DEF Reg!Next
<1>3. CASE ~ (\E h \in Handlers : TakeRank(h) \/ LoseRank(h) \/ PutIssued(h))
  <2>1. journal' = journal
    BY <1>3, JournalGrows
  <2>2. counter' = counter
    BY <1>3 DEF Next, Handle, Create, Begin, Fill, GiveUp, PutUpdate, PutDelete, PutPaid, PutCredit,
                Put, EditTerms, NewYear, vars
  <2> QED BY <2>1, <2>2 DEF Booked
<1> QED BY <1>1, <1>2, <1>3

\* The counter, incremented in a write of its own, and the journal implement the register
\* of numbered documents: no rank is journalled twice, whatever fails or races between the
\* two writes (invoicing/invoice.go:246-251, 280-330).
THEOREM ImplementsRegister == ASSUME InvoicingConstants PROVE Spec => NumberedRegister
<1>1. Init => Reg!Init
  BY DEF Init, Reg!Init, Booked
<1>2. Inv /\ [Next]_vars => [Reg!Next]_(Reg!vars)
  BY RegisterStep DEF Reg!vars
<1> QED BY <1>1, <1>2, InvAlways, PTL DEF Spec, NumberedRegister, Reg!Spec

-----------------------------------------------------------------------------
(* Accounts: the tables agree *)

User == [org : Orgs, email : Emails, role : A!Roles, disabled : BOOLEAN, pwd : Nat \cup {None}]
Invitation == [user : Nat, used : BOOLEAN, expired : BOOLEAN]
Session == [user : Nat, role : A!Roles, by : Nat \cup {None}, live : BOOLEAN]

TablesTyped ==
    /\ users \in Seq(User) /\ invitations \in Seq(Invitation) /\ sessions \in Seq(Session)
    /\ pointer \in [Emails -> Nat \cup {None}] /\ cookies \subseteq DOMAIN sessions

\* What a table refers to exists.
RefsInv ==
    /\ \A e \in Emails : pointer[e] \in {None} \cup DOMAIN users
    /\ \A t \in DOMAIN invitations : invitations[t].user \in DOMAIN users
    /\ \A s \in DOMAIN sessions :
          sessions[s].user \in DOMAIN users /\ sessions[s].by \in {None} \cup DOMAIN users

\* The password of record u of account id comes with its access and its invitation.
Keyed(id, u) ==
    /\ u.pwd = None => u.disabled
    /\ u.pwd \in {None, 0} \cup DOMAIN invitations
    /\ u.pwd \in DOMAIN invitations => invitations[u.pwd].user = id /\ invitations[u.pwd].used

\* Record u may be put for account id: no write moves an address or an organisation.
Fits(id, u) ==
    /\ id \in DOMAIN users /\ u \in User
    /\ u.email = users[id].email /\ u.org = users[id].org
    /\ Keyed(id, u)

UsersInv == \A id \in DOMAIN users : Fits(id, users[id]) /\ pointer[users[id].email] = id

TablesInv == TablesTyped /\ RefsInv /\ UsersInv

\* Tables only grow, accounts keep their address, invitations that were used stay so.
InvitationsGrow ==
    /\ DOMAIN invitations \subseteq DOMAIN invitations'
    /\ \A t \in DOMAIN invitations : /\ invitations'[t].user = invitations[t].user
                                     /\ invitations[t].used => invitations'[t].used

Grown ==
    /\ DOMAIN users \subseteq DOMAIN users' /\ DOMAIN sessions \subseteq DOMAIN sessions'
    /\ \A id \in DOMAIN users : users'[id].email = users[id].email /\ users'[id].org = users[id].org
    /\ InvitationsGrow

LEMMA KeyedGrows ==
    ASSUME A!AccountsConstants, InvitationsGrow, invitations' \in Seq(Invitation), NEW id, NEW u, Keyed(id, u)
    PROVE  Keyed(id, u)'
<1>1. u.pwd \in DOMAIN invitations' => u.pwd \in DOMAIN invitations
  BY DEF Keyed, A!AccountsConstants
<1> QED BY <1>1 DEF Keyed, InvitationsGrow

LEMMA FitsGrows ==
    ASSUME A!AccountsConstants, TablesTyped', Grown, NEW id, NEW u, Fits(id, u)
    PROVE  Fits(id, u)'
<1>1. Keyed(id, u)'
  BY KeyedGrows DEF Fits, Grown, TablesTyped
<1> QED BY <1>1 DEF Fits, Grown

-----------------------------------------------------------------------------
(* What a step may do to the tables *)

LEMMA TablesKept == ASSUME TablesInv, UNCHANGED A!tables PROVE TablesInv' /\ Grown
BY DEF TablesInv, TablesTyped, RefsInv, UsersInv, Fits, Keyed, Grown, InvitationsGrow, A!tables

\* The account id is put as u; invitations may change with it.
LEMMA UserPut ==
    ASSUME A!AccountsConstants, TablesInv, NEW id \in DOMAIN users, NEW u \in User,
           u.email = users[id].email, u.org = users[id].org,
           users' = [users EXCEPT ![id] = u], UNCHANGED <<pointer, sessions, cookies>>,
           InvitationsGrow, invitations' \in Seq(Invitation),
           \A t \in DOMAIN invitations' : invitations'[t].user \in DOMAIN users,
           Keyed(id, u)'
    PROVE  TablesInv' /\ Grown
<1>1. TablesTyped' /\ DOMAIN users' = DOMAIN users
  BY DEF TablesInv, TablesTyped
<1>2. \A x \in DOMAIN users : users'[x] = IF x = id THEN u ELSE users[x]
  BY DEF TablesInv, TablesTyped
<1>3. Grown
  BY <1>1, <1>2 DEF Grown
<1>4. RefsInv'
  BY <1>1 DEF TablesInv, RefsInv
<1>5. ASSUME NEW x \in DOMAIN users', NEW v, v = users'[x]
      PROVE  Fits(x, v)' /\ pointer'[v.email] = x
  <2>1. PICK w : w = users[x]
    OBVIOUS
  <2>2. Fits(x, w) /\ pointer[w.email] = x
    BY <1>1, <2>1 DEF TablesInv, UsersInv
  <2>3. Fits(x, w)'
    BY <1>1, <1>3, <2>2, FitsGrows
  <2>4. CASE x = id
    BY <1>1, <1>2, <1>5, <2>1, <2>2, <2>3, <2>4 DEF Fits
  <2>5. CASE x # id
    BY <1>1, <1>2, <1>5, <2>1, <2>2, <2>3, <2>5
  <2> QED BY <2>4, <2>5
<1>6. UsersInv'
  BY <1>5 DEF UsersInv, Fits, Keyed
<1> QED BY <1>1, <1>3, <1>4, <1>6 DEF TablesInv

LEMMA UserAdded ==
    ASSUME A!AccountsConstants, TablesInv, NEW u, NEW invited \in BOOLEAN, A!Create(u, invited),
           u \in User, u.pwd \in {None, 0}, u.pwd = None => u.disabled,
           UNCHANGED <<sessions, cookies>>
    PROVE  TablesInv' /\ Grown
<1> DEFINE n == Len(users) + 1
<1>1. n \in Nat /\ n # None /\ DOMAIN users = 1 .. n - 1 /\ n \notin DOMAIN users
  BY DEF TablesInv, TablesTyped, A!AccountsConstants
<1>2. /\ users' \in Seq(User) /\ DOMAIN users' = DOMAIN users \cup {n}
      /\ \A x \in DOMAIN users : users'[x] = users[x]
      /\ users'[n] = u
  BY DEF TablesInv, TablesTyped, A!Create
<1>3. /\ invitations' \in Seq(Invitation) /\ DOMAIN invitations \subseteq DOMAIN invitations'
      /\ \A t \in DOMAIN invitations : invitations'[t] = invitations[t]
      /\ \A t \in DOMAIN invitations' \ DOMAIN invitations : invitations'[t].user = n
  <2>1. \/ invitations' = invitations
        \/ invitations' = Append(invitations, A!NewInvitation(n))
    BY DEF A!Create
  <2> HIDE DEF n
  <2>2. A!NewInvitation(n) \in Invitation /\ A!NewInvitation(n).user = n
    BY <1>1 DEF A!NewInvitation, Invitation
  <2>3. PICK i \in Invitation : i = A!NewInvitation(n) /\ i.user = n
    BY <2>2
  <2>4. invitations \in Seq(Invitation)
    BY DEF TablesInv, TablesTyped
  <2>5. CASE invitations' = Append(invitations, i)
    <3>1. /\ invitations' \in Seq(Invitation) /\ DOMAIN invitations = 1 .. Len(invitations)
          /\ DOMAIN invitations' = 1 .. Len(invitations) + 1 /\ Len(invitations) \in Nat
      BY <2>4, <2>5
    <3>2. \A t \in DOMAIN invitations : invitations'[t] = invitations[t]
      BY <2>4, <2>5
    <3>3. invitations'[Len(invitations) + 1] = i
      BY <2>4, <2>5
    <3> QED BY <2>3, <3>1, <3>2, <3>3
  <2> QED BY <2>1, <2>3, <2>4, <2>5
<1>4. pointer' = [pointer EXCEPT ![u.email] = n] /\ pointer[u.email] = None /\ u.email \in Emails
  BY DEF A!Create, User
<1> HIDE DEF n
<1>5. TablesTyped'
  BY <1>1, <1>2, <1>3, <1>4 DEF TablesInv, TablesTyped
<1>6. Grown
  BY <1>2, <1>3 DEF Grown, InvitationsGrow
<1>7. RefsInv'
  <2>1. \A e \in Emails : pointer'[e] \in {None} \cup DOMAIN users'
    BY <1>2, <1>4 DEF TablesInv, TablesTyped, RefsInv
  <2>2. \A t \in DOMAIN invitations' : invitations'[t].user \in DOMAIN users'
    BY <1>2, <1>3 DEF TablesInv, RefsInv
  <2>3. \A s \in DOMAIN sessions :
            sessions[s].user \in DOMAIN users' /\ sessions[s].by \in {None} \cup DOMAIN users'
    BY <1>2 DEF TablesInv, RefsInv
  <2> QED BY <2>1, <2>2, <2>3 DEF RefsInv
<1>8. ASSUME NEW x \in DOMAIN users', NEW v, v = users'[x]
      PROVE  Fits(x, v)' /\ pointer'[v.email] = x
  <2>1. CASE x = n
    <3>1. u.pwd \notin DOMAIN invitations'
      BY <1>3 DEF A!AccountsConstants
    <3>2. Fits(x, u)'
      BY <1>2, <2>1, <3>1 DEF Fits, Keyed
    <3> QED BY <1>2, <1>4, <1>8, <2>1, <3>2 DEF TablesInv, TablesTyped
  <2>2. CASE x \in DOMAIN users
    <3>1. v = users[x]
      BY <1>2, <1>8, <2>2
    <3>2. Fits(x, v) /\ pointer[v.email] = x /\ v.email \in Emails
      BY <2>2, <3>1 DEF TablesInv, UsersInv, Fits, User
    <3>3. v.email # u.email
      BY <1>1, <1>4, <2>2, <3>2 DEF TablesInv, TablesTyped, A!AccountsConstants
    <3>4. Fits(x, v)'
      BY <1>5, <1>6, <3>2, FitsGrows
    <3> QED BY <1>4, <3>2, <3>3, <3>4 DEF TablesInv, TablesTyped
  <2> QED BY <1>2, <2>1, <2>2
<1>9. UsersInv'
  BY <1>8 DEF UsersInv, Fits, Keyed
<1> QED BY <1>5, <1>6, <1>7, <1>9 DEF TablesInv

\* Sessions only, or cookies.
LEMMA SessionsMoved ==
    ASSUME A!AccountsConstants, TablesInv, UNCHANGED <<users, pointer, invitations>>,
           sessions' \in Seq(Session), DOMAIN sessions \subseteq DOMAIN sessions',
           \A s \in DOMAIN sessions' :
               sessions'[s].user \in DOMAIN users /\ sessions'[s].by \in {None} \cup DOMAIN users,
           cookies' \subseteq DOMAIN sessions'
    PROVE  TablesInv' /\ Grown
<1>1. TablesTyped'
  BY DEF TablesInv, TablesTyped
<1>2. Grown
  BY DEF Grown, InvitationsGrow
<1>3. RefsInv'
  BY DEF TablesInv, RefsInv
<1>4. UsersInv'
  BY DEF TablesInv, UsersInv, Fits, Keyed
<1> QED BY <1>1, <1>2, <1>3, <1>4 DEF TablesInv

LEMMA SessionSet ==
    ASSUME A!AccountsConstants, TablesInv, UNCHANGED <<users, pointer, invitations, cookies>>,
           NEW s \in DOMAIN sessions, NEW x \in Session, x.user = sessions[s].user, x.by = sessions[s].by,
           sessions' = [sessions EXCEPT ![s] = x]
    PROVE  TablesInv' /\ Grown
<1>1. sessions' \in Seq(Session) /\ DOMAIN sessions' = DOMAIN sessions
  BY DEF TablesInv, TablesTyped
<1>2. \A k \in DOMAIN sessions : sessions'[k].user = sessions[k].user /\ sessions'[k].by = sessions[k].by
  BY DEF TablesInv, TablesTyped
<1>3. \A k \in DOMAIN sessions' :
          sessions'[k].user \in DOMAIN users /\ sessions'[k].by \in {None} \cup DOMAIN users
  BY <1>1, <1>2 DEF TablesInv, RefsInv
<1> QED BY <1>1, <1>3, SessionsMoved DEF TablesInv, TablesTyped

-----------------------------------------------------------------------------
(* What a handler holds *)

\* A change of one's own, or of a colleague whom the owners that remain were counted for.
Revised(j) ==
    /\ Fits(j.id, j.after)
    /\ \/ j.kind = "profile" /\ j.after = j.copy
       \/ j.kind = "password" /\ j.after = [j.copy EXCEPT !.pwd = 0]
       \/ j.kind = "update" /\ j.after.pwd = j.copy.pwd
    /\ j.pc = "save" /\ A!LosesOwner(j.copy, j.after) => j.others # {} /\ j.id \notin j.others

Slots == {"pc", "kind", "session", "id", "email", "role", "copy", "after", "others", "invitation", "by", "out"}

RequestOK(j) ==
    /\ DOMAIN j = Slots
    /\ j.pc = "create" => j.email \in Emails /\ j.role \in A!Roles /\ j.session \in DOMAIN sessions
    /\ j.pc \in {"reinvite", "accept", "session", "stamp", "promote", "count", "save"} => Fits(j.id, j.copy)
    /\ j.pc \in {"reinvite", "promote"} => \E role \in A!Roles : j.after = [j.copy EXCEPT !.role = role]
    /\ j.pc \in {"account", "accept"} =>
          j.invitation \in DOMAIN invitations /\ invitations[j.invitation].user = j.id
    /\ j.pc \in {"account", "accept"} => j.kind = None /\ j.by = None /\ j.role = None
    /\ j.pc = "accept" => j.after = A!Chosen(j.copy, j.invitation)
    /\ j.pc = "session" =>
          j.by \in {None} \cup DOMAIN users /\ (j.kind = "end" => j.session \in DOMAIN sessions)
    /\ j.pc \in {"session", "stamp"} => j.role \in A!Roles \cup {None}
    /\ j.pc \in {"promote", "promoteSession"} => j.role \in A!Roles
    /\ j.pc \in {"stamp", "promote", "promoteSession", "answer", "leave"} => j.out \in DOMAIN sessions
    /\ j.pc = "leave" => j.session \in DOMAIN sessions
    /\ j.pc \in {"count", "save"} => Revised(j)

RequestsInv == DOMAIN desk = Desks /\ \A h \in Desks : RequestOK(desk[h])

LEMMA RevisedGrows ==
    ASSUME A!AccountsConstants, TablesTyped', Grown, NEW j, Revised(j)
    PROVE  Revised(j)'
BY FitsGrows DEF Revised

LEMMA RequestGrows ==
    ASSUME A!AccountsConstants, TablesTyped', Grown, NEW j, RequestOK(j)
    PROVE  RequestOK(j)'
<1>1. ASSUME j.pc \in {"reinvite", "accept", "session", "stamp", "promote", "count", "save"}
      PROVE  Fits(j.id, j.copy)'
  BY <1>1, FitsGrows DEF RequestOK
<1>2. ASSUME j.pc \in {"count", "save"}
      PROVE  Revised(j)'
  BY <1>2, RevisedGrows DEF RequestOK
<1>3. ASSUME j.pc \in {"account", "accept"}
      PROVE  j.invitation \in DOMAIN invitations' /\ invitations'[j.invitation].user = j.id
  BY <1>3 DEF RequestOK, Grown, InvitationsGrow
<1>4. DOMAIN users \subseteq DOMAIN users' /\ DOMAIN sessions \subseteq DOMAIN sessions'
  BY DEF Grown
<1> QED BY <1>1, <1>2, <1>3, <1>4 DEF RequestOK

\* One handler goes on, the tables grow: the other requests stay as they were.
LEMMA GoesOn ==
    ASSUME A!AccountsConstants, RequestsInv, TablesInv', Grown, NEW h \in Desks, NEW j, A!Goto(h, j), RequestOK(j)'
    PROVE  RequestsInv'
<1>1. DOMAIN desk' = Desks /\ \A g \in Desks : desk'[g] = IF g = h THEN j ELSE desk[g]
  BY DEF RequestsInv, A!Goto
<1>2. ASSUME NEW g \in Desks, NEW k, k = desk'[g] PROVE RequestOK(k)'
  <2>1. CASE g = h
    BY <1>1, <1>2, <2>1
  <2>2. CASE g # h
    <3>1. k = desk[g] /\ RequestOK(k)
      BY <1>1, <1>2, <2>2 DEF RequestsInv
    <3> QED BY <3>1, RequestGrows DEF TablesInv
  <2> QED BY <2>1, <2>2
<1> QED BY <1>1, <1>2 DEF RequestsInv, RequestOK

LEMMA NobodyMoves ==
    ASSUME A!AccountsConstants, RequestsInv, TablesInv', Grown, UNCHANGED desk
    PROVE  RequestsInv'
<1>1. ASSUME NEW g \in Desks, NEW k, k = desk'[g] PROVE RequestOK(k)'
  <2>1. k = desk[g] /\ RequestOK(k)
    BY <1>1 DEF RequestsInv
  <2> QED BY <2>1, RequestGrows DEF TablesInv
<1> QED BY <1>1 DEF RequestsInv, RequestOK

LEMMA IdleOK == RequestOK(A!Idle) /\ RequestOK(A!Idle)'
BY DEF RequestOK, Slots, A!Idle

\* A handler that only reads.
LEMMA Reads ==
    ASSUME A!AccountsConstants, TablesInv, RequestsInv, UNCHANGED A!tables,
           NEW h \in Desks, NEW j, A!Goto(h, j), RequestOK(j)
    PROVE  TablesInv' /\ RequestsInv'
<1>1. TablesInv' /\ Grown
  BY TablesKept
<1>2. RequestOK(j)'
  BY <1>1, RequestGrows DEF TablesInv
<1> QED BY <1>1, <1>2, GoesOn

\* What a session leads to.
LEMMA SelfFits ==
    ASSUME TablesInv, NEW s \in DOMAIN sessions
    PROVE  /\ sessions[s].user \in DOMAIN users /\ Fits(sessions[s].user, A!Self(s))
           /\ sessions[s].by # None => Fits(sessions[s].by, users[sessions[s].by])
BY DEF TablesInv, RefsInv, UsersInv, A!Self

-----------------------------------------------------------------------------
(* The requests *)

LEMMA OpeningSteps ==
    ASSUME A!AccountsConstants, TablesInv, RequestsInv, NEW h \in Desks, A!HandleRegister(h) \/ A!HandleOpenOrg(h)
    PROVE  TablesInv' /\ RequestsInv'
<1>1. PICK org \in Orgs, e \in Emails :
          \/ A!Register(h, org, e)
          \/ \E s \in cookies : A!OpenOrg(h, s, org, e)
  BY DEF A!HandleRegister, A!HandleOpenOrg
<1>2. UNCHANGED <<sessions, cookies, desk>>
  BY <1>1 DEF A!Register, A!OpenOrg
<1>3. PICK pwd \in {0, None}, invited \in BOOLEAN : A!Create(A!NewUser(org, e, "owner", pwd), invited)
  BY <1>1 DEF A!Register, A!OpenOrg
<1>4. PICK u \in User : u = A!NewUser(org, e, "owner", pwd) /\ u.pwd \in {None, 0} /\ (u.pwd = None => u.disabled)
  <2>1. PICK d \in BOOLEAN : d = (pwd = None)
    OBVIOUS
  <2>2. A!NewUser(org, e, "owner", pwd) = [org |-> org, email |-> e, role |-> "owner", disabled |-> d, pwd |-> pwd]
    BY <2>1 DEF A!NewUser
  <2>3. [org |-> org, email |-> e, role |-> "owner", disabled |-> d, pwd |-> pwd] \in User
    BY DEF User, A!Roles
  <2> QED BY <2>1, <2>2, <2>3
<1>5. TablesInv' /\ Grown
  BY <1>2, <1>3, <1>4, UserAdded
<1> QED BY <1>2, <1>5, NobodyMoves

LEMMA InviteSteps ==
    ASSUME A!AccountsConstants, TablesInv, RequestsInv, NEW h \in Desks,
           A!HandleInviteTeamMember(h) \/ A!HandleInviteLearner(h)
    PROVE  TablesInv' /\ RequestsInv'
<1>1. PICK s \in cookies, e \in Emails, role \in A!Roles : A!ReadInvite(h, s, e, role)
  BY DEF A!HandleInviteTeamMember, A!HandleInviteLearner, A!AccountsConstants, A!TeamRoles, A!Roles
<1>2. UNCHANGED A!tables /\ s \in DOMAIN sessions
  BY <1>1 DEF A!ReadInvite, TablesInv, TablesTyped
<1>3. CASE A!Goto(h, [A!Idle EXCEPT !.pc = "create", !.email = e, !.role = role, !.session = s])
  <2>1. RequestOK([A!Idle EXCEPT !.pc = "create", !.email = e, !.role = role, !.session = s])
    BY <1>2 DEF RequestOK, Slots, A!Idle
  <2> QED BY <1>2, <1>3, <2>1, Reads
<1>4. CASE /\ pointer[e] # None
           /\ A!Goto(h, [A!Idle EXCEPT !.pc = "reinvite", !.id = pointer[e],
                                       !.after = [users[pointer[e]] EXCEPT !.role = role],
                                       !.copy = users[pointer[e]]])
  <2>1. PICK id \in DOMAIN users, u \in User : id = pointer[e] /\ u = users[id] /\ Fits(id, u)
    BY <1>4 DEF TablesInv, RefsInv, UsersInv, Fits
  <2>2. RequestOK([A!Idle EXCEPT !.pc = "reinvite", !.id = id, !.after = [u EXCEPT !.role = role], !.copy = u])
    BY <2>1 DEF RequestOK, Slots, A!Idle
  <2> QED BY <1>2, <1>4, <2>1, <2>2, Reads
<1> QED BY <1>1, <1>3, <1>4 DEF A!ReadInvite

LEMMA AcceptReads ==
    ASSUME A!AccountsConstants, TablesInv, RequestsInv, NEW h \in Desks,
           A!HandleInvitationAccept(h) \/ A!ReadAccount(h)
    PROVE  TablesInv' /\ RequestsInv'
<1>1. ASSUME NEW t \in DOMAIN invitations, A!ReadInvitation(h, t) PROVE TablesInv' /\ RequestsInv'
  <2>1. RequestOK([A!Idle EXCEPT !.pc = "account", !.invitation = t, !.id = invitations[t].user])
    BY DEF RequestOK, Slots, A!Idle
  <2> QED BY <1>1, <2>1, Reads DEF A!ReadInvitation
<1>2. CASE A!ReadAccount(h)
  <2>1. RequestOK(desk[h]) /\ desk[h].pc = "account"
    BY <1>2 DEF RequestsInv, A!ReadAccount
  <2>2. PICK id \in DOMAIN users, u \in User : id = desk[h].id /\ u = users[id] /\ Fits(id, u)
    BY <2>1 DEF RequestOK, TablesInv, RefsInv, UsersInv, Fits
  <2>3. RequestOK([desk[h] EXCEPT !.pc = "accept", !.copy = u, !.after = A!Chosen(u, desk[h].invitation)])
    BY <2>1, <2>2 DEF RequestOK, Slots
  <2> QED BY <1>2, <2>2, <2>3, Reads DEF A!ReadAccount
<1> QED BY <1>1, <1>2 DEF A!HandleInvitationAccept

LEMMA AcceptStep ==
    ASSUME A!AccountsConstants, TablesInv, RequestsInv, NEW h \in Desks, A!Accept(h)
    PROVE  TablesInv' /\ RequestsInv'
<1>1. RequestOK(desk[h]) /\ desk[h].pc = "accept"
  BY DEF RequestsInv, A!Accept
<1>2. PICK id \in DOMAIN users, c \in User, t \in DOMAIN invitations :
          /\ id = desk[h].id /\ c = desk[h].copy /\ Fits(id, c)
          /\ t = desk[h].invitation /\ invitations[t].user = id
  BY <1>1 DEF RequestOK, Fits
<1>3. t \in Nat /\ t # 0 /\ t # None
  BY DEF TablesInv, TablesTyped, A!AccountsConstants
<1>4. PICK u \in User : /\ u = desk[h].after /\ u.email = c.email /\ u.org = c.org
                        /\ u.pwd = t /\ ~ u.disabled
  <2>1. desk[h].after = A!Chosen(c, t)
    BY <1>1, <1>2 DEF RequestOK
  <2>2. A!Chosen(c, t) \in User
    BY <1>3 DEF A!Chosen, User
  <2> QED BY <2>1, <2>2 DEF A!Chosen, User
<1>5. /\ invitations' \in Seq(Invitation) /\ DOMAIN invitations' = DOMAIN invitations
      /\ \A x \in DOMAIN invitations : /\ invitations'[x].user = invitations[x].user
                                       /\ invitations[x].used => invitations'[x].used
      /\ invitations'[t].used
  <2>1. invitations' = [invitations EXCEPT ![t].used = TRUE]
    BY <1>2 DEF A!Accept
  <2>2. PICK i : i = [invitations[t] EXCEPT !.used = TRUE]
    OBVIOUS
  <2>3. invitations \in Seq(Invitation) /\ invitations[t] \in Invitation
    BY DEF TablesInv, TablesTyped
  <2>4. i \in Invitation /\ i.user = invitations[t].user /\ i.used
    BY <2>2, <2>3 DEF Invitation
  <2>5. invitations' = [invitations EXCEPT ![t] = i]
    BY <2>1, <2>2
  <2> QED BY <2>3, <2>4, <2>5
<1>6. Keyed(id, u)'
  BY <1>2, <1>4, <1>5, <1>3 DEF Keyed
<1>7. TablesInv' /\ Grown
  <2>1. users' = [users EXCEPT ![id] = u] /\ UNCHANGED <<pointer, sessions, cookies>>
    BY <1>2, <1>4 DEF A!Accept
  <2>2. InvitationsGrow
    BY <1>5 DEF InvitationsGrow
  <2>3. u.email = users[id].email /\ u.org = users[id].org
    BY <1>2, <1>4 DEF Fits
  <2>4. \A x \in DOMAIN invitations' : invitations'[x].user \in DOMAIN users
    BY <1>5 DEF TablesInv, RefsInv
  <2> QED BY <1>5, <1>6, <2>1, <2>2, <2>3, <2>4, UserPut
<1>8. PICK j : j = [desk[h] EXCEPT !.pc = "session", !.copy = u]
  OBVIOUS
<1>9. RequestOK(j)'
  <2>1. Fits(id, u)'
    BY <1>2, <1>4, <1>6, <1>7 DEF Fits, Grown
  <2>2. /\ DOMAIN j = Slots /\ j.pc = "session" /\ j.copy = u /\ j.id = id
        /\ j.kind = None /\ j.by = None /\ j.role = None
    BY <1>1, <1>2, <1>8 DEF RequestOK, Slots
  <2>3. j.kind # "end"
    BY <2>2 DEF A!AccountsConstants, A!Kinds
  <2> QED BY <2>1, <2>2, <2>3 DEF RequestOK
<1>10. A!Goto(h, j)
  BY <1>4, <1>8 DEF A!Accept
<1> QED BY <1>7, <1>9, <1>10, GoesOn

LEMMA CreateStep ==
    ASSUME A!AccountsConstants, TablesInv, RequestsInv, NEW h \in Desks, A!CreateInvited(h)
    PROVE  TablesInv' /\ RequestsInv'
<1>1. UNCHANGED <<sessions, cookies>> /\ A!Goto(h, A!Idle)
  BY DEF A!CreateInvited
<1>2. CASE UNCHANGED <<users, pointer, invitations>>
  BY <1>1, <1>2, IdleOK, Reads DEF A!tables
<1>3. CASE A!Create(A!NewUser(A!Self(desk[h].session).org, desk[h].email, desk[h].role, None), TRUE)
  <2>1. RequestOK(desk[h]) /\ desk[h].pc = "create"
    BY DEF RequestsInv, A!CreateInvited
  <2>2. PICK e \in Emails, role \in A!Roles : e = desk[h].email /\ role = desk[h].role
    BY <2>1 DEF RequestOK
  <2>3. PICK org \in Orgs : org = A!Self(desk[h].session).org
    BY <2>1, SelfFits DEF RequestOK, Fits, User
  <2>4. A!NewUser(org, e, role, None) = [org |-> org, email |-> e, role |-> role, disabled |-> TRUE, pwd |-> None]
    BY DEF A!NewUser
  <2>5. PICK u : u = [org |-> org, email |-> e, role |-> role, disabled |-> TRUE, pwd |-> None]
    OBVIOUS
  <2>6. A!Create(u, TRUE)
    BY <1>3, <2>2, <2>3, <2>4, <2>5
  <2>7. TablesInv' /\ Grown
    <3>1. u \in User /\ u.pwd = None /\ u.disabled
      BY <2>5 DEF User
    <3> QED BY <1>1, <2>6, <3>1, UserAdded
  <2> QED BY <1>1, <2>7, IdleOK, GoesOn
<1> QED BY <1>2, <1>3 DEF A!CreateInvited

LEMMA RoleFits ==
    ASSUME NEW id, NEW c, Fits(id, c), NEW role \in A!Roles
    PROVE  Fits(id, [c EXCEPT !.role = role])
BY DEF Fits, User, Keyed

LEMMA ReinviteStep ==
    ASSUME A!AccountsConstants, TablesInv, RequestsInv, NEW h \in Desks, A!Reinvite(h)
    PROVE  TablesInv' /\ RequestsInv'
<1>1. RequestOK(desk[h]) /\ desk[h].pc = "reinvite"
  BY DEF RequestsInv, A!Reinvite
<1>2. PICK id \in DOMAIN users, c \in User, role \in A!Roles :
          id = desk[h].id /\ c = desk[h].copy /\ Fits(id, c) /\ desk[h].after = [c EXCEPT !.role = role]
  BY <1>1 DEF RequestOK, Fits
<1>3. PICK u \in User : /\ Fits(id, u)
                        /\ users' = [users EXCEPT ![id] = u]
  <2>1. CASE c.role = "learner"
    <3>1. users' = users /\ users = [users EXCEPT ![id] = users[id]]
      BY <1>2, <2>1 DEF A!Reinvite, TablesInv, TablesTyped
    <3>2. Fits(id, users[id]) /\ users[id] \in User
      BY DEF TablesInv, UsersInv, Fits
    <3> QED BY <3>1, <3>2
  <2>2. CASE c.role # "learner"
    <3>1. Fits(id, [c EXCEPT !.role = role]) /\ [c EXCEPT !.role = role] \in User
      BY <1>2, RoleFits DEF Fits
    <3> QED BY <1>2, <2>2, <3>1 DEF A!Reinvite
  <2> QED BY <2>1, <2>2
<1>4. PICK i \in Invitation : i = A!NewInvitation(id) /\ i.user = id
  <2>1. id \in Nat
    BY DEF TablesInv, TablesTyped
  <2>2. A!NewInvitation(id) \in Invitation /\ A!NewInvitation(id).user = id
    BY <2>1 DEF A!NewInvitation, Invitation
  <2> QED BY <2>2
<1>5. /\ invitations' \in Seq(Invitation) /\ DOMAIN invitations \subseteq DOMAIN invitations'
      /\ \A t \in DOMAIN invitations : invitations'[t] = invitations[t]
      /\ \A t \in DOMAIN invitations' \ DOMAIN invitations : invitations'[t].user = id
  <2>1. invitations \in Seq(Invitation) /\ invitations' = Append(invitations, i)
    BY <1>2, <1>4 DEF A!Reinvite, TablesInv, TablesTyped
  <2>2. /\ invitations' \in Seq(Invitation) /\ DOMAIN invitations = 1 .. Len(invitations)
        /\ DOMAIN invitations' = 1 .. Len(invitations) + 1 /\ Len(invitations) \in Nat
    BY <2>1
  <2>3. \A t \in DOMAIN invitations : invitations'[t] = invitations[t]
    BY <2>1
  <2>4. invitations'[Len(invitations) + 1] = i
    BY <2>1
  <2> QED BY <1>4, <2>2, <2>3, <2>4
<1>6. InvitationsGrow
  BY <1>5 DEF InvitationsGrow
<1>7. Keyed(id, u)'
  BY <1>3, <1>5, <1>6, KeyedGrows DEF Fits
<1>8. TablesInv' /\ Grown
  <2>1. \A t \in DOMAIN invitations' : invitations'[t].user \in DOMAIN users
    BY <1>5 DEF TablesInv, RefsInv
  <2>2. UNCHANGED <<pointer, sessions, cookies>>
    BY DEF A!Reinvite
  <2> QED BY <1>3, <1>5, <1>6, <1>7, <2>1, <2>2, UserPut DEF Fits
<1> QED BY <1>8, IdleOK, GoesOn DEF A!Reinvite

LEMMA Saved ==
    ASSUME A!AccountsConstants, TablesInv, RequestsInv, NEW id, NEW u, Fits(id, u),
           users' = [users EXCEPT ![id] = u], UNCHANGED <<pointer, invitations, sessions, cookies>>,
           NEW h \in Desks, NEW j, A!Goto(h, j), RequestOK(j)
    PROVE  TablesInv' /\ RequestsInv'
<1>1. InvitationsGrow /\ invitations' \in Seq(Invitation)
  BY DEF InvitationsGrow, TablesInv, TablesTyped
<1>2. Keyed(id, u)'
  BY <1>1, KeyedGrows DEF Fits
<1>3. TablesInv' /\ Grown
  <2>1. \A t \in DOMAIN invitations' : invitations'[t].user \in DOMAIN users
    BY DEF TablesInv, RefsInv
  <2> QED BY <1>1, <1>2, <2>1, UserPut DEF Fits
<1>4. RequestOK(j)'
  BY <1>3, RequestGrows DEF TablesInv
<1> QED BY <1>3, <1>4, GoesOn

LEMMA SaveSteps ==
    ASSUME A!AccountsConstants, TablesInv, RequestsInv, NEW h \in Desks,
           A!Stamp(h) \/ A!Promote(h) \/ A!Save(h)
    PROVE  TablesInv' /\ RequestsInv'
<1>1. RequestOK(desk[h]) /\ UNCHANGED <<pointer, invitations, sessions, cookies>>
  BY DEF RequestsInv, A!Stamp, A!Promote, A!Save
<1>2. CASE A!Stamp(h)
  <2>1. PICK c \in User : c = desk[h].copy /\ Fits(desk[h].id, c)
    BY <1>1, <1>2 DEF RequestOK, Fits, A!Stamp
  <2>2. CASE desk[h].role = None
    <3>1. A!Goto(h, [desk[h] EXCEPT !.pc = "answer", !.after = desk[h].after])
      BY <1>2, <2>2 DEF A!Stamp
    <3>2. RequestOK([desk[h] EXCEPT !.pc = "answer", !.after = desk[h].after])
      BY <1>1, <1>2 DEF RequestOK, Slots, A!Stamp
    <3> QED BY <1>1, <1>2, <2>1, <3>1, <3>2, Saved DEF A!Stamp
  <2>3. CASE desk[h].role # None
    <3>1. PICK role \in A!Roles : role = desk[h].role
      BY <1>1, <1>2, <2>3 DEF RequestOK, A!Stamp
    <3>2. PICK u : u = [c EXCEPT !.role = role]
      OBVIOUS
    <3>3. A!Goto(h, [desk[h] EXCEPT !.pc = "promote", !.after = u])
      BY <1>2, <2>1, <2>3, <3>1, <3>2 DEF A!Stamp
    <3>4. RequestOK([desk[h] EXCEPT !.pc = "promote", !.after = u])
      BY <1>1, <1>2, <2>1, <3>1, <3>2 DEF RequestOK, Slots, A!Stamp
    <3> QED BY <1>1, <1>2, <2>1, <3>3, <3>4, Saved DEF A!Stamp
  <2> QED BY <2>2, <2>3
<1>3. CASE A!Promote(h)
  <2>1. PICK role \in A!Roles, c \in User :
            Fits(desk[h].id, c) /\ desk[h].after = [c EXCEPT !.role = role]
    BY <1>1, <1>3 DEF RequestOK, Fits, A!Promote
  <2>2. Fits(desk[h].id, desk[h].after)
    BY <2>1, RoleFits
  <2>3. RequestOK([desk[h] EXCEPT !.pc = "promoteSession"])
    BY <1>1, <1>3 DEF RequestOK, Slots, A!Promote
  <2> QED BY <1>1, <1>3, <2>2, <2>3, Saved DEF A!Promote
<1>4. CASE A!Save(h)
  <2>1. Fits(desk[h].id, desk[h].after)
    BY <1>1, <1>4 DEF RequestOK, Revised, A!Save
  <2> QED BY <1>1, <1>4, <2>1, IdleOK, Saved DEF A!Save
<1> QED BY <1>2, <1>3, <1>4

LEMMA SessionSteps ==
    ASSUME A!AccountsConstants, TablesInv, RequestsInv, NEW h \in Desks,
           A!OpenSession(h) \/ A!PromoteSession(h) \/ A!Leave(h) \/ A!Answer(h)
    PROVE  TablesInv' /\ RequestsInv'
<1>1. RequestOK(desk[h]) /\ UNCHANGED <<users, pointer, invitations>>
  BY DEF RequestsInv, A!OpenSession, A!PromoteSession, A!Leave, A!Answer
<1>2. sessions \in Seq(Session) /\ cookies \subseteq DOMAIN sessions
  BY DEF TablesInv, TablesTyped
<1>3. CASE A!OpenSession(h)
  <2>1. PICK id \in DOMAIN users, c \in User, by \in {None} \cup DOMAIN users :
            id = desk[h].id /\ c = desk[h].copy /\ by = desk[h].by
    BY <1>1, <1>3 DEF RequestOK, Fits, A!OpenSession
  <2>2. PICK x : x = A!NewSession(id, c.role, by)
    OBVIOUS
  <2>3. x \in Session /\ x.user = id /\ x.by = by
    <3>1. DOMAIN users \subseteq Nat /\ c.role \in A!Roles
      BY DEF TablesInv, TablesTyped, User
    <3> QED BY <2>2, <3>1 DEF A!NewSession, Session
  <2>4. sessions' = Append(sessions, x)
    BY <1>3, <2>1, <2>2 DEF A!OpenSession
  <2>5. /\ sessions' \in Seq(Session) /\ DOMAIN sessions \subseteq DOMAIN sessions'
        /\ Len(sessions) + 1 \in DOMAIN sessions'
        /\ \A s \in DOMAIN sessions' : sessions'[s] = x \/ (s \in DOMAIN sessions /\ sessions'[s] = sessions[s])
    BY <1>2, <2>3, <2>4
  <2>6. TablesInv' /\ Grown
    <3>1. \A s \in DOMAIN sessions' :
              sessions'[s].user \in DOMAIN users /\ sessions'[s].by \in {None} \cup DOMAIN users
      BY <2>3, <2>5 DEF TablesInv, RefsInv
    <3>2. cookies' \subseteq DOMAIN sessions'
      BY <1>2, <1>3, <2>5 DEF A!OpenSession
    <3> QED BY <1>1, <2>5, <3>1, <3>2, SessionsMoved
  <2>7. PICK out \in DOMAIN sessions', pc \in {"stamp", "leave", "answer"} :
            /\ A!Goto(h, [desk[h] EXCEPT !.out = out, !.pc = pc])
            /\ pc = "leave" => desk[h].kind = "end"
    BY <1>3, <2>5 DEF A!OpenSession
  <2>8. PICK k, j : k = desk[h] /\ j = [k EXCEPT !.out = out, !.pc = pc]
    OBVIOUS
  <2>9. RequestOK(j)'
    <3>1. RequestOK(k)' /\ k.pc = "session"
      BY <1>1, <1>3, <2>6, <2>8, RequestGrows DEF TablesInv, A!OpenSession
    <3>2. /\ DOMAIN j = Slots /\ j.pc = pc /\ j.out = out /\ j.id = k.id /\ j.copy = k.copy
          /\ j.role = k.role /\ j.session = k.session
      BY <2>8, <3>1 DEF RequestOK, Slots
    <3>3. pc = "leave" => k.session \in DOMAIN sessions'
      BY <2>7, <2>8, <3>1 DEF RequestOK
    <3> QED BY <3>1, <3>2, <3>3 DEF RequestOK
  <2> QED BY <2>6, <2>7, <2>8, <2>9, GoesOn
<1>4. CASE A!PromoteSession(h)
  <2>1. PICK s \in DOMAIN sessions, role \in A!Roles : s = desk[h].out /\ role = desk[h].role
    BY <1>1, <1>4 DEF RequestOK, A!PromoteSession
  <2>2. PICK x : x = [sessions[s] EXCEPT !.role = role]
    OBVIOUS
  <2>3. sessions[s] \in Session
    BY <1>2
  <2>4. x \in Session /\ x.user = sessions[s].user /\ x.by = sessions[s].by
    BY <2>2, <2>3 DEF Session
  <2>5. sessions' = [sessions EXCEPT ![s] = x]
    BY <1>4, <2>1, <2>2 DEF A!PromoteSession
  <2>6. TablesInv' /\ Grown
    BY <1>1, <1>4, <2>4, <2>5, SessionSet DEF A!PromoteSession
  <2>7. PICK j : j = [desk[h] EXCEPT !.pc = "answer"]
    OBVIOUS
  <2>8. RequestOK(j)
    BY <1>1, <1>4, <2>7 DEF RequestOK, Slots, A!PromoteSession
  <2> QED BY <1>4, <2>6, <2>7, <2>8, RequestGrows, GoesOn DEF A!PromoteSession, TablesInv
<1>5. CASE A!Leave(h)
  <2>1. PICK s \in DOMAIN sessions : s = desk[h].session
    BY <1>1, <1>5 DEF RequestOK, A!Leave
  <2>2. PICK x : x = [sessions[s] EXCEPT !.live = FALSE]
    OBVIOUS
  <2>3. sessions[s] \in Session
    BY <1>2
  <2>4. x \in Session /\ x.user = sessions[s].user /\ x.by = sessions[s].by
    BY <2>2, <2>3 DEF Session
  <2>5. sessions' = [sessions EXCEPT ![s] = x]
    BY <1>5, <2>1, <2>2 DEF A!Leave
  <2>6. TablesInv' /\ Grown
    BY <1>1, <1>5, <2>4, <2>5, SessionSet DEF A!Leave
  <2>7. PICK j : j = [desk[h] EXCEPT !.pc = "answer"]
    OBVIOUS
  <2>8. RequestOK(j)
    BY <1>1, <1>5, <2>7 DEF RequestOK, Slots, A!Leave
  <2> QED BY <1>5, <2>6, <2>7, <2>8, RequestGrows, GoesOn DEF A!Leave, TablesInv
<1>6. CASE A!Answer(h)
  <2>1. sessions' = sessions /\ cookies' \subseteq DOMAIN sessions
    BY <1>1, <1>2, <1>6 DEF RequestOK, A!Answer
  <2>2. TablesInv' /\ Grown
    <3>1. \A s \in DOMAIN sessions' :
              sessions'[s].user \in DOMAIN users /\ sessions'[s].by \in {None} \cup DOMAIN users
      BY <2>1 DEF TablesInv, RefsInv
    <3> QED BY <1>1, <1>2, <2>1, <3>1, SessionsMoved
  <2> QED BY <1>6, <2>2, IdleOK, GoesOn DEF A!Answer
<1> QED BY <1>3, <1>4, <1>5, <1>6

LEMMA LoginRead ==
    ASSUME A!AccountsConstants, TablesInv, RequestsInv, NEW h \in Desks, A!HandleLogin(h)
    PROVE  TablesInv' /\ RequestsInv'
<1>1. PICK e \in Emails : A!ReadLogin(h, e)
  BY DEF A!HandleLogin
<1>2. PICK id \in DOMAIN users, u \in User : id = pointer[e] /\ u = users[id] /\ Fits(id, u)
  BY <1>1 DEF A!ReadLogin, TablesInv, RefsInv, UsersInv, Fits
<1>3. PICK role \in A!Roles \cup {None} : role = A!RoleOfList(u)
  BY DEF A!RoleOfList, A!Roles
<1>4. A!Goto(h, [A!Idle EXCEPT !.pc = "session", !.kind = "login", !.id = id, !.copy = u, !.after = u, !.role = role])
  BY <1>1, <1>2, <1>3 DEF A!ReadLogin
<1>5. RequestOK([A!Idle EXCEPT !.pc = "session", !.kind = "login", !.id = id, !.copy = u, !.after = u, !.role = role])
  BY <1>2 DEF RequestOK, Slots, A!Idle
<1> QED BY <1>1, <1>4, <1>5, Reads DEF A!ReadLogin

LEMMA ImpersonationReads ==
    ASSUME A!AccountsConstants, TablesInv, RequestsInv, NEW h \in Desks,
           A!HandleImpersonate(h) \/ A!HandleEndImpersonation(h)
    PROVE  TablesInv' /\ RequestsInv'
<1>1. ASSUME NEW s \in cookies, NEW org \in Orgs, A!Impersonate(h, s, org) PROVE TablesInv' /\ RequestsInv'
  <2>1. PICK id \in A!FirstOwner(org) \cup A!OpenAccounts(org) :
            A!Goto(h, [A!Idle EXCEPT !.pc = "session", !.kind = "impersonate", !.id = id,
                                     !.copy = users[id], !.by = sessions[s].user])
    BY <1>1 DEF A!Impersonate
  <2>2. id \in DOMAIN users
    BY <2>1 DEF A!FirstOwner, A!OpenAccounts
  <2>3. PICK u, by : u = users[id] /\ by = sessions[s].user
    OBVIOUS
  <2>4. Fits(id, u) /\ by \in DOMAIN users
    BY <2>2, <2>3, SelfFits DEF TablesInv, TablesTyped, UsersInv
  <2>5. RequestOK([A!Idle EXCEPT !.pc = "session", !.kind = "impersonate", !.id = id, !.copy = u, !.by = by])
    BY <2>4 DEF RequestOK, Slots, A!Idle
  <2> QED BY <1>1, <2>1, <2>3, <2>5, Reads DEF A!Impersonate
<1>2. ASSUME NEW s \in cookies, A!EndImpersonation(h, s) PROVE TablesInv' /\ RequestsInv'
  <2>1. PICK id, u : id = sessions[s].by /\ u = users[id]
    OBVIOUS
  <2>2. A!Goto(h, [A!Idle EXCEPT !.pc = "session", !.kind = "end", !.session = s, !.id = id, !.copy = u])
    BY <1>2, <2>1 DEF A!EndImpersonation
  <2>3. Fits(id, u) /\ s \in DOMAIN sessions
    BY <1>2, <2>1, SelfFits DEF A!EndImpersonation, TablesInv, TablesTyped
  <2>4. RequestOK([A!Idle EXCEPT !.pc = "session", !.kind = "end", !.session = s, !.id = id, !.copy = u])
    BY <2>3 DEF RequestOK, Slots, A!Idle
  <2> QED BY <1>2, <2>2, <2>4, Reads DEF A!EndImpersonation
<1> QED BY <1>1, <1>2 DEF A!HandleImpersonate, A!HandleEndImpersonation

LEMMA ProfileRead ==
    ASSUME A!AccountsConstants, TablesInv, RequestsInv, NEW h \in Desks, A!HandleUpdateProfil(h)
    PROVE  TablesInv' /\ RequestsInv'
<1>1. PICK s \in cookies, kind \in {"profile", "password"} : A!ReadSelf(h, s, kind)
  BY DEF A!HandleUpdateProfil
<1>2. PICK id, u : id = sessions[s].user /\ u = A!Self(s)
  OBVIOUS
<1>3. Fits(id, u)
  BY <1>2, SelfFits DEF TablesInv, TablesTyped
<1>4. PICK after : after = IF kind = "profile" THEN u ELSE [u EXCEPT !.pwd = 0]
  OBVIOUS
<1>5. Fits(id, after) /\ ~ A!LosesOwner(u, after)
  <2>1. 0 \notin DOMAIN invitations
    BY DEF TablesInv, TablesTyped
  <2>2. u \in User
    BY <1>3 DEF Fits
  <2>3. 0 # None
    BY DEF A!AccountsConstants
  <2> QED BY <1>3, <1>4, <2>1, <2>2, <2>3 DEF Fits, User, Keyed, A!LosesOwner
<1>6. A!Goto(h, [A!Idle EXCEPT !.pc = "save", !.kind = kind, !.id = id, !.copy = u, !.after = after])
  BY <1>1, <1>2, <1>4 DEF A!ReadSelf
<1>7. RequestOK([A!Idle EXCEPT !.pc = "save", !.kind = kind, !.id = id, !.copy = u, !.after = after])
  BY <1>3, <1>4, <1>5 DEF RequestOK, Revised, Slots, A!Idle
<1> QED BY <1>1, <1>6, <1>7, Reads DEF A!ReadSelf

LEMMA UpdateRead ==
    ASSUME A!AccountsConstants, TablesInv, RequestsInv, NEW h \in Desks, A!HandleUpdateTeamMember(h)
    PROVE  TablesInv' /\ RequestsInv'
<1>1. PICK s \in cookies, id \in DOMAIN users, role \in AskedRoles \cup {None}, disabled \in BOOLEAN \cup {None} :
          A!ReadUpdate(h, s, id, role, disabled)
  BY DEF A!HandleUpdateTeamMember
<1>2. PICK u \in User : u = users[id] /\ Fits(id, u)
  BY DEF TablesInv, UsersInv, Fits
<1>3. PICK after : after = [u EXCEPT !.role = IF role = None THEN @ ELSE role,
                                     !.disabled = IF disabled = None THEN @ ELSE disabled]
  OBVIOUS
<1>4. Fits(id, after) /\ after.pwd = u.pwd
  <2>1. role # None => role \in A!Roles
    BY DEF A!AccountsConstants, A!TeamRoles, A!Roles
  <2>2. u.pwd = None => disabled \in {TRUE, None} \/ disabled = None
    BY <1>1, <1>2 DEF A!ReadUpdate
  <2>3. after = [org |-> u.org, email |-> u.email, role |-> IF role = None THEN u.role ELSE role,
                 disabled |-> IF disabled = None THEN u.disabled ELSE disabled, pwd |-> u.pwd]
    BY <1>3 DEF User
  <2>4. after \in User
    BY <2>1, <2>3 DEF User
  <2>5. after.pwd = None => after.disabled
    BY <1>2, <2>2, <2>3 DEF Fits, Keyed
  <2> QED BY <1>2, <2>3, <2>4, <2>5 DEF Fits, Keyed
<1>5. PICK pc \in {"count", "save"} :
          /\ pc = IF A!LosesOwner(u, after) THEN "count" ELSE "save"
          /\ A!Goto(h, [A!Idle EXCEPT !.pc = pc, !.kind = "update", !.id = id, !.copy = u, !.after = after])
  BY <1>1, <1>2, <1>3 DEF A!ReadUpdate
<1>6. RequestOK([A!Idle EXCEPT !.pc = pc, !.kind = "update", !.id = id, !.copy = u, !.after = after])
  BY <1>2, <1>4, <1>5 DEF RequestOK, Revised, Slots, A!Idle
<1> QED BY <1>1, <1>5, <1>6, Reads DEF A!ReadUpdate

LEMMA OtherSteps ==
    ASSUME A!AccountsConstants, TablesInv, RequestsInv, NEW h \in Desks,
           A!CountOwners(h) \/ A!PromoteFails(h) \/ A!GiveUp(h)
    PROVE  TablesInv' /\ RequestsInv'
<1>1. RequestOK(desk[h]) /\ UNCHANGED A!tables
  BY DEF RequestsInv, A!CountOwners, A!PromoteFails, A!GiveUp
<1>2. CASE A!Goto(h, A!Idle)
  BY <1>1, <1>2, IdleOK, Reads
<1>3. CASE A!PromoteFails(h)
  <2>1. RequestOK([desk[h] EXCEPT !.pc = "answer"])
    BY <1>1, <1>3 DEF RequestOK, Slots, A!PromoteFails
  <2> QED BY <1>1, <1>3, <2>1, Reads DEF A!PromoteFails
<1>4. CASE A!CountOwners(h) /\ ~ A!Goto(h, A!Idle)
  <2>1. PICK others : others # {} /\ desk[h].id \notin others
                      /\ A!Goto(h, [desk[h] EXCEPT !.pc = "save", !.others = others])
    BY <1>4 DEF A!CountOwners
  <2>2. RequestOK([desk[h] EXCEPT !.pc = "save", !.others = others])
    BY <1>1, <1>4, <2>1 DEF RequestOK, Revised, Slots, A!CountOwners
  <2> QED BY <1>1, <2>1, <2>2, Reads
<1> QED BY <1>2, <1>3, <1>4 DEF A!GiveUp

LEMMA OutsideSteps ==
    ASSUME A!AccountsConstants, TablesInv, RequestsInv,
           \/ \E t \in DOMAIN invitations : A!Expire(t)
           \/ \E s \in cookies : A!EndSession(s)
           \/ UNCHANGED A!vars
    PROVE  TablesInv' /\ RequestsInv'
<1>1. ASSUME NEW t \in DOMAIN invitations, A!Expire(t) PROVE TablesInv' /\ Grown
  <2>1. PICK i : i = [invitations[t] EXCEPT !.expired = TRUE]
    OBVIOUS
  <2>2. invitations \in Seq(Invitation) /\ invitations[t] \in Invitation
    BY DEF TablesInv, TablesTyped
  <2>3. i \in Invitation /\ i.user = invitations[t].user /\ i.used = invitations[t].used
    BY <2>1, <2>2 DEF Invitation
  <2>4. invitations' = [invitations EXCEPT ![t] = i]
    BY <1>1, <2>1 DEF A!Expire
  <2>5. /\ invitations' \in Seq(Invitation) /\ DOMAIN invitations' = DOMAIN invitations
        /\ \A x \in DOMAIN invitations : /\ invitations'[x].user = invitations[x].user
                                         /\ invitations'[x].used = invitations[x].used
    BY <2>2, <2>3, <2>4
  <2>6. UNCHANGED <<users, pointer, sessions, cookies>>
    BY <1>1 DEF A!Expire
  <2>7. InvitationsGrow
    BY <2>5 DEF InvitationsGrow
  <2>8. UsersInv'
    BY <2>5, <2>6 DEF TablesInv, UsersInv, Fits, Keyed
  <2> QED BY <2>5, <2>6, <2>7, <2>8 DEF TablesInv, TablesTyped, RefsInv, Grown
<1>2. ASSUME NEW s \in cookies, A!EndSession(s) PROVE TablesInv' /\ Grown
  <2>1. PICK x : x = [sessions[s] EXCEPT !.live = FALSE]
    OBVIOUS
  <2>2. s \in DOMAIN sessions /\ sessions[s] \in Session
    BY DEF TablesInv, TablesTyped
  <2>3. x \in Session /\ x.user = sessions[s].user /\ x.by = sessions[s].by
    BY <2>1, <2>2 DEF Session
  <2> QED BY <1>2, <2>1, <2>2, <2>3, SessionSet DEF A!EndSession
<1>3. UNCHANGED desk
  BY DEF A!Expire, A!EndSession, A!vars
<1>4. UNCHANGED A!vars => TablesInv' /\ Grown
  BY TablesKept DEF A!vars
<1> QED BY <1>1, <1>2, <1>3, <1>4, NobodyMoves

\* What is asked stays within its bound.
AskedInv == kinds \in Scenarios /\ asked \in 0 .. MaxRequests[kinds] /\ team \subseteq Emails

AccountsInv == TablesInv /\ RequestsInv /\ AskedInv

LEMMA AskedKept ==
    ASSUME A!AccountsConstants, AskedInv, [A!Next]_A!vars
    PROVE  AskedInv'
<1>1. MaxRequests[kinds] \in Nat
  BY DEF A!AccountsConstants, AskedInv
<1>2. ASSUME NEW h \in Desks, A!Ask(h)
      PROVE  UNCHANGED <<kinds, team>> /\ \E kind : A!Begin(h, kind)
  <2>1. A!HandleRegister(h) => UNCHANGED <<kinds, team>> /\ \E kind : A!Begin(h, kind)
    BY DEF A!HandleRegister, A!Register
  <2>2. A!HandleOpenOrg(h) => UNCHANGED <<kinds, team>> /\ \E kind : A!Begin(h, kind)
    BY DEF A!HandleOpenOrg, A!OpenOrg, A!In
  <2>3. A!HandleInviteTeamMember(h) \/ A!HandleInviteLearner(h) => UNCHANGED <<kinds, team>> /\ \E kind : A!Begin(h, kind)
    BY DEF A!HandleInviteTeamMember, A!HandleInviteLearner, A!ReadInvite, A!In, A!Goto
  <2>4. A!HandleUpdateProfil(h) => UNCHANGED <<kinds, team>> /\ \E kind : A!Begin(h, kind)
    BY DEF A!HandleUpdateProfil, A!ReadSelf, A!In, A!Goto
  <2>5. A!HandleUpdateTeamMember(h) => UNCHANGED <<kinds, team>> /\ \E kind : A!Begin(h, kind)
    BY DEF A!HandleUpdateTeamMember, A!ReadUpdate, A!In, A!Goto
  <2>6. A!HandleImpersonate(h) => UNCHANGED <<kinds, team>> /\ \E kind : A!Begin(h, kind)
    BY DEF A!HandleImpersonate, A!Impersonate, A!In, A!Goto
  <2>7. A!HandleEndImpersonation(h) => UNCHANGED <<kinds, team>> /\ \E kind : A!Begin(h, kind)
    BY DEF A!HandleEndImpersonation, A!EndImpersonation, A!In, A!Goto
  <2>8. A!HandleInvitationAccept(h) => UNCHANGED <<kinds, team>> /\ \E kind : A!Begin(h, kind)
    BY DEF A!HandleInvitationAccept, A!ReadInvitation, A!Goto
  <2>9. A!HandleLogin(h) => UNCHANGED <<kinds, team>> /\ \E kind : A!Begin(h, kind)
    BY DEF A!HandleLogin, A!ReadLogin, A!Goto
  <2> QED BY <1>2, <2>1, <2>2, <2>3, <2>4, <2>5, <2>6, <2>7, <2>8, <2>9 DEF A!Ask
<1>3. ASSUME NEW h \in Desks, A!Continue(h)
      PROVE  UNCHANGED <<kinds, asked, team>>
  BY <1>3 DEF A!Continue, A!CreateInvited, A!Reinvite, A!ReadAccount, A!Accept, A!OpenSession, A!Stamp,
     A!Promote, A!PromoteSession, A!PromoteFails, A!Leave, A!Answer, A!CountOwners, A!Save, A!GiveUp, A!Goto
<1>4. \/ UNCHANGED <<kinds, asked, team>>
      \/ UNCHANGED <<kinds, team>> /\ asked < MaxRequests[kinds] /\ asked' = asked + 1
  BY <1>2, <1>3 DEF A!Next, A!Begin, A!Expire, A!EndSession, A!vars
<1> QED BY <1>1, <1>4 DEF AskedInv

LEMMA AccountsInit == ASSUME A!AccountsConstants, A!Init PROVE AccountsInv
<1> DEFINE D == DOMAIN Start
<1>1. /\ D = 1 .. Len(Start) /\ Len(Start) \in Nat /\ 1 \in D
      /\ \A k \in D : Start[k] \in A!OpenAccount
  BY DEF A!AccountsConstants
<1>2. \A k \in D : Start[k] \in User /\ Start[k].pwd = 0 /\ Start[k].email \in Emails /\ Start[k].role \in A!Roles
  <2>1. ASSUME NEW k \in D, NEW o, o = Start[k] PROVE o \in User /\ o.pwd = 0 /\ o.email \in Emails /\ o.role \in A!Roles
    <3>1. o \in A!OpenAccount
      BY <1>1, <2>1
    <3>2. PICK org \in Orgs, email \in Emails, role \in A!Roles :
              o = [org |-> org, email |-> email, role |-> role, disabled |-> FALSE, pwd |-> 0]
      BY <3>1 DEF A!OpenAccount
    <3>3. o \in User
      BY <3>2 DEF User
    <3> QED BY <3>2, <3>3
  <2> QED BY <2>1
<1>3. users = Start /\ invitations = <<>> /\ cookies = D /\ desk = [h \in Desks |-> A!Idle]
  BY DEF A!Init
<1> HIDE DEF D
<1>4. users \in Seq(User)
  BY <1>1, <1>2, <1>3 DEF A!AccountsConstants, D
<1>5. PICK s : s = [k \in D |-> A!NewSession(k, Start[k].role, None)]
  OBVIOUS
<1>6. sessions = s /\ DOMAIN s = D
  BY <1>5 DEF A!Init, D
<1>7. ASSUME NEW k \in D
      PROVE  s[k] \in Session /\ s[k].user = k /\ s[k].by = None
  <2>1. k \in Nat /\ Start[k].role \in A!Roles
    BY <1>1, <1>2
  <2>2. s[k] = A!NewSession(k, Start[k].role, None)
    BY <1>5
  <2> QED BY <2>1, <2>2 DEF A!NewSession, Session
<1>8. sessions \in Seq(Session)
  <2>1. s \in [1 .. Len(Start) -> Session]
    BY <1>1, <1>5, <1>7
  <2> QED BY <1>1, <1>6, <2>1
<1>9. ASSUME NEW e \in Emails
      PROVE  \/ pointer[e] = None
             \/ pointer[e] \in D /\ Start[pointer[e]].email = e
  BY DEF A!Init, D
<1>10. pointer \in [Emails -> Nat \cup {None}]
  <2>1. pointer = [e \in Emails |-> pointer[e]]
    BY DEF A!Init
  <2> QED BY <1>1, <1>9, <2>1
<1>11. ASSUME NEW k \in D PROVE pointer[Start[k].email] = k
  <2>1. PICK e \in Emails : e = Start[k].email
    BY <1>2
  <2>2. pointer[e] = CHOOSE i \in D : Start[i].email = e
    BY <2>1 DEF A!Init, D
  <2>3. (CHOOSE i \in D : Start[i].email = e) \in D /\ Start[CHOOSE i \in D : Start[i].email = e].email = e
    BY <2>1
  <2> QED BY <2>1, <2>2, <2>3 DEF A!AccountsConstants, D
<1>12. TablesInv
  <2>1. DOMAIN invitations = {}
    BY <1>3
  <2>2. RefsInv
    BY <1>3, <1>6, <1>7, <1>9, <2>1 DEF RefsInv, D
  <2>3. UsersInv
    <3>1. 0 # None
      BY DEF A!AccountsConstants
    <3> QED BY <1>2, <1>3, <1>11, <2>1, <3>1 DEF UsersInv, Fits, Keyed, D
  <2>4. invitations \in Seq(Invitation)
    BY <1>3
  <2> QED BY <1>3, <1>4, <1>6, <1>8, <1>10, <2>2, <2>3, <2>4 DEF TablesInv, TablesTyped
<1>13. RequestsInv
  BY <1>3, IdleOK DEF RequestsInv
<1>14. AskedInv
  <2>1. kinds \in Scenarios /\ asked = 0 /\ MaxRequests[kinds] \in Nat
    BY DEF A!Init, A!AccountsConstants
  <2>2. team \subseteq Emails
    BY <1>1, <1>2 DEF A!Init, D
  <2> QED BY <2>1, <2>2 DEF AskedInv
<1> QED BY <1>12, <1>13, <1>14 DEF AccountsInv

LEMMA AccountsStep ==
    ASSUME A!AccountsConstants, AccountsInv, [A!Next]_A!vars
    PROVE  AccountsInv'
<1>1. TablesInv /\ RequestsInv
  BY DEF AccountsInv
<1>2. ASSUME NEW h \in Desks, A!Ask(h) PROVE TablesInv' /\ RequestsInv'
  BY <1>1, <1>2, OpeningSteps, InviteSteps, AcceptReads, LoginRead, ImpersonationReads, ProfileRead, UpdateRead
     DEF A!Ask
<1>3. ASSUME NEW h \in Desks, A!Continue(h) PROVE TablesInv' /\ RequestsInv'
  BY <1>1, <1>3, CreateStep, ReinviteStep, AcceptReads, AcceptStep, SaveSteps, SessionSteps, OtherSteps
     DEF A!Continue
<1>4. TablesInv' /\ RequestsInv'
  BY <1>1, <1>2, <1>3, OutsideSteps DEF A!Next
<1> QED BY <1>4, AskedKept DEF AccountsInv

LEMMA AccountsAlways == ASSUME A!AccountsConstants PROVE A!Spec => []AccountsInv
<1>1. A!Init => AccountsInv
  BY AccountsInit
<1>2. AccountsInv /\ [A!Next]_A!vars => AccountsInv'
  BY AccountsStep
<1> QED BY <1>1, <1>2, PTL DEF A!Spec

-----------------------------------------------------------------------------
(* Accounts: theorems *)

\* Whatever races, the accounts, their addresses and their invitations agree: an address
\* belongs to one account, an account without a password is closed, a password chosen
\* through an invitation is its account's and uses it up (service.go:40-73,
\* invitation.go:95-128, 169-186, team.go:80-104 and 137-145).
THEOREM AccountsAlwaysWhole == ASSUME A!AccountsConstants PROVE A!Spec => []AccountsWhole
<1>1. ASSUME AccountsInv PROVE AccountsWhole
  <2>1. TablesInv /\ AskedInv
    BY <1>1 DEF AccountsInv
  <2>2. ASSUME NEW id \in DOMAIN users
        PROVE  /\ users[id] \in User /\ pointer[users[id].email] = id
               /\ Keyed(id, users[id])
    BY <2>1 DEF TablesInv, UsersInv, Fits
  <2>3. A!TypeOK
    <3>1. \A id \in DOMAIN users :
              users[id] \in [org : Orgs, email : Emails, role : A!Roles, disabled : BOOLEAN,
                             pwd : {None, 0} \cup DOMAIN invitations]
      BY <2>2 DEF User, Keyed
    <3>2. pointer \in [Emails -> {None} \cup DOMAIN users]
      BY <2>1 DEF TablesInv, TablesTyped, RefsInv
    <3>3. \A s \in DOMAIN sessions :
              sessions[s] \in [user : DOMAIN users, role : A!Roles, by : {None} \cup DOMAIN users,
                               live : BOOLEAN]
      <4>1. ASSUME NEW s \in DOMAIN sessions, NEW x, x = sessions[s]
            PROVE  x \in [user : DOMAIN users, role : A!Roles, by : {None} \cup DOMAIN users, live : BOOLEAN]
        <5>1. x \in Session /\ x.user \in DOMAIN users /\ x.by \in {None} \cup DOMAIN users
          BY <2>1, <4>1 DEF TablesInv, TablesTyped, RefsInv
        <5> QED BY <5>1 DEF Session
      <4> QED BY <4>1
    <3>4. cookies \subseteq DOMAIN sessions
      BY <2>1 DEF TablesInv, TablesTyped
    <3> QED BY <2>1, <3>1, <3>2, <3>3, <3>4 DEF A!TypeOK, AskedInv
  <2> QED BY <2>2, <2>3 DEF AccountsWhole, A!AccountsWhole, Keyed
<1>2. A!Spec => []AccountsInv
  BY AccountsAlways
<1> QED BY <1>1, <1>2, PTL

\* The record that handler j is about to put.
Carried(j) == IF j.pc = "stamp" THEN j.copy ELSE j.after

\* The accounts change by a new one, or by a handler that puts a record.
LEMMA UsersWritten ==
    ASSUME A!AccountsConstants, AccountsInv, [A!Next]_A!vars
    PROVE  \/ /\ DOMAIN users \subseteq DOMAIN users'
              /\ \A x \in DOMAIN users : users'[x] = users[x]
           \/ \E h \in Desks : /\ desk[h].pc \in {"reinvite", "accept", "stamp", "promote", "save"}
                               /\ users' = [users EXCEPT ![desk[h].id] = Carried(desk[h])]
<1> DEFINE Same == DOMAIN users \subseteq DOMAIN users' /\ \A x \in DOMAIN users : users'[x] = users[x]
           Puts(h) == /\ desk[h].pc \in {"reinvite", "accept", "stamp", "promote", "save"}
                      /\ users' = [users EXCEPT ![desk[h].id] = Carried(desk[h])]
<1>1. users \in Seq(User)
  BY DEF AccountsInv, TablesInv, TablesTyped
<1>2. ASSUME NEW u, NEW invited, A!Create(u, invited) PROVE Same
  <2>1. users' = Append(users, u)
    BY <1>2 DEF A!Create
  <2>2. PICK n \in Nat : n = Len(users)
    BY <1>1
  <2>3. DOMAIN users = 1 .. n /\ DOMAIN users' = 1 .. n + 1
    BY <1>1, <2>1, <2>2
  <2>4. \A x \in DOMAIN users : users'[x] = users[x]
    BY <1>1, <2>1
  <2> QED BY <2>2, <2>3, <2>4
<1>3. ASSUME NEW h \in Desks, A!Ask(h) PROVE Same
  <2>1. users' = users \/ \E u, invited : A!Create(u, invited)
    BY <1>3 DEF A!Ask, A!HandleRegister, A!Register, A!HandleOpenOrg, A!OpenOrg, A!HandleInviteTeamMember,
       A!HandleInviteLearner, A!ReadInvite, A!HandleUpdateProfil, A!ReadSelf, A!HandleUpdateTeamMember,
       A!ReadUpdate, A!HandleImpersonate, A!Impersonate, A!HandleEndImpersonation, A!EndImpersonation,
       A!HandleInvitationAccept, A!ReadInvitation, A!HandleLogin, A!ReadLogin, A!tables
  <2> QED BY <1>2, <2>1
<1>4. ASSUME NEW h \in Desks, A!Continue(h) PROVE Same \/ Puts(h)
  <2>1. CASE A!CreateInvited(h)
    BY <1>2, <2>1 DEF A!CreateInvited
  <2>2. CASE A!Reinvite(h) \/ A!Accept(h) \/ A!Stamp(h) \/ A!Promote(h) \/ A!Save(h)
    BY <2>2 DEF A!Reinvite, A!Accept, A!Stamp, A!Promote, A!Save, Carried
  <2>3. CASE ~ A!CreateInvited(h) /\ ~ (A!Reinvite(h) \/ A!Accept(h) \/ A!Stamp(h) \/ A!Promote(h) \/ A!Save(h))
    <3>1. users' = users
      BY <1>4, <2>3 DEF A!Continue, A!ReadAccount, A!OpenSession, A!PromoteSession, A!PromoteFails,
         A!Leave, A!Answer, A!CountOwners, A!GiveUp, A!tables
    <3> QED BY <3>1
  <2> QED BY <2>1, <2>2, <2>3
<1>5. (\E t \in DOMAIN invitations : A!Expire(t)) \/ (\E s \in cookies : A!EndSession(s)) \/ UNCHANGED A!vars => Same
  BY DEF A!Expire, A!EndSession, A!vars, A!tables
<1> QED BY <1>3, <1>4, <1>5 DEF A!Next

\* What a handler puts over a record that has not changed since it was read.
LEMMA PutFresh ==
    ASSUME A!AccountsConstants, AccountsInv, NEW h \in Desks,
           desk[h].pc \in {"reinvite", "accept", "stamp", "promote", "save"}
    PROVE  LET j == desk[h] IN
           /\ j.id \in DOMAIN users /\ j.copy \in User /\ Carried(j).org = users[j.id].org
           /\ j.pc = "stamp" => Carried(j) = j.copy
           /\ j.pc = "accept" => Carried(j).role = j.copy.role /\ ~ Carried(j).disabled
           /\ j.pc \in {"reinvite", "promote"} => Carried(j).disabled = j.copy.disabled /\ Carried(j).pwd = j.copy.pwd
           /\ j.pc = "save" /\ j.kind # "update" => Carried(j).role = j.copy.role /\ Carried(j).disabled = j.copy.disabled
           /\ j.pc = "save" /\ j.kind # "password" => Carried(j).pwd = j.copy.pwd
           /\ j.pc = "save" /\ A!LosesOwner(j.copy, Carried(j)) => j.others # {} /\ j.id \notin j.others
<1>1. PICK j : j = desk[h] /\ RequestOK(j)
  BY DEF AccountsInv, RequestsInv
<1>2. Fits(j.id, j.copy)
  BY <1>1 DEF RequestOK
<1>3. j.id \in DOMAIN users /\ j.copy \in User /\ j.copy.org = users[j.id].org
  BY <1>2 DEF Fits
<1>4. CASE j.pc = "stamp"
  BY <1>1, <1>3, <1>4 DEF Carried
<1>5. CASE j.pc = "accept"
  <2>1. Carried(j) = A!Chosen(j.copy, j.invitation)
    BY <1>1, <1>5 DEF Carried, RequestOK
  <2> QED BY <1>1, <1>3, <1>5, <2>1 DEF A!Chosen, User
<1>6. CASE j.pc \in {"reinvite", "promote"}
  <2>1. PICK role \in A!Roles : Carried(j) = [j.copy EXCEPT !.role = role]
    BY <1>1, <1>6 DEF Carried, RequestOK
  <2> QED BY <1>1, <1>3, <1>6, <2>1 DEF User
<1>7. CASE j.pc = "save"
  <2>1. Carried(j) = j.after /\ Revised(j)
    BY <1>1, <1>7 DEF Carried, RequestOK
  <2>2. Carried(j).org = users[j.id].org
    BY <2>1 DEF Revised, Fits
  <2> QED BY <1>1, <1>3, <1>7, <2>1, <2>2 DEF Revised, User
<1> QED BY <1>1, <1>4, <1>5, <1>6, <1>7

\* The role of an account is moved by the requests that are about roles, its access by an edit
\* of the account or an accepted invitation, its password by an accepted invitation or a new
\* password; anything else moves them only over a change made while it ran
\* (service.go:141-145, invitation.go:173-186, profil.go:28-89, directory.go:252-260).
THEOREM OnlyStaleWritesEverRevert == ASSUME A!AccountsConstants PROVE A!Spec => OnlyStaleWritesRevert
<1>1. ASSUME AccountsInv, [A!Next]_A!vars PROVE A!RevertedByStaleWrite
  <2>1. CASE /\ DOMAIN users \subseteq DOMAIN users'
             /\ \A x \in DOMAIN users : users'[x] = users[x]
    BY <2>1 DEF A!RevertedByStaleWrite
  <2>2. ASSUME NEW h \in Desks, desk[h].pc \in {"reinvite", "accept", "stamp", "promote", "save"},
               users' = [users EXCEPT ![desk[h].id] = Carried(desk[h])]
        PROVE  A!RevertedByStaleWrite
    <3>1. users \in Seq(User)
      BY <1>1 DEF AccountsInv, TablesInv, TablesTyped
    <3>2. PICK j, u : j = desk[h] /\ u = Carried(desk[h])
      OBVIOUS
    <3>3. ASSUME NEW x \in DOMAIN users, x # j.id PROVE users'[x] = users[x]
      BY <2>2, <3>1, <3>2, <3>3
    <3>4. j.id \in DOMAIN users /\ users'[j.id] = u
      BY <1>1, <2>2, <3>1, <3>2, PutFresh
    <3>5. j.copy # users[j.id] => A!Late(j.id)
      BY <3>2 DEF A!Late, A!Stale
    <3>6. ASSUME j.copy = users[j.id]
          PROVE  /\ u.role # users[j.id].role => A!Writes({"reinvite", "promote"}, j.id) \/ A!Saves("update", j.id)
                 /\ u.disabled # users[j.id].disabled => A!Writes({"accept"}, j.id) \/ A!Saves("update", j.id)
                 /\ u.pwd # users[j.id].pwd => A!Writes({"accept"}, j.id) \/ A!Saves("password", j.id)
      BY <1>1, <2>2, <3>2, <3>6, PutFresh DEF A!Writes, A!Saves
    <3> QED BY <3>3, <3>4, <3>5, <3>6 DEF A!RevertedByStaleWrite
  <2> QED BY <1>1, <2>1, <2>2, UsersWritten
<1>2. A!Spec => []AccountsInv
  BY AccountsAlways
<1> QED BY <1>1, <1>2, PTL DEF A!Spec, OnlyStaleWritesRevert, A!OnlyStaleWritesRevert

\* The last owner who can come in is lost only by a second invitation with another role, by
\* the list of the team, or by a write whose check was overtaken (team.go:108-165).
THEOREM OnlyRacesEverLoseOwners == ASSUME A!AccountsConstants PROVE A!Spec => OnlyRacesLoseOwners
<1>1. ASSUME AccountsInv, [A!Next]_A!vars PROVE A!OwnersLostByRace
  <2> DEFINE Lost(org) == A!ActiveOwners(users, org) # {} /\ A!ActiveOwners(users', org) = {}
             Race(h, org) == \/ desk[h].pc = "reinvite"
                             \/ desk[h].pc = "promote"
                             \/ desk[h].pc \in {"stamp", "accept", "save"} /\ A!Stale(h, desk[h].id)
                             \/ desk[h].pc = "save" /\ ~ (desk[h].others \subseteq A!ActiveOwners(users, org))
  <2>1. ASSUME NEW org \in Orgs, DOMAIN users \subseteq DOMAIN users',
               \A x \in DOMAIN users : users'[x] = users[x]
        PROVE  ~ Lost(org)
    BY <2>1 DEF A!ActiveOwners
  <2>2. ASSUME NEW org \in Orgs, Lost(org), NEW h \in Desks,
               desk[h].pc \in {"reinvite", "accept", "stamp", "promote", "save"},
               users' = [users EXCEPT ![desk[h].id] = Carried(desk[h])]
        PROVE  Race(h, org)
    <3>1. users \in Seq(User)
      BY <1>1 DEF AccountsInv, TablesInv, TablesTyped
    <3>2. PICK id, u : id = desk[h].id /\ u = Carried(desk[h])
      OBVIOUS
    <3>3. id \in DOMAIN users /\ u.org = users[id].org
      BY <1>1, <2>2, <3>2, PutFresh
    <3>4. DOMAIN users' = DOMAIN users /\ \A x \in DOMAIN users : users'[x] = IF x = id THEN u ELSE users[x]
      BY <2>2, <3>1, <3>2, <3>3
    <3>5. A!ActiveOwners(users, org) = {id}
      BY <2>2, <3>4 DEF A!ActiveOwners
    <3>6. users[id].role = "owner" /\ ~ users[id].disabled /\ users[id].org = org
      BY <3>5 DEF A!ActiveOwners
    <3>7. u.role # "owner" \/ u.disabled
      BY <2>2, <3>3, <3>4, <3>6 DEF A!ActiveOwners
    <3>8. CASE desk[h].copy # users[id]
      BY <2>2, <3>2, <3>8 DEF A!Stale
    <3>9. CASE desk[h].copy = users[id]
      <4>1. desk[h].pc \notin {"stamp", "accept"}
        BY <1>1, <2>2, <3>2, <3>6, <3>7, <3>9, PutFresh
      <4>2. ASSUME desk[h].pc = "save" PROVE desk[h].others # {} /\ id \notin desk[h].others
        <5>1. A!LosesOwner(desk[h].copy, u)
          BY <3>6, <3>7, <3>9 DEF A!LosesOwner
        <5> QED BY <1>1, <2>2, <3>2, <4>2, <5>1, PutFresh
      <4> QED BY <2>2, <3>5, <4>1, <4>2
    <3> QED BY <3>8, <3>9
  <2>3. ASSUME NEW org \in Orgs, Lost(org) PROVE \E h \in Desks : Race(h, org)
    BY <1>1, <2>1, <2>2, <2>3, UsersWritten
  <2> QED BY <2>3 DEF A!OwnersLostByRace
<1>2. A!Spec => []AccountsInv
  BY AccountsAlways
<1> QED BY <1>1, <1>2, PTL DEF A!Spec, OnlyRacesLoseOwners, A!OnlyRacesLoseOwners
=============================================================================
