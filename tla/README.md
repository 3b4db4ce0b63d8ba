# LemLearn: TLA+ models, checks and proofs

LemLearn is a training-management product: a Go API (`services/api`) that runs as
one AWS Lambda function, a DynamoDB main table and audit table, an S3 blob store, and
a Next.js interface. Its promise is *proof*: every fact a training file must show to a
funder or to a Qualiopi auditor is an event in a hash-chained journal, and the state
of an item never says something else than its history. This directory models the
parts of the API that keep this promise, checks them with TLC, and proves the core
with TLAPS.

Paths below are under `services/api/internal/` unless they start with `apps/`,
`infra/` or `services/`.

## 1. Inventory

The function runs in as many concurrent instances as there are requests
(`infra/lib/compute-stack.ts`): two requests interleave at every call to a store, an
instance may die between two calls, and the answer of a call may be lost. There is no
lock. The only synchronisation is a condition on a write, or a transaction of several
conditional writes. So the question to ask of every component is the same: *what does
a handler read, what does it write back, under which condition, and what happened in
between?*

| Component | State | Operations | What is hard | What makes it correct |
|---|---|---|---|---|
| `platform/audit`, `platform/ddb/audit_store.go` | one chain of events per subject | `WriteWithAudit(Chain)`: read the last event, append, commit with the item, retry | races on a rank, lost answers, bounded retries, clocks | chains intact, all or nothing, no state without provenance |
| `crm` (`service`, `proof`) | files: stage, funding, session, cached proof | `CreateFile`, `MoveFile`, `SetFunding`, `FileWithProof`, exports | whole-item puts from old copies | stage agrees with the chain; the proof is never overstated |
| `crm` (`identity_doc`, `anonymize`, `suivi`, `import`) | the card of a contact, its notes, reminders, pieces | correct, attach, erase, journal on each file | files listed page by page in a lagging index, events written one by one, uploads signed and never made, stale copies | an erasure is explained on every file that was listed and is not undone; a piece that was deposited opens |
| `signature` | requests, codes, proofs, archived PDF | `Issue`, `Open`, `SendOTP`, `Confirm` | unconditional puts, blob store outside the transaction, expiry, tries | one signature, of what was shown, archived, with an accepted code |
| `catalog` | courses, modules, sessions, enrolments | edit, publish, duplicate, `Enroll`, `CloseSession`, attribution | checks overtaken by edits, lagging lists, closing learner by learner | a published course is complete; no needless second session or file; a closed session and its chains agree |
| `learning`, `lms`, `quiz` | watch records, attempts, progress, versions | `Heartbeat`, `SubmitQuiz`, saving and publishing versions | two tabs, a heartbeat during a quiz, numbering of attempts, a publication during a quiz | a pass is never lost, watched time is bounded by real time, grades rest on what was published |
| `attendance` | sheets of half-days, signatures | `EnsureSheet`, `Sign`, `Countersign` | sheet created twice, signature after closing, sessions over a night | each presence is journalled, a sheet covers its session, a countersigned sheet is settled |
| `invoicing` | drafts, invoices, credit notes, a counter | `Issue`, `Update`, `Delete`, `MarkPaid`, `CreditNote` | counter and invoice written apart, stale puts | numbers unique and journalled, issued invoices fixed |
| `followup` | planned surveys | `Schedule`, `Run`, `Answered`, `Cancel` | mail sent before the write, overlapping runs, a run whose two months are one | a closing plans, every return has its mail, an outage is caught up |
| `identity` | accounts, invitations, sessions, organisations | sign-in, team, invitations, impersonation, plans | the last owner, invitations sent again, whole-record puts | one account per address, an owner is lost only to a race |
| `billing` | the plan of an organisation | webhook, checkout | events repeated and out of order | a plan changes for a reason |
| `video`, `library` | video cards, a shared catalogue | reserve, encode, refresh; save, import | lost answers of the encoder, cards copied from elsewhere | ready means encoded; imported videos play |
| `export`, `bpf`, `brand`, `emailtpl` | templates | formatting, single writes | little | |
| `platform/{blob,mail,seal,tsa,cms,pdfsig,doc}` | blobs, mail journal | store, send, seal, stamp, render | cryptography and byte formats | |
| `httpapi`, `apps/web`, `infra` | none of their own | routing, guards, views, deployment | | |

Interactions. Every service calls `ddb` and, for probative facts, `WriteWithAudit`,
on the chain of the file (`file/<id>`) when there is one, else of the enrolment,
session or organisation. `catalog.Enroll` also writes the CRM file; `learning` writes
the catalogue's enrolments; `signature` renders through `docflow`, which reads the
CRM file again; `crm.ComputeProof` reads back the events all the others left;
`followup` is planned by `catalog.CloseSession` through its HTTP handler and run by a
scheduler; an attribution calls `catalog` and `crm` in one request.

The hazards of this code, each with its line and with the properties that cover it,
are the list `hazards` of `PROJECT.json`.

## 2. Plan

Order: the journal first, since everything else rests on it, then the components
that write through it.

| # | Module | Models | Composes |
|---|---|---|---|
| 1 | `Ledger` | abstract journalled store: one atomic write per request | |
| 2 | `AuditLog` | the chain and the retry loop | implements `Ledger` |
| 3 | `CrmFile` | a file, its chain, its cached proof, enrolment | atomic journalled writes, as `Ledger` promises |
| 4 | `Signature` | requests, codes, archive | the same |
| 5 | `Coverage` | `lms.Coverage.Apply`, its count of slices and its gaps | |
| 6 | `Learning` | heartbeats, attempts, progress of an enrolment | `Coverage`; atomic journalled writes |
| 7 | `Register` | abstract register of numbered documents | |
| 8 | `Invoicing` | counter, drafts, issue, credit notes | implements `Register` |
| 9 | `Attendance` | sheets, signatures, countersignature | atomic journalled writes |
| 10 | `FollowUp` | enrolment, closing, planned surveys, daily run, answers | `catalog`, `followup` and the HTTP handlers that join them |
| 11 | `Accounts` | accounts, team, invitations, sessions, impersonation | |
| 12 | `Organisation` | the plan and the identity of an organisation, the webhook | |
| 13 | `Catalogue` | courses, modules, publication, copies, the library | `catalog`, `library`, `video` cards |
| 14 | `Attribution` | a course given to a learner | `catalog` and `crm` through lagging indexes |
| 15 | `Video` | encoding of a video | |
| 16 | `Quizzes` | validation, grading, versions | `Learning`'s submissions |
| 17 | `People` | the card of a contact, erasure, notes and pieces | atomic journalled writes; lagging indexes |
| 18 | `Office`, `Training`, `Administration`, `Teaching` | what runs side by side | `CrmFile`, `People`, `Organisation`; `Learning`, `Attendance`, `FollowUp`; `Invoicing`, `Accounts`; `Video`, `Catalogue`, `Attribution`, `Quizzes` |

All are written, checked and proved about (section 5). What is not modelled is in section 6.

## 3. Modules and their correspondence to the code

**`Ledger`** is what the callers of `WriteWithAudit` believe: `log[s]` is the sequence
of entries of subject `s`, `state[s]` its item, and one step records all the events of
a request and its item together, once.

**`AuditLog`** is `WriteWithAuditChain`. `main` and `journal` are the two tables;
`journal[s]` maps a rank to an event, as the sort key of the audit table does, so that
nothing in the model but the conditions keeps ranks contiguous. `req[r]` is where the
goroutine of request `r` is (`Begin` - the handler has taken its time and prepared its
item; `ReadLast` - `LastAuditEvent` and the build function; `Commit`/`Conflict` -
`TransactWriteItems`; `Fail` - any other error, or death) and `prev[r]` the event it
read. `Commit(r, "lost")` is a commit whose answer never comes back. A shape stands
for a family of callers: `create`, `move` (condition on the value read), `save`,
`submit` (two linked events, `learning.SubmitQuiz`), `record` (an event alone) and
`org` (`AuditOrg`, which takes its time while building). SHA-256 is injective: a hash
is the tuple of its inputs, so an event's hash holds the whole prefix of its chain.

**`CrmFile`** is one file and its chain. A handler is a read, then a write of the
*whole* copy: `MoveFile` under a condition on the stage; `SetFunding`,
`FileWithProof` and `Enroll` under none. `ComputeProof` is translated piece by piece,
with the "a quote sent and a convention signed" logic the funder's list needs. A
journalled write is one atomic step: this is what `ImplementsLedger` justifies.

**`Signature`** is the life of a request. `job[h]` is a handler with the copy it read;
`Open`, `SendOTP` and both outcomes of `verifyOTP` put that copy back unconditionally;
`Confirm` goes on through the drawing, the rendering, the archive and the conditional
last write, and can stop between any two. A code is named by the handler that sent it,
a sealed document by the handler that sealed it; `content` is what a document rendered
from the file says now, and `EditFile` changes it. `StatusCancelled` exists in the
code and is never set; the model keeps the guard.

**`Coverage`** is `lms.Coverage`: the bitmap is the set of its lit slices, `Apply` the
acceptance rule (focus, interval, position, time budget) and its effect, `Gaps` the
scan of the bitmap. `Rejected`, `Sessions` and `LastPos` decide nothing and are left
out; the rate a player declares is not read by the code.

**`Learning`** is one learner on one module. `ReadWatch`, `PutWatch`, `ReadEnrollment`
and `PutProgress` are the four store calls of a heartbeat, `CountAttempts`,
`ReadForQuiz`, `ReadCoverage` and `PutSubmission` those of a submission, in the order
of the code; no put has a condition. The count of attempts may be any prefix of what
is stored, because a query is eventually consistent. `ReadCoverage` may come back
empty: `SubmitQuiz` ignores its error. The clock is the servers' and is read after the
record (`PutWatch` takes any time since the read). Of a grade only pass or fail is
kept. A quiz has its own limit of attempts, or none (`MaxAttempts[quiz] = 0`).

**`Register`** is what accounting asks of a numbering: a rank is taken, then booked at
most once, for ever; a rank that is taken and never booked is a gap.

**`Invoicing`** is `invoicing.Service` with its routes. A handler reads the invoice and
checks its status (`Begin`), an issue increments the counter of the year (`TakeRank`,
whose answer may be lost and the call retried: `LoseRank`), the client and the tax regime
are read again (`Fill`), the whole copy is put without a condition. `journal` holds the
events of the issues; mapped to `Register`, it shows that no rank is journalled twice.

**`Attendance`** is the sheet of one session. Time is counted in quarters of an hour, so
that half-days, the window in which a learner may sign and the hours billed are computed
as the code does (`HalfDaySlots`, `AsyncSlots`, `LearnerCanSign`). Every handler first
makes sure that the sheet exists (`EnsureSheet`), and a read that fails is taken for a
missing sheet.

**`FollowUp`** joins `catalog.Enroll`, `CloseSession`, `followup.Schedule`, `Run` and the
public survey. Closing writes the files' events one by one; a run lists the tasks of this
month, then those of `AddDate(0, -1, 0)`, which Go normalises (the month before 31 March is
March: `PreviousMonth`). The two lists stay apart (`Queries`), since they may have the same
tasks; the run goes through one, then the other, mails each task, then writes it from the
copy it listed.

**`Accounts`** is `identity` with `httpapi`'s guards: each request is the list of its
store calls. A creation is conditional on the address; every other write is a put of the
record that was read. The session keeps the role it was opened with, impersonation opens
a session of the first owner on behalf of a member of the team.

**`Organisation`** is the record of one organisation and its card in the directory: the
team's `SetPlan`, the webhook with its signature tolerance, the edit of the identity, and
the login that enters a missing card.

**`Catalogue`** is the courses of an organisation and the shared library: `UpdateCourse`,
`SetCover`, `SetPublished`, modules, `DuplicateCourse`, `Import` with `copyAsset`. What a
course says is the set of its filled mentions; lists lag.

**`Attribution`** is `handleAttribuerFormation` beside the requests that do its steps one
by one. `agenda` and `pipeline` are the indexes of sessions and files, which catch up
entry by entry, and of which a request sees one page (200 sessions, 200 files of each of
the five stages; `PageSize`): since dates and stages are left out, any part of an index
that fits may be that page. The funding of a file that was opened is a read and a put of
the whole file, whose failure is passed over; `undone` counts the puts that took a change
back, and is in no table. `served` bounds the requests.

**`Video`** is the card of one video and the jobs of an external encoder, whose answers
may be lost.

**`Quizzes`** is the versions of one questionnaire. `ValidQuestion`, `Valid`, `Right`,
`Score` and `Passed` are `Validate` and `Grade`; `MCTeaching` asserts that the grading of
questions by options is equality of sets (`RightAsSets`) over every expected list of three
options, options given twice or alone, and every answer of three values. `shownAs` is the lagging list of versions.

**`People`** is the card of one learner, its files, and the items that hang from it.
`ListFiles` reads the stages one at a time, as `filesOfLearner` does, so that a file that
moves meanwhile is met twice or not at all, and of each stage one page (`ListPage`, 500 in
the code; `PageSize`), of which the files of other learners may take any place.
`PreparePiece` only signs an address: the upload is a step of its own (`Upload`) that may
come late or never, and `AttachPiece` does not look whether the object is there.

## 4. Runs

`Office`, `Training`, `Administration` and `Teaching` each put several components *side by
side*: components that write records of their own and share none of them. The first is
extended, the others are instantiated, and the properties of all of them have a name
there, which is that of the theorems about them. The product of the components would say
nothing more than each, so the MC module lets a behaviour pick one of them in its
initial state (`part`) and TLC explores their sum; the theorems are about the specification
of each. Symmetries of the parts act together, as one group. An instantiated module does
not evaluate its assumptions, so they are definitions (`...Constants`): the MC module
assumes them, and they are the hypotheses of the theorems.

| Run | Question | Instance |
|---|---|---|
| `audit_log` | do chains stay intact, writes atomic and once, does the loop implement `Ledger`, and does a running request always end? | 1 subject, 3 requests of 3 shapes, 2 values, 2 attempts, under `FairSpec` |
| `signature` | what does a signature prove whatever races? | 1 request, 4 handlers of every kind, 3 ticks, 2 tries, 2 contents |
| `office` | what do a file's stage, proof and enrolment, an erasure, a piece, and the plan of an organisation keep? | 1 file, 3 handlers; 1 learner, 2 files, pages of 2 that others may fill, 2 items, 2 handlers in 4 stories; 4 events of the provider, 2 handlers |
| `training` | what are a validated module, an attempt, a sheet and a survey worth? | 1 module of 5 in slices of 2, 4 signals, 4 kinds of quizzes of which one has no limit of attempts, 3 handlers; 4 sessions, 2 modules, 3 handlers; 3 learners, 3 days over two months, 2 handlers |
| `administration` | what do the numbering of invoices and, under every pair of requests, the accounts keep? | 2 invoices, 3 handlers, 2 years, 2 terms; 3 organisations, 4 addresses, 2 handlers, every pair of kinds and 5 stories of 3 requests |
| `teaching` | is what is published complete, what is attributed needed, what is ready encoded, what is graded published? | 5 stories of 4 requests; 3 attributions of 2 courses to 2 learners, pages of 1; 2 instances, 3 jobs, 6 requests; 3 questionnaires, 2 versions, 4 edits |
| `signature_race` | *violation*: is a request signed once? | 1 request, 3 handlers |
| `invoicing_gap` | *violation*: is an issued invoice never deleted? | the invoices of `administration` |
| `survey_twice` | *violation*: does a survey go once? | the surveys of `training`, 1 handler |
| `erasure_gap` | *violation*: does every file explain an erasure that was answered? | the learner of `office` |
| `import_video` | *violation*: does the video follow an imported module? | the courses of `teaching` |
| `quiz_shown` | *violation*: is a learner graded on what was shown? | the versions of `teaching` |

Bounds and why they suffice. Three requests are the least for a request to conflict
with one that itself overtook another; two attempts (four in the code) make the last
attempt reachable by two conflicts. A request writes on one chain, and chains share
nothing, so one subject is enough; the shapes are a move (a creation is the same
transaction under another condition), a submission of two events and an organisation's
entry, and the theorems of section 5 are about all shapes and any number of subjects. On a file, the longest harmful pattern is a read, two
moves and a late write: three handlers. A double signature needs one code and two
confirmations; a fourth handler may reopen, resend or fail in between. Ticks:
`LinkTTL = 2` and `OTPTTL = 0` make codes expire before the link does, and the link
before the clock stops. `MaxOTPAttempts` is 2 instead of 3: a first try that counts
and a last one that burns. A module of 5 in slices of 2
has a short last slice and room for two gaps; three signals of 3 at one tick are the
least that a faulty budget lets through. Two invoices are what a credit note and its
invoice are, and what two issues race for; three handlers hold a stale draft over an issue
and a credit note. The four sessions are a morning, a night, two days that end earlier
than they began, and a week of videos; the two instants are before and inside a window. The
three days are one a survey is due on (20 March), the last of that month, which the month
before does not have (31 March), and one of the month after (20 April). Pages of one make
a second session, or a second file of a stage, fall past the page. Of accounts, every pair of requests and the stories of three in which the last
owner, a password or a session is at stake. A bounded number of requests, edits and jobs
closes the rest; each bound is a constant (`Max...`, `Horizon`). Properties of one request, file or chain are
checked with one of each; requests of different files share nothing. Deadlock checking is
off: the handlers of an instance are finite in number and all may have ended.

Fairness. Only `audit_log` assumes any: weak fairness of the steps of a request that
has begun (`ReadLast \/ Transact`). The goroutine of a running request is scheduled,
and the SDK's calls return or fail; nothing forces a request to begin, nor a failure
to happen. Strong fairness is not needed because the attempts are bounded. Nothing else in
the code is retried until it succeeds: every other request may end half-way and no
scheduler takes it up again, so there is no other liveness to state; what is left behind
by such an end is what the safety properties describe.

What the violations show (the list `findings` of `PROJECT.json` quotes the lines):

* Two simultaneous confirmations sign twice, since the put of the accepted code
  before the conditional write has no condition. `OnlyStaleWritesReopen` shows that
  these unconditional puts are the only way.
* A deletion that read a draft before its issue removes the issued invoice, and its
  number with it. `OnlyStaleWritesForget` shows that nothing that read an issued invoice
  takes its number away.
* On the 31st of March the month before the run's is March again: the run finds each task
  in both its lists and sends it twice, under two tokens of which the first then leads
  nowhere. `OnlyRunsReopen` shows that nothing else sends a survey again.
* An erasure that fails after its first file is answered as done by the retry, which
  finds the card erased; the other files never explain the pseudonym. `ErasureExplained`
  shows that an erasure carried through does explain it on every file that stayed put and in
  the page of its stage.
* A module imported from the library points to a video whose card was looked for where
  no code writes it.
* Answers are graded on the version published last, not on the one shown.
  `GradedOnRelease` shows that both were published.

### Limits seen while modelling

What follows is what the code does, as the models have it; no text of the repository says
otherwise, or a property above says exactly how far it goes.

* Journal: `MoveFile` and most callers take their time before the last event is read, so
  two moves can leave a chain whose timestamps go backwards and that `Verify` rejects;
  `LateStampsOrdered` shows that taking the time in the build function, as `AuditOrg`
  does, is enough.
* Files: `SetFunding`, `FileWithProof` and `Enroll` can bring back the stage a concurrent
  move has left (`OnlyPlainWritesDiverge`: moves alone never do), and a move loses a
  funding saved meanwhile.
* Signature: two documents under one reference share an archive key, the second signed
  replaces the first; the document is rendered again at the confirmation, so a file edited
  after its link was opened is signed with its new content. A failed or a sent code that
  is put from a copy read before a burned code was burned puts it back with fewer tries
  counted: the tries of one code are bounded one handler after the other, not for handlers
  that overlap, which `service.go:466-468` does not say (`ProofInOrder` speaks of the request
  as it stands).
* Learning: a heartbeat under way while a quiz is passed saves the enrolment without the
  pass (`OnlyStaleCopiesForget`); a signal that starts in the tolerance past the end
  subtracts from the time watched; a passed final quiz taken again and failed is lost.
* Attendance: two trainers who countersign together both pass the check, and the second
  put replaces the first one's signature, which `attendance/attendance_test.go:238` rules
  out one after the other (`SheetSettles` says that only a trainer who had not seen the
  first one does so); a signature after the countersignature is not refused; slots are not
  clipped to the hours of the session; each asynchronous slot bills the whole span; the
  half-days of the last day are lost when the session ends at an earlier time of day than
  it began.
* Follow-up: two overlapping submissions record two answers; a closing that fails part-way
  leaves a closed session whose survey is never planned; on 31 March the tasks of February
  are not looked at (`DueCatchesUp`), and two runs at once send a survey twice too.
* Accounts: a second invitation changes a member's role without the last-owner check; a
  suspension does not end sessions, whose role is a copy; several invitations may be
  pending; an invitation accepted after a suspension opens the account again, as the
  acceptance sets `Disabled` whatever it read (`OnlyStaleWritesRevert` lets it);
  a nested impersonation names the intermediate account.
* Invoicing: a rank whose counter answer is lost, or whose issue fails, numbers nothing:
  a gap, though `invoicing/invoice.go:248-249` says that no issue skips a rank (`LoseRank`;
  `Register` allows a rank that is never booked).
* Organisation: the provider's events are applied in the order of arrival; an edit of the
  identity can undo a change of plan (`OnlyStaleEditsUndo`).
* Catalogue: a correction may blank the goal or the assessment of a published course; a
  course created as published passes only `Validate`; a duplication or a deletion in the
  library may stop part-way; `QuizID` is not imported.
* Attribution: the session that is named may be of another course; `handleEnroll` checks
  neither publication nor whose file it is; a list that fails creates duplicates, and so
  does an organisation with more than 200 sessions, closed ones included, or more than 200
  files of a stage, where a lone request may miss what it looks for
  (`DuplicatesOnlyUnseen`); the funding of a new file is a put of the file that was read,
  so an enrolment meanwhile loses its link.
* Video: a lost answer of the encoder leaves a job without a card; a stale put may turn a
  ready card back to encoding, until it is read again.
* Quizzes: a save whose read failed may replace a published version; a publication may put
  a copy read before a save; a question with repeated expected options, or a true-or-false
  one with several, passes validation and cannot be answered right.
* People: an erased card accepts a new identity document; a stale correction restores
  erased data (`OnlyStaleWritesRestore`); notes, reminders and pieces outlive an erasure,
  which `crm/suivi.go:20-22` announces otherwise; a learner's file past the 500 latest of its
  stage is not listed, so neither an erasure nor an access is journalled on it
  (`ErasureExplained`); a piece is attached whether or not its file was ever deposited, and
  one attached twice under one key loses its object with the first deletion (`PiecesOpen`).

## 5. Proofs

Every property that a passing run checks has a theorem, for every value of the constants,
but the one that is about liveness (`RequestsEnd`). There is one module of proofs per module of the runs;
that of `Training` is in two, since `Learning` is by itself larger than the rest.

| Module | About | Run |
|---|---|---|
| `AuditLogProofs` | `AuditLog`, and that it implements `Ledger` | `audit_log` |
| `SignatureProofs` | `Signature` | `signature` |
| `CrmFileProofs`, `OfficeProofs` | `CrmFile`; `People`, `Organisation` | `office` |
| `LearningProofs`, `TrainingProofs` | `Learning` and `Coverage`; `FollowUp`, `Attendance` | `training` |
| `AdministrationProofs` | `Invoicing`, and that it implements `Register`; `Accounts` | `administration` |
| `TeachingProofs` | `Video`, `Quizzes`, `Catalogue`, `Attribution` | `teaching` |

### The journal

`AuditLogProofs` proves, for all subjects, requests, values,
attempts and horizons (the assumption is `ConstantsOK`), every safety property of the
run `audit_log`, three that are consequences of `AtomicLedger` for a reader of the two
tables and one about the loop, which have no run of their own:

| Theorem | Property |
|---|---|
| `TypeCorrect` | `TypeOK` |
| `ChainsStayIntact` | `ChainIntact` |
| `JournalOnlyGrows` | `AppendOnly` |
| `OnceOrNever` | `AllOrNothing` |
| `NoStateWithoutProvenance` | `StateMatchesJournal` |
| `ConflictsAreProgress` | `ConflictMeansProgress` |
| `LateStampsKeepOrder` | `LateStampsOrdered` |
| `ImplementsLedger` | `Spec => AtomicLedger` |

The argument. `ChainIntact` is not inductive: a commit appends to the event the request
*read*, which says nothing of the chain unless the read is still current. The
inductive invariant is `ChainInv == TypeOK /\ ChainIntact /\ PrevInJournal /\
AttemptsLeft`: a request about to write holds an event that is in the journal (or the
empty chain), so, if the next rank is free in a contiguous chain, what it read *is* the
last event. Lemma `CommitExtends` concludes that a commit appends exactly its batch;
all other theorems rest on it. `AllOrNothing` adds that ranks bear the request that
wrote them, `ConflictMeansProgress` that each conflict of a request that sets no condition
comes of an event that another committed request wrote since it read, and that its next
turn reads every event there is, so that no conflict is counted twice; `LateStampsOrdered` that events are stamped no earlier than those they
were built on. For the refinement, the journal of ranks is mapped to the sequence of
its entries, `main` to `state`; `Begin`, `ReadLast`, `Conflict`, `Fail` and `Tick`
stutter and `Commit` is `Ledger`'s `Record`.

### Progress and coverage

`LearningProofs` proves, for all handlers, signals, quizzes, durations and limits, every
property of `Learning` and `Coverage` in the run `training`:

| Theorem | Property |
|---|---|
| `TypeCorrect` | `TypeOK` |
| `CompletionsAreJournalled` | `CompletionJournalled` |
| `StaleCopiesOnlyForget` | `OnlyStaleCopiesForget` |
| `AttemptsAreJournalled` | `AttemptsJournalled` |
| `WatchIsEarned` | `WatchEarned` |
| `CompletionIsEarned` | `CompletionEarned` |
| `GapsAreExact` | `GapsExact` |

The assumptions are `CoverageConstants` (the duration, the segment and the rate are
positive integers, the tolerance a natural number) and `LearningConstants` (finitely many
handlers, signals with integer bounds, limits of attempts that are natural numbers). None of the
properties is inductive, because every write puts back what a handler read earlier; each
invariant therefore speaks of the stored item *and of every copy a handler holds*:

- `TypeInv` adds to `TypeOK` that a submission's number is allowed and at most one above
  the stored attempts (`NumberInOrder`): attempts are never removed, so a lagging count
  stays in order.
- `CompletionInv`: neither the enrollment nor a copy shows a validated module that the
  chain does not. The chain only grows, so a copy that was right stays right.
- `AttemptsInv`: each stored attempt is the event of highest rank under its number.
- `SlicesInv`: the slices of the record and of each copy were played by an accepted
  signal. A handler that has not applied its signal has had none accepted (`NotYet`),
  so what an accepted signal explains is never taken back.
- `TimeInv`: the bound of `WatchEarned` for the record and for each copy, `WithinTime`.
  An accepted signal adds at most the time since the last one at the fastest rate, plus
  one tolerance, and makes one more accepted signal (lemma `ListenedGrows`); a lost
  update only removes.
- `EarnedInv`: the enrollment and each copy show no more slices than were played and no
  pass that the chain does not hold (`Justified`), from which an event
  `module.completed` finds its quiz earlier in the chain.

`GapsExact` is about what a loop computes, for a bitmap of any length. The induction
theorems of the library cannot be used (they take an operator as a parameter), but the
well-foundedness of the natural numbers can: `NatLessThanWellFounded` and `WFMin` give a
least counterexample of any set of numbers. Lemma `CountingUp` turns that into: a set that
has 0, and with `i` has `i + 1` up to a bound, has every number up to the bound. It is
used twice: the loop of the code is a function (`ScanExists`, `ScanIs`), and each of its
prefixes has found what it should (`FoundBefore`, kept by one slice in `ScanStep`): the gaps
closed so far are in order, apart, and cover exactly the slices not seen before the one that is
still open.

### The other components

| Module | Theorem | Property |
|---|---|---|
| `CrmFileProofs` | `TypeCorrect` | `TypeOK` |
| | `ProofIsNeverOverstated` | `ProofNeverOverstates` |
| | `EnrollmentsAreJournalled` | `EnrollmentsJournalled` |
| | `OnlyPlainWritesDivergeEver` | `OnlyPlainWritesDiverge` |
| | `MovesAlwaysLeaveTheStage` | `MovesLeaveTheStage` |
| `SignatureProofs` | `SignaturesProveWhatTheySay` | `ProofInOrder` |
| | `OnlyStaleWritesReopenEver` | `OnlyStaleWritesReopen` |
| `OfficeProofs` (`People`) | `ErasuresAreExplained` | `ErasureExplained` |
| | `PiecesAlwaysOpen` | `PiecesOpen` |
| | `OnlyStaleWritesRestoreEver` | `OnlyStaleWritesRestore` |
| `OfficeProofs` (`Organisation`) | `PlansMoveForAReason` | `OnlyStaleEditsUndo` |
| `TrainingProofs` (`FollowUp`) | `TasksAlwaysFollowClosure` | `TasksFollowClosure` |
| | `ReturnsAlwaysAccounted` | `ReturnsAccounted` |
| | `DueAlwaysCatchesUp` | `DueCatchesUp` |
| | `OnlyRunsEverReopen` | `OnlyRunsReopen` |
| `TrainingProofs` (`Attendance`) | `SheetsAlwaysCover` | `SheetCoversSession` |
| | `PresencesAlwaysJournalled` | `PresencesJournalled` |
| | `SheetsAlwaysSettle` | `SheetSettles` |
| `AdministrationProofs` (`Invoicing`) | `DocumentsAreAsJournalled` | `NumberedAsJournalled` |
| | `NumbersLostByStaleWrites` | `OnlyStaleWritesForget` |
| | `ImplementsRegister` | `Spec => NumberedRegister` |
| `AdministrationProofs` (`Accounts`) | `AccountsAlwaysWhole` | `AccountsWhole` |
| | `OnlyStaleWritesEverRevert` | `OnlyStaleWritesRevert` |
| | `OnlyRacesEverLoseOwners` | `OnlyRacesLoseOwners` |
| `TeachingProofs` (`Video`) | `ReadyCardsAreEncoded` | `ReadyIsEncoded` |
| | `OnlyStaleCardsEncodeTwice` | `OnlyRacesEncodeTwice` |
| `TeachingProofs` (`Quizzes`) | `AttemptsAreOnReleases` | `GradedOnRelease` |
| | `OnlyRacesRewriteEver` | `OnlyRacesRewrite` |
| `TeachingProofs` (`Catalogue`) | `OnlyRacesEverPublishIncomplete` | `OnlyRacesPublishIncomplete` |
| | `OnlyStaleWritesEverRevert` | `OnlyStaleWritesRevert` |
| `TeachingProofs` (`Attribution`) | `DuplicatesOnlyEverUnseen` | `DuplicatesOnlyUnseen` |

The assumptions are `FileConstants` (there is a file, the stages include the two that the
code names, the absent value is none of the others), `SignatureConstants` (there is a
request, the limits are positive), `InvoicingConstants` (there is a document, a first
year, and the absent value is neither a number nor a document) and `PeopleConstants` (the
stages are a sequence that is not empty, rows and keys are told apart),
`OrganisationConstants` (the trial is a plan), `FollowUpConstants` (the calendar is a
sequence of days that their months have, not empty), `AttendanceConstants` (a session ends
after it starts), `AccountsConstants` (the accounts to start from are open, have passwords
and addresses of their own, and there is one), `CatalogueConstants` and
`AttributionConstants` (bounds are numbers, corrections are made of mentions). All of them
also tell the absent value from the others, as a missing item is told from an item in the
code, and the MC modules assume them, so that TLC evaluates each on an instance. `Video`
and `Quizzes` need none. What is stored is put back from copies, so the invariants are
again about the stored item and every copy a handler holds:

- `CrmFile`: `TypeInv /\ JobsInv /\ FilesInv /\ EnrolledInv`. The item, a copy, and the
  pieces that a display has computed but not saved are all `Backed` by the chain, which
  only grows. `DivergeInv`, for the stage: the moves of a chain have a last one (`HasTop`),
  and a file that shows another stage has a handler that brought it back (`Excuses`).
- `Signature`: `TypeInv /\ RequestsInv /\ JobsInv /\ SignedInv`. An item or a copy is
  `Sound` when the chain has the issue that gives it its end of validity, the code it
  waits for, and the signature it shows. A handler past the verification has in the
  chain, in order, an issue, a code and its acceptance (`Verified`), which is what its
  signature needs. `ReopenInv` adds that a signature on the chain of a request that is
  not signed is followed by a reopening write.
- `Organisation` (`OrgInv`): a handler that holds an event of the provider holds one
  that was signed; the record has a plan and a name of the lists.
- `FollowUp` (`BasicInv`): a task follows the closing, and has a mail and an event if it
  says so; a handler that closes has journalled every file it is done with, one that answers
  has a link to a mail that went out. All these facts only grow, so that a copy stays right
  however late it is put. Two facts are counts of another kind. `FreshInv`: the token of a
  mail that is not recorded yet is in no task and in no other handler, which is why a task
  is undone only by a run that records a mail of its own. `CountInv`: the mails to a learner are at least the
  events plus the handlers about to write one; without those handlers the bound is not
  inductive.
- `Attendance` (`AttendanceInv`, `NumbersInv`): every sheet, and every copy of one that a
  handler holds, has the slots of the session and, if it is countersigned, its event;
  presences and their events are in bijection, by slot and learner. What is billed is
  stated slot by slot, not as a sum of hours. That the loop over the days reaches the
  half-days it should for sessions of any length is arithmetic on quarters of an hour
  (`SheetCoversSession`).
- `Accounts` (`AccountsInv`): what a table refers to exists; every record, stored or about
  to be put, `Fits` its account: the address and the organisation it has now, a password
  that is missing only from a closed account and comes from an invitation of that account
  that is used up. Since no write moves an address, pointers stay right.
- `Quizzes` (`QuizInv`): what the stored versions, the lagging list and the pages of
  learners show as published was released under that number; a save that was checked was
  checked on an editable version.
- `Catalogue` (`CatalogueInv`): a handler about to publish holds a copy that it checked, and
  one about to put a copy that differs from it only by what it is about.
- `Attribution` (`AttributionInv`): a handler about to open a session, or a file, was shown
  none that fits, among what its page showed as it is; sessions only close, and each change
  of a file is counted, by the enrolments of its journal or by `undone` (`Changes`).
- `Video`: the card and every copy of it are `Truthful` about the job they name. A
  job that ended keeps its outcome, so a stale card is late and never wrong.
- `Invoicing`: `TypeInv /\ PapersInv /\ RanksInv /\ OwnersInv`. Every paper, stored or
  copied, is as its number is journalled; a rank that is taken and not yet journalled is at
  most the counter, is in no entry, and is held by one handler; a number is
  borne by one identifier. `RanksInv` is what the refinement needs: `TakeRank` and
  `LoseRank` are `Register`'s `Take`, `PutIssued` its `Book`, the rest stutters.
- `People`: `TypeInv /\ CardInv /\ JobsInv /\ JournalInv /\ PiecesInv`. While an
  erasure lists the stages, each file that stays in its place is still ahead or among
  those met, or was past its page (`Listing`); while it records, each is still to do or
  explained. A key under which a file was deposited has its object, or a deletion that
  removed it (`Removed`).

Only model-checked: `RequestsEnd`, since liveness is out of this prover's reach; what the
violations show, which are counterexamples; and `RightAsSets`, an assertion on grading that TLC
evaluates over all small answers (the sort of `Normalize` is a library operator with no
theorem about it; `GradedOnRelease` and `OnlyRacesRewrite` do not depend on it).

## 6. What is not modelled

Cryptography, PDF and time-stamp formats, mail wording, request parsing, and the
interface, which keep no state the properties relate. The layout of documents, exports,
the annual report, the brand and the mail templates are formatting of what is stored, or
single writes. The import of contacts creates them row by row, each by itself; checkout
links, usage counters, pages and searches read or count without an invariant that relates
them to other state. The audit table is taken to be append-only as its IAM policy says
(`infra/lib/compute-stack.ts:169-199`), single reads to be strongly consistent as the calls
ask for; queries and secondary indexes lag wherever a decision rests on them.
