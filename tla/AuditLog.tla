------------------------------ MODULE AuditLog ------------------------------
(***************************************************************************)
(* The hash-chained audit journal and the transaction every probative      *)
(* write of the product goes through                                       *)
(* (platform/ddb/audit_store.go, platform/audit/audit.go).                 *)
(*                                                                         *)
(* A request is one HTTP request served by one Lambda instance: it captures*)
(* its business write and its clock, then runs WriteWithAuditChain: read   *)
(* the subject's last event, build the next one(s) from it, commit item and*)
(* events in one TransactWriteItems, and start over on a conflict, at most *)
(* MaxAttempts times.  Requests interleave at every store call, may crash  *)
(* between two calls and may lose the answer of a committed transaction.   *)
(*                                                                         *)
(* Abstractions.  DynamoDB is two tables with atomic conditional           *)
(* transactions and strongly consistent reads, as the calls ask for.       *)
(* SHA-256 is injective: a hash is the tuple of what it is computed from.  *)
(* A subject has one business item; an event's payload is the value the    *)
(* batch writes, or Absent when it writes none.                            *)
(***************************************************************************)
EXTENDS Naturals, Sequences, FiniteSets

CONSTANTS
    Subjects,      \* audited things, each with its chain and its item
    Requests,      \* requests, each served at most once
    Values,        \* values of a business item
    Absent,        \* no item
    Shapes,        \* the kinds of calls allowed, a subset of AllShapes
    MaxAttempts,   \* maxAuditAttempts
    Horizon        \* bound on the clock, in ticks

\* The shapes of the callers: "create" is a write on attribute_not_exists,
\* "move" a write conditioned on the value read before, "save" an
\* unconditional write, "submit" an unconditional write with two linked
\* events, "record" an event alone, "org" an event alone whose time is taken
\* when the event is built.
AllShapes == {"create", "move", "save", "submit", "record", "org"}

ASSUME ConstantsOK == /\ Subjects # {}
                      /\ Absent \notin Values
                      /\ Shapes \subseteq AllShapes
                      /\ MaxAttempts \in Nat \ {0}
                      /\ Horizon \in Nat

VARIABLES
    clock,     \* the servers' clock
    main,      \* main[s]: the item of s in the main table
    journal,   \* journal[s]: the audit table's partition of s, rank -> event
    req,       \* req[r]: where request r is in its handler
    prev       \* prev[r]: the last event, as r read it

vars == <<clock, main, journal, req, prev>>

Item == Values \cup {Absent}
Finished == {"ok", "lost", "conflict", "failed"}

-----------------------------------------------------------------------------
(* Events and chains: audit.go *)

GenesisHash == <<>>

ComputeHash(e) == <<e.prevHash, e.seq, e.at, e.by, e.part, e.value>>

\* The zero Event, what LastAuditEvent answers for an empty chain.
NoEvent == [seq |-> 0, at |-> 0, hash |-> GenesisHash]

\* The event that follows last in the chain.
NextEvent(last, r, part, at, value) ==
    LET e == [seq |-> last.seq + 1, at |-> at, by |-> r, part |-> part,
              value |-> value, prevHash |-> last.hash, hash |-> GenesisHash]
    IN  [e EXCEPT !.hash = ComputeHash(e)]

Highest(ranks) == CHOOSE k \in ranks : \A j \in ranks : j <= k

Height(s) == IF DOMAIN journal[s] = {} THEN 0 ELSE Highest(DOMAIN journal[s])

\* The conditions Verify checks on the chain of s, each on its own.
Contiguous(s) == DOMAIN journal[s] = 1 .. Height(s)

Linked(s) == \A k \in DOMAIN journal[s] :
                 journal[s][k].prevHash = IF k = 1 THEN GenesisHash
                                                   ELSE journal[s][k - 1].hash

Unaltered(s) == \A k \in DOMAIN journal[s] :
                    /\ journal[s][k].seq = k
                    /\ journal[s][k].hash = ComputeHash(journal[s][k])

Chronological(s) == \A k \in DOMAIN journal[s] :
                        k > 1 => journal[s][k - 1].at <= journal[s][k].at

Verify(s) == Contiguous(s) /\ Linked(s) /\ Unaltered(s) /\ Chronological(s)

-----------------------------------------------------------------------------
(* The transaction *)

\* Strongly consistent query of the highest rank.
LastAuditEvent(s) == IF DOMAIN journal[s] = {} THEN NoEvent ELSE journal[s][Height(s)]

\* The events the build function of r returns on the event it was handed.
First(r) == NextEvent(prev[r], r, 1, req[r].at, req[r].value)

\* Faulty: both events of a submission built on the event that was read.
FaultySecond(r) == NextEvent(prev[r], r, 2, req[r].at, req[r].value)

Second(r) == NextEvent(First(r), r, 2, req[r].at, req[r].value)

Batch(r) == IF req[r].shape = "submit" THEN <<First(r), Second(r)>> ELSE <<First(r)>>

\* The ranks the batch takes, each written only if it is free.
Ranks(r) == prev[r].seq + 1 .. prev[r].seq + Len(Batch(r))

RankFree(r) == Ranks(r) \cap DOMAIN journal[req[r].subject] = {}

ConditionHolds(r) == main[req[r].subject] \in req[r].allowed

\* The partition of s once the batch of r is in it.
Extended(r, s) == [k \in DOMAIN journal[s] \cup Ranks(r) |->
                      IF k \in Ranks(r) THEN Batch(r)[k - prev[r].seq] ELSE journal[s][k]]

\* The item and the events, all or nothing.
PutAll(r) ==
    LET s == req[r].subject
    IN  /\ main' = IF req[r].value = Absent THEN main
                   ELSE [main EXCEPT ![s] = req[r].value]
        /\ journal' = [journal EXCEPT ![s] = Extended(r, s)]

-----------------------------------------------------------------------------
(* The steps of a request *)

\* A request with no local state: not begun, or dead.
Blank(pc) == [pc |-> pc, subject |-> CHOOSE s \in Subjects : TRUE, shape |-> "record",
              allowed |-> {}, value |-> Absent, at |-> 0, attempt |-> 0]

Init == /\ clock = 0
        /\ main = [s \in Subjects |-> Absent]
        /\ journal = [s \in Subjects |-> <<>>]
        /\ req = [r \in Requests |-> Blank("idle")]
        /\ prev = [r \in Requests |-> NoEvent]

\* The states the item may be in for the write of a shape to go through.
Allowed(shape, s) == CASE shape = "create" -> {Absent}
                       [] shape = "move"   -> {main[s]}
                       [] OTHER            -> Item

\* The handler has read what it needs, taken its time and prepared its write.
\* "move" starts from an item that exists and changes it.
Begin(r, s, shape, v) ==
    /\ req[r].pc = "idle"
    /\ shape \in {"record", "org"} <=> v = Absent
    /\ shape = "move" => main[s] \notin {Absent, v}
    /\ req' = [req EXCEPT ![r] = [pc |-> "read", subject |-> s, shape |-> shape,
                                  allowed |-> Allowed(shape, s), value |-> v,
                                  at |-> clock, attempt |-> 0]]
    /\ UNCHANGED <<clock, main, journal, prev>>

\* Faulty: AuditOrg takes the time before it calls WriteWithAudit.
FaultyEarlyStamp(r) ==
    /\ req[r].pc = "read"
    /\ prev' = [prev EXCEPT ![r] = LastAuditEvent(req[r].subject)]
    /\ req' = [req EXCEPT ![r].pc = "write"]
    /\ UNCHANGED <<clock, main, journal>>

\* One turn of the loop: the last event, and the batch built on it.
ReadLast(r) ==
    /\ req[r].pc = "read"
    /\ prev' = [prev EXCEPT ![r] = LastAuditEvent(req[r].subject)]
    /\ req' = [req EXCEPT ![r].pc = "write",
                          ![r].at = IF req[r].shape = "org" THEN clock ELSE @]
    /\ UNCHANGED <<clock, main, journal>>

\* TransactWriteItems commits; the answer reaches the request or is lost.
Commit(r, outcome) ==
    /\ req[r].pc = "write"
    /\ RankFree(r) /\ ConditionHolds(r)
    /\ PutAll(r)
    /\ req' = [req EXCEPT ![r].pc = outcome]
    /\ UNCHANGED <<clock, prev>>

\* Where a conflict leads: another turn, or the end of the attempts.
AfterConflict(r) == IF req[r].attempt + 1 < MaxAttempts THEN "read" ELSE "conflict"

\* Faulty: the attempts are not counted.
FaultyEndless(r) ==
    /\ req[r].pc = "write"
    /\ ~ (RankFree(r) /\ ConditionHolds(r))
    /\ req' = [req EXCEPT ![r].pc = AfterConflict(r)]
    /\ UNCHANGED <<clock, main, journal, prev>>

\* A condition failed, on a rank or on the item: the code cannot tell which
\* and starts over, up to the last attempt.
Conflict(r) ==
    /\ req[r].pc = "write"
    /\ ~ (RankFree(r) /\ ConditionHolds(r))
    /\ req' = [req EXCEPT ![r].pc = AfterConflict(r), ![r].attempt = @ + 1]
    /\ UNCHANGED <<clock, main, journal, prev>>

\* Faulty: the same two calls, with a crash between them.
FaultyHalfDone(r) ==
    /\ req[r].pc \in {"read", "write"}
    /\ main' = IF req[r].pc = "write" /\ req[r].value # Absent
               THEN [main EXCEPT ![req[r].subject] = req[r].value] ELSE main
    /\ req' = [req EXCEPT ![r] = Blank("failed")]
    /\ prev' = [prev EXCEPT ![r] = NoEvent]
    /\ UNCHANGED <<clock, journal>>

\* Any other error of the store (throttling, another transaction in progress on
\* the same items, a network failure before the commit) ends the request at
\* once, and so does the death of its instance.  Nothing of it remains.
Fail(r) ==
    /\ req[r].pc \in {"read", "write"}
    /\ req' = [req EXCEPT ![r] = Blank("failed")]
    /\ prev' = [prev EXCEPT ![r] = NoEvent]
    /\ UNCHANGED <<clock, main, journal>>

Tick == /\ clock < Horizon
        /\ clock' = clock + 1
        /\ UNCHANGED <<main, journal, req, prev>>

Transact(r) == Commit(r, "ok") \/ Commit(r, "lost") \/ Conflict(r)

Next == \/ Tick
        \/ \E r \in Requests :
              \/ \E s \in Subjects, shape \in Shapes, v \in Item : Begin(r, s, shape, v)
              \/ ReadLast(r)
              \/ Transact(r)
              \/ Fail(r)

\* A handler that runs goes on to its end; nothing forces a failure or a request
\* to come in.
Fairness == \A r \in Requests : WF_vars(ReadLast(r) \/ Transact(r))

Spec == Init /\ [][Next]_vars

FairSpec == Spec /\ Fairness

-----------------------------------------------------------------------------
(* Properties *)

Request == [pc : {"idle", "read", "write"} \cup Finished, subject : Subjects,
            shape : AllShapes, allowed : SUBSET Item, value : Item, at : Nat,
            attempt : 0 .. MaxAttempts]

\* The tables hold items and numbered events, and a request is never on an
\* attempt beyond maxAuditAttempts.
TypeOK ==
    /\ clock \in 0 .. Horizon
    /\ main \in [Subjects -> Item]
    /\ DOMAIN journal = Subjects
    /\ req \in [Requests -> Request]
    /\ DOMAIN prev = Requests
    /\ \A s \in Subjects : Height(s) \in Nat
    /\ \A r \in Requests : prev[r].seq \in Nat

\* Every subject's chain has the ranks 1..n without a gap, each event is sealed
\* by its own hash and holds the hash of the event before it, whatever writers
\* raced on it (audit_store.go:124-127, audit.go:181-198).
ChainIntact == \A s \in Subjects : Contiguous(s) /\ Linked(s) /\ Unaltered(s)

\* No state without its provenance (audit_store.go:38-41): the item of a
\* subject is what the last event that wrote it says, and Absent when no event
\* wrote it.
Writes(s) == {k \in DOMAIN journal[s] : journal[s][k].value # Absent}

StateMatchesJournal ==
    \A s \in Subjects : main[s] = IF Writes(s) = {} THEN Absent
                                  ELSE journal[s][Highest(Writes(s))].value

\* Whatever is retried, a request leaves its events once and together: all of
\* them at consecutive ranks if it committed, even if the answer was lost, and
\* none if it was refused, failed or died.
RanksOf(r, s) == {k \in DOMAIN journal[s] : journal[s][k].by = r}

AllOrNothing ==
    \A r \in Requests, s \in Subjects :
        RanksOf(r, s) = IF req[r].pc \in {"ok", "lost"} /\ s = req[r].subject
                        THEN Ranks(r) ELSE {}

\* A conflict is paid for by somebody else's success, each by another one: a write that
\* carries no business condition is refused only for an event which a request that
\* committed wrote since this turn of the loop read, and the next turn reads that event,
\* so that it gives up only after MaxAttempts successes (audit_store.go:105-148).
Overtaken(r) ==
    \E k \in DOMAIN journal[req[r].subject] :
        /\ k > prev[r].seq
        /\ req[journal[req[r].subject][k].by].pc \in {"ok", "lost"}
        /\ journal[req[r].subject][k].by # r

ReadsAll(r) == \A k \in DOMAIN journal[req[r].subject] : k <= prev'[r].seq

ConflictMeansProgress ==
    [][\A r \in Requests :
          /\ (req'[r].attempt = req[r].attempt + 1 /\ req[r].allowed = Item) => Overtaken(r)
          /\ (req[r].pc = "read" /\ req'[r].pc = "write") => ReadsAll(r)]_vars

\* A chain whose events all took their time while being built (AuditOrg) is in
\* the order of its timestamps, whatever raced on it.
LateStampsOrdered ==
    \A s \in Subjects :
        (\A k \in DOMAIN journal[s] : req[journal[s][k].by].shape = "org")
            => Chronological(s)

\* The journal only grows and the item of a subject changes only with it: no
\* step rewrites or removes an event, and a step that changes an item appends
\* to the chain of that item (audit_store.go:35-45).
AppendOnly ==
    [][\A s \in Subjects :
          /\ DOMAIN journal[s] \subseteq DOMAIN journal'[s]
          /\ \A k \in DOMAIN journal[s] : journal'[s][k] = journal[s][k]
          /\ main'[s] # main[s] => DOMAIN journal'[s] # DOMAIN journal[s]]_vars

\* A request that reached the journal always ends: the retries are bounded even
\* when its business condition will never hold again.  As each request is served at
\* most once, there comes a time from which none is in its loop any more.
RequestsEnd == <>[](\A r \in Requests : req[r].pc \in {"idle"} \cup Finished)

\* What a reader of the two tables sees, without ranks, hashes and times.
Entry(e) == [by |-> e.by, part |-> e.part, value |-> e.value]

L == INSTANCE Ledger WITH
         log <- [s \in Subjects |-> [k \in DOMAIN journal[s] |-> Entry(journal[s][k])]],
         state <- main

\* The read, build, commit and retry loop implements one atomic, at most once,
\* journalled write per request.
AtomicLedger == L!Spec
=============================================================================
