--------------------------- MODULE AuditLogProofs ---------------------------
(***************************************************************************)
(* Proofs that AuditLog keeps its invariants and implements Ledger, for    *)
(* every set of subjects, requests and values, every number of attempts    *)
(* and every horizon.                                                      *)
(***************************************************************************)
EXTENDS AuditLog, SequenceTheorems, TLAPS

-----------------------------------------------------------------------------
(* The inductive invariant *)

\* What a request read is still in the journal, and still the event it read.
PrevInJournal ==
    \A r \in Requests, s \in Subjects :
        req[r].pc = "write" /\ req[r].subject = s =>
            /\ prev[r].seq <= Height(s)
            /\ prev[r] = IF prev[r].seq = 0 THEN NoEvent ELSE journal[s][prev[r].seq]

\* A request still in its loop has attempts left.
AttemptsLeft == \A r \in Requests : req[r].pc \in {"idle", "read", "write"} =>
                                      req[r].attempt < MaxAttempts

ChainInv == TypeOK /\ ChainIntact /\ PrevInJournal /\ AttemptsLeft

-----------------------------------------------------------------------------
(* Ranks *)

LEMMA HighestOfInterval ==
    ASSUME NEW n \in Nat, n # 0
    PROVE  Highest(1 .. n) = n
<1>1. /\ n \in 1 .. n
      /\ \A j \in 1 .. n : j <= n
  OBVIOUS
<1>2. \A k \in 1 .. n : (\A j \in 1 .. n : j <= k) => k = n
  OBVIOUS
<1> QED BY <1>1, <1>2 DEF Highest

\* A chain whose ranks are 1..n has height n.
LEMMA HeightOfInterval ==
    ASSUME NEW s, NEW n \in Nat, DOMAIN journal[s] = 1 .. n
    PROVE  Height(s) = n
<1>1. CASE n = 0
  BY <1>1 DEF Height
<1>2. CASE n # 0
  <2>1. 1 \in 1 .. n
    BY <1>2
  <2> QED BY <1>2, <2>1, HighestOfInterval DEF Height
<1> QED BY <1>1, <1>2

\* The same fact of the next state.
LEMMA HeightOfIntervalNext ==
    ASSUME NEW s, NEW n \in Nat, DOMAIN journal'[s] = 1 .. n
    PROVE  Height(s)' = n
<1>1. CASE n = 0
  BY <1>1 DEF Height
<1>2. CASE n # 0
  <2>1. 1 \in 1 .. n
    BY <1>2
  <2> QED BY <1>2, <2>1, HighestOfInterval DEF Height
<1> QED BY <1>1, <1>2

\* A batch holds one or two events, the first one linked to what was read.
LEMMA BatchShape ==
    ASSUME NEW r \in Requests, prev[r].seq \in Nat
    PROVE  /\ Len(Batch(r)) \in {1, 2}
           /\ DOMAIN Batch(r) = 1 .. Len(Batch(r))
           /\ Len(Batch(r)) = IF req[r].shape = "submit" THEN 2 ELSE 1
           /\ Batch(r)[1] = First(r)
           /\ req[r].shape = "submit" => Batch(r)[2] = Second(r)
<1>1. CASE req[r].shape = "submit"
  <2>1. Batch(r) = <<First(r), Second(r)>>
    BY <1>1 DEF Batch
  <2> HIDE DEF First, Second
  <2> QED BY <1>1, <2>1
<1>2. CASE req[r].shape # "submit"
  <2>1. Batch(r) = <<First(r)>>
    BY <1>2 DEF Batch
  <2> QED BY <1>2, <2>1
<1> QED BY <1>1, <1>2

LEMMA EventFields ==
    ASSUME NEW last, NEW r, NEW part, NEW at, NEW value
    PROVE  LET e == NextEvent(last, r, part, at, value)
           IN  /\ e.seq = last.seq + 1
               /\ e.by = r
               /\ e.part = part
               /\ e.at = at
               /\ e.value = value
               /\ e.prevHash = last.hash
               /\ e.hash = ComputeHash(e)
BY DEF NextEvent, ComputeHash

\* A batch whose ranks are free starts right above the last event of its chain.
LEMMA FreeRanksAreNext ==
    ASSUME ChainInv, NEW r \in Requests, NEW s, s = req[r].subject,
           req[r].pc = "write", RankFree(r)
    PROVE  /\ s \in Subjects
           /\ Height(s) \in Nat
           /\ DOMAIN journal[s] = 1 .. Height(s)
           /\ prev[r].seq = Height(s)
           /\ Ranks(r) = Height(s) + 1 .. Height(s) + Len(Batch(r))
<1>1. s \in Subjects /\ Height(s) \in Nat /\ prev[r].seq \in Nat
  BY DEF ChainInv, TypeOK, Request
<1>2. DOMAIN journal[s] = 1 .. Height(s)
  BY <1>1 DEF ChainInv, ChainIntact, Contiguous
<1>3. prev[r].seq <= Height(s)
  BY <1>1 DEF ChainInv, PrevInJournal
<1>4. PICK m \in {1, 2} : m = Len(Batch(r))
  BY <1>1, BatchShape
<1>5. prev[r].seq + 1 \in Ranks(r)
  BY <1>1, <1>4 DEF Ranks
<1>6. prev[r].seq + 1 \notin 1 .. Height(s)
  BY <1>2, <1>5 DEF RankFree
<1>7. prev[r].seq = Height(s)
  BY <1>1, <1>3, <1>6
<1> QED BY <1>1, <1>2, <1>7 DEF Ranks

\* The new partition: the old events at their ranks, the batch above them.
LEMMA CommitExtends ==
    ASSUME ChainInv, NEW r \in Requests, NEW outcome, Commit(r, outcome),
           NEW s, s = req[r].subject, NEW n, n = Height(s), NEW m, m = Len(Batch(r))
    PROVE  /\ s \in Subjects
           /\ n \in Nat
           /\ m = IF req[r].shape = "submit" THEN 2 ELSE 1
           /\ prev[r].seq = n
           /\ Ranks(r) = n + 1 .. n + m
           /\ DOMAIN journal[s] = 1 .. n
           /\ DOMAIN journal' = Subjects
           /\ \A t \in Subjects : t # s => journal'[t] = journal[t] /\ Height(t)' = Height(t)
           /\ DOMAIN journal'[s] = 1 .. n + m
           /\ Height(s)' = n + m
           /\ \A k \in 1 .. n : journal'[s][k] = journal[s][k]
           /\ journal'[s][n + 1] = First(r)
           /\ req[r].shape = "submit" => journal'[s][n + 2] = Second(r)
<1>1. /\ s \in Subjects /\ n \in Nat
      /\ DOMAIN journal[s] = 1 .. n
      /\ prev[r].seq = n
      /\ Ranks(r) = n + 1 .. n + m
  BY FreeRanksAreNext DEF Commit
<1>2. /\ m \in {1, 2}
      /\ m = IF req[r].shape = "submit" THEN 2 ELSE 1
      /\ Batch(r)[1] = First(r)
      /\ req[r].shape = "submit" => Batch(r)[2] = Second(r)
  BY <1>1, BatchShape
<1>3. DOMAIN journal = Subjects
  BY DEF ChainInv, TypeOK
<1>4. journal' = [journal EXCEPT ![s] = Extended(r, s)]
  BY DEF Commit, PutAll
<1>5. DOMAIN journal' = Subjects /\ journal'[s] = Extended(r, s)
  BY <1>1, <1>3, <1>4
<1>6. ASSUME NEW t \in Subjects, t # s
      PROVE  journal'[t] = journal[t] /\ Height(t)' = Height(t)
  <2>1. journal'[t] = journal[t]
    BY <1>3, <1>4, <1>6
  <2> QED BY <2>1 DEF Height
<1>7. DOMAIN journal'[s] = (1 .. n) \cup (n + 1 .. n + m)
  BY <1>1, <1>5 DEF Extended
<1>8. DOMAIN journal'[s] = 1 .. n + m
  BY <1>1, <1>2, <1>7
<1>9. Height(s)' = n + m
  <2>1. n + m \in Nat
    BY <1>1, <1>2
  <2> QED BY <1>8, <2>1, HeightOfIntervalNext
<1>10. ASSUME NEW k \in 1 .. n
       PROVE  journal'[s][k] = journal[s][k]
  <2>1. k \notin Ranks(r)
    BY <1>1
  <2> QED BY <1>1, <1>5, <2>1 DEF Extended
<1>11. journal'[s][n + 1] = First(r)
  <2>1. n + 1 \in Ranks(r) /\ (n + 1) - prev[r].seq = 1
    BY <1>1, <1>2
  <2>2. journal'[s][n + 1] = Batch(r)[(n + 1) - prev[r].seq]
    BY <1>5, <2>1 DEF Extended
  <2> QED BY <1>2, <2>1, <2>2
<1>12. ASSUME req[r].shape = "submit"
       PROVE  journal'[s][n + 2] = Second(r)
  <2>1. n + 2 \in Ranks(r) /\ (n + 2) - prev[r].seq = 2
    BY <1>1, <1>2, <1>12
  <2>2. journal'[s][n + 2] = Batch(r)[(n + 2) - prev[r].seq]
    BY <1>5, <2>1 DEF Extended
  <2> QED BY <1>2, <1>12, <2>1, <2>2
<1> QED BY <1>1, <1>2, <1>5, <1>6, <1>8, <1>9, <1>10, <1>11, <1>12

-----------------------------------------------------------------------------
(* Each step keeps the chains and what the requests know of them *)

\* A step that leaves the journal alone leaves every chain as it was.
LEMMA JournalKept ==
    ASSUME TypeOK, ChainIntact, UNCHANGED journal
    PROVE  /\ DOMAIN journal' = Subjects
           /\ \A s \in Subjects : Height(s)' \in Nat /\ Height(s)' = Height(s)
           /\ ChainIntact'
<1>1. \A s : Height(s)' = Height(s)
  BY DEF Height
<1>2. \A s : /\ Contiguous(s)' = Contiguous(s)
             /\ Linked(s)' = Linked(s)
             /\ Unaltered(s)' = Unaltered(s)
  BY <1>1 DEF Contiguous, Linked, Unaltered
<1> QED BY <1>1, <1>2 DEF TypeOK, ChainIntact

LEMMA TickInv ==
    ASSUME ChainInv, Tick
    PROVE  ChainInv'
<1>1. /\ DOMAIN journal' = Subjects
      /\ \A s \in Subjects : Height(s)' \in Nat /\ Height(s)' = Height(s)
      /\ ChainIntact'
  BY JournalKept DEF ChainInv, Tick
<1>2. TypeOK'
  <2>1. clock' \in 0 .. Horizon
    BY ConstantsOK DEF Tick, ChainInv, TypeOK
  <2> QED BY <1>1, <2>1 DEF Tick, ChainInv, TypeOK
<1>3. PrevInJournal'
  BY <1>1 DEF Tick, ChainInv, TypeOK, PrevInJournal, Request
<1>4. AttemptsLeft'
  BY DEF Tick, ChainInv, AttemptsLeft
<1> QED BY <1>1, <1>2, <1>3, <1>4 DEF ChainInv

LEMMA BeginInv ==
    ASSUME ChainInv, NEW r \in Requests, NEW s \in Subjects, NEW shape \in Shapes,
           NEW v \in Item, Begin(r, s, shape, v)
    PROVE  ChainInv'
<1>1. /\ DOMAIN journal' = Subjects
      /\ \A t \in Subjects : Height(t)' \in Nat /\ Height(t)' = Height(t)
      /\ ChainIntact'
  BY JournalKept DEF ChainInv, Begin
<1>2. Allowed(shape, s) \in SUBSET Item
  BY DEF Allowed, ChainInv, TypeOK, Item
<1>3. req' \in [Requests -> Request]
  <2>1. [pc |-> "read", subject |-> s, shape |-> shape, allowed |-> Allowed(shape, s),
         value |-> v, at |-> clock, attempt |-> 0] \in Request
    BY <1>2, ConstantsOK DEF Request, ChainInv, TypeOK
  <2> QED BY <2>1 DEF Begin, ChainInv, TypeOK
<1>4. TypeOK'
  BY <1>1, <1>3 DEF Begin, ChainInv, TypeOK
<1>5. PrevInJournal'
  <2>1. \A q \in Requests : q # r => req'[q] = req[q]
    BY DEF Begin, ChainInv, TypeOK
  <2>2. req'[r].pc = "read"
    BY DEF Begin, ChainInv, TypeOK
  <2> QED BY <1>1, <2>1, <2>2 DEF Begin, ChainInv, PrevInJournal
<1>6. AttemptsLeft'
  <2>1. req'[r].attempt = 0 /\ \A q \in Requests : q # r => req'[q] = req[q]
    BY DEF Begin, ChainInv, TypeOK
  <2> QED BY <2>1, ConstantsOK DEF ChainInv, AttemptsLeft
<1> QED BY <1>1, <1>4, <1>5, <1>6 DEF ChainInv

LEMMA ReadLastInv ==
    ASSUME ChainInv, NEW r \in Requests, ReadLast(r)
    PROVE  ChainInv'
<1>1. /\ DOMAIN journal' = Subjects
      /\ \A t \in Subjects : Height(t)' \in Nat /\ Height(t)' = Height(t)
      /\ ChainIntact'
  BY JournalKept DEF ChainInv, ReadLast
<1>2. req' \in [Requests -> Request]
  <2>1. clock \in Nat
    BY ConstantsOK DEF ChainInv, TypeOK
  <2> QED BY <2>1 DEF ReadLast, ChainInv, TypeOK, Request
<1>3. PICK s \in Subjects : s = req[r].subject
  BY DEF ChainInv, TypeOK, Request
<1>4. /\ LastAuditEvent(s).seq = Height(s)
      /\ Height(s) \in Nat
      /\ LastAuditEvent(s) = IF Height(s) = 0 THEN NoEvent ELSE journal[s][Height(s)]
  <2>1. Height(s) \in Nat /\ DOMAIN journal[s] = 1 .. Height(s)
    BY DEF ChainInv, TypeOK, ChainIntact, Contiguous
  <2>2. CASE Height(s) = 0
    <3>1. DOMAIN journal[s] = {}
      BY <2>1, <2>2
    <3> QED BY <2>2, <3>1 DEF LastAuditEvent, NoEvent
  <2>3. CASE Height(s) # 0
    <3>1. Height(s) \in DOMAIN journal[s]
      BY <2>1, <2>3
    <3>2. journal[s][Height(s)].seq = Height(s)
      BY <3>1 DEF ChainInv, ChainIntact, Unaltered
    <3> QED BY <2>1, <2>3, <3>1, <3>2 DEF LastAuditEvent
  <2> QED BY <2>1, <2>2, <2>3
<1>5. /\ DOMAIN prev' = Requests
      /\ prev'[r] = LastAuditEvent(s)
      /\ \A q \in Requests : q # r => prev'[q] = prev[q]
  BY <1>3 DEF ReadLast, ChainInv, TypeOK
<1>6. /\ req'[r].subject = s
      /\ \A q \in Requests : q # r => req'[q] = req[q]
  BY <1>3 DEF ReadLast, ChainInv, TypeOK, Request
<1>7. TypeOK'
  <2>1. \A q \in Requests : prev'[q].seq \in Nat
    BY <1>4, <1>5 DEF ChainInv, TypeOK
  <2> QED BY <1>1, <1>2, <1>5, <2>1 DEF ReadLast, ChainInv, TypeOK
<1>8. PrevInJournal'
  <2>1. \A t \in Subjects : journal'[t] = journal[t]
    BY DEF ReadLast
  <2>2. ASSUME NEW q \in Requests, NEW t \in Subjects,
               req'[q].pc = "write", req'[q].subject = t
        PROVE  /\ prev'[q].seq <= Height(t)'
               /\ prev'[q] = IF prev'[q].seq = 0 THEN NoEvent ELSE journal'[t][prev'[q].seq]
    <3>1. CASE q = r
      BY <1>1, <1>4, <1>5, <1>6, <2>1, <2>2, <3>1
    <3>2. CASE q # r
      BY <1>1, <1>5, <1>6, <2>1, <2>2, <3>2 DEF ChainInv, PrevInJournal
    <3> QED BY <3>1, <3>2
  <2> QED BY <2>2 DEF PrevInJournal
<1>9. AttemptsLeft'
  BY DEF ReadLast, ChainInv, TypeOK, Request, AttemptsLeft
<1> QED BY <1>1, <1>7, <1>8, <1>9 DEF ChainInv

LEMMA ConflictInv ==
    ASSUME ChainInv, NEW r \in Requests, Conflict(r)
    PROVE  ChainInv'
<1>1. /\ DOMAIN journal' = Subjects
      /\ \A t \in Subjects : Height(t)' \in Nat /\ Height(t)' = Height(t)
      /\ ChainIntact'
  BY JournalKept DEF ChainInv, Conflict
<1>2. /\ req'[r].pc \in {"read", "conflict"}
      /\ \A q \in Requests : q # r => req'[q] = req[q]
  BY DEF Conflict, AfterConflict, ChainInv, TypeOK, Request
<1>3. req' \in [Requests -> Request]
  <2>1. req[r].attempt + 1 \in 0 .. MaxAttempts
    BY ConstantsOK DEF Conflict, ChainInv, TypeOK, Request, AttemptsLeft
  <2> QED BY <2>1 DEF Conflict, AfterConflict, ChainInv, TypeOK, Request, Finished
<1>4. TypeOK'
  BY <1>1, <1>3 DEF Conflict, ChainInv, TypeOK
<1>5. PrevInJournal'
  <2>1. \A t \in Subjects : journal'[t] = journal[t]
    BY DEF Conflict
  <2>2. \A q \in Requests : prev'[q] = prev[q]
    BY DEF Conflict
  <2>3. ASSUME NEW q \in Requests, NEW t \in Subjects,
               req'[q].pc = "write", req'[q].subject = t
        PROVE  /\ prev'[q].seq <= Height(t)'
               /\ prev'[q] = IF prev'[q].seq = 0 THEN NoEvent ELSE journal'[t][prev'[q].seq]
    <3>1. q # r
      BY <1>2, <2>3
    <3> QED BY <1>1, <1>2, <2>1, <2>2, <2>3, <3>1 DEF ChainInv, PrevInJournal
  <2> QED BY <2>3 DEF PrevInJournal
<1>6. AttemptsLeft'
  <2>1. req'[r].pc = "read" => req'[r].attempt < MaxAttempts
    BY DEF Conflict, AfterConflict, ChainInv, TypeOK, Request
  <2> QED BY <1>2, <2>1 DEF ChainInv, AttemptsLeft
<1> QED BY <1>1, <1>4, <1>5, <1>6 DEF ChainInv

LEMMA FailInv ==
    ASSUME ChainInv, NEW r \in Requests, Fail(r)
    PROVE  ChainInv'
<1>1. /\ DOMAIN journal' = Subjects
      /\ \A t \in Subjects : Height(t)' \in Nat /\ Height(t)' = Height(t)
      /\ ChainIntact'
  BY JournalKept DEF ChainInv, Fail
<1>2. Blank("failed") \in Request /\ Blank("failed").pc = "failed"
  <2>1. (CHOOSE s \in Subjects : TRUE) \in Subjects
    BY ConstantsOK
  <2> QED BY <2>1, ConstantsOK DEF Blank, Request, Finished, Item, AllShapes
<1>3. /\ req' \in [Requests -> Request]
      /\ req'[r].pc = "failed"
      /\ \A q \in Requests : q # r => req'[q] = req[q]
  BY <1>2 DEF Fail, ChainInv, TypeOK
<1>4. /\ DOMAIN prev' = Requests
      /\ prev'[r].seq = 0
      /\ \A q \in Requests : q # r => prev'[q] = prev[q]
  BY DEF Fail, ChainInv, TypeOK, NoEvent
<1>5. TypeOK'
  <2>1. \A q \in Requests : prev'[q].seq \in Nat
    BY <1>4 DEF ChainInv, TypeOK
  <2> QED BY <1>1, <1>3, <1>4, <2>1 DEF Fail, ChainInv, TypeOK
<1>6. PrevInJournal'
  BY <1>1, <1>3, <1>4 DEF Fail, ChainInv, PrevInJournal
<1>7. AttemptsLeft'
  BY <1>3 DEF ChainInv, AttemptsLeft
<1> QED BY <1>1, <1>5, <1>6, <1>7 DEF ChainInv

LEMMA CommitInv ==
    ASSUME ChainInv, NEW r \in Requests, NEW outcome \in {"ok", "lost"}, Commit(r, outcome)
    PROVE  ChainInv'
<1>0. PICK s \in Subjects : s = req[r].subject
  BY DEF ChainInv, TypeOK, Request
<1>n. PICK n \in Nat : n = Height(s)
  BY DEF ChainInv, TypeOK
<1>m. PICK m : m = Len(Batch(r))
  OBVIOUS
<1>1. /\ m = IF req[r].shape = "submit" THEN 2 ELSE 1
      /\ prev[r].seq = n
      /\ DOMAIN journal[s] = 1 .. n
      /\ DOMAIN journal' = Subjects
      /\ \A t \in Subjects : t # s => journal'[t] = journal[t] /\ Height(t)' = Height(t)
      /\ DOMAIN journal'[s] = 1 .. n + m
      /\ Height(s)' = n + m
      /\ \A k \in 1 .. n : journal'[s][k] = journal[s][k]
      /\ journal'[s][n + 1] = First(r)
      /\ req[r].shape = "submit" => journal'[s][n + 2] = Second(r)
  BY <1>0, <1>n, <1>m, CommitExtends
<1>2. req' \in [Requests -> Request] /\ req'[r].pc \in {"ok", "lost"}
      /\ \A q \in Requests : q # r => req'[q] = req[q]
  BY DEF Commit, ChainInv, TypeOK, Request, Finished
<1>3. \A t \in Subjects : Height(t)' \in Nat
  BY <1>1 DEF ChainInv, TypeOK
<1>4. TypeOK'
  <2>1. main' \in [Subjects -> Item]
    BY DEF Commit, PutAll, ChainInv, TypeOK, Request
  <2> QED BY <1>1, <1>2, <1>3, <2>1 DEF Commit, ChainInv, TypeOK
<1>5. ChainIntact'
  <2>1. ASSUME NEW t \in Subjects, t # s
        PROVE  (Contiguous(t) /\ Linked(t) /\ Unaltered(t))'
    BY <1>1, <2>1 DEF ChainInv, ChainIntact, Contiguous, Linked, Unaltered
  <2>2. Contiguous(s)'
    BY <1>1 DEF Contiguous
  <2>3. /\ First(r).seq = n + 1
        /\ First(r).prevHash = prev[r].hash
        /\ First(r).hash = ComputeHash(First(r))
    BY <1>1, EventFields DEF First
  <2>4. /\ Second(r).seq = First(r).seq + 1
        /\ Second(r).prevHash = First(r).hash
        /\ Second(r).hash = ComputeHash(Second(r))
    BY EventFields DEF Second
  <2>5. Unaltered(s)'
    <3> SUFFICES ASSUME NEW k \in 1 .. n + m
                 PROVE  /\ journal'[s][k].seq = k
                        /\ journal'[s][k].hash = ComputeHash(journal'[s][k])
      BY <1>1 DEF Unaltered, ComputeHash
    <3>1. CASE k \in 1 .. n
      BY <1>1, <3>1 DEF ChainInv, ChainIntact, Unaltered
    <3>2. CASE k = n + 1
      BY <1>1, <2>3, <3>2
    <3>3. CASE req[r].shape = "submit" /\ k = n + 2
      BY <1>1, <2>3, <2>4, <3>3
    <3> QED BY <1>1, <3>1, <3>2, <3>3
  <2>6. Linked(s)'
    <3> SUFFICES ASSUME NEW k \in 1 .. n + m
                 PROVE  journal'[s][k].prevHash = IF k = 1 THEN GenesisHash
                                                  ELSE journal'[s][k - 1].hash
      BY <1>1 DEF Linked
    <3>1. CASE k \in 1 .. n
      <4>1. k # 1 => k - 1 \in 1 .. n
        BY <1>1, <3>1
      <4>2. journal[s][k].prevHash = IF k = 1 THEN GenesisHash ELSE journal[s][k - 1].hash
        BY <1>1, <3>1 DEF ChainInv, ChainIntact, Linked
      <4>3. CASE k = 1
        BY <1>1, <3>1, <4>2, <4>3
      <4>4. CASE k # 1
        BY <1>1, <3>1, <4>1, <4>2, <4>4
      <4> QED BY <4>3, <4>4
    <3>2. CASE k = n + 1
      <4>1. prev[r] = IF n = 0 THEN NoEvent ELSE journal[s][n]
        BY <1>0, <1>1 DEF Commit, ChainInv, PrevInJournal
      <4>2. prev[r].hash = IF k = 1 THEN GenesisHash ELSE journal'[s][k - 1].hash
        <5>1. CASE n = 0
          BY <3>2, <4>1, <5>1 DEF NoEvent
        <5>2. CASE n # 0
          <6>1. n \in 1 .. n /\ k - 1 = n /\ k # 1
            BY <1>1, <3>2, <5>2
          <6> QED BY <1>1, <4>1, <5>2, <6>1
        <5> QED BY <5>1, <5>2
      <4> QED BY <1>1, <2>3, <3>2, <4>2
    <3>3. CASE req[r].shape = "submit" /\ k = n + 2
      <4>1. k - 1 = n + 1 /\ k # 1
        BY <1>1, <3>3
      <4> QED BY <1>1, <2>4, <3>3, <4>1
    <3> QED BY <1>1, <3>1, <3>2, <3>3
  <2> QED BY <2>1, <2>2, <2>5, <2>6 DEF ChainIntact
<1>6. PrevInJournal'
  <2> SUFFICES ASSUME NEW q \in Requests, NEW t \in Subjects,
                      req'[q].pc = "write", req'[q].subject = t
               PROVE  /\ prev'[q].seq <= Height(t)'
                      /\ prev'[q] = IF prev'[q].seq = 0 THEN NoEvent
                                    ELSE journal'[t][prev'[q].seq]
    BY DEF PrevInJournal
  <2>1. q # r /\ req[q].pc = "write" /\ req[q].subject = t /\ prev'[q] = prev[q]
    BY <1>2 DEF Commit
  <2>2. /\ prev[q].seq \in Nat
        /\ prev[q].seq <= Height(t)
        /\ prev[q] = IF prev[q].seq = 0 THEN NoEvent ELSE journal[t][prev[q].seq]
    BY <2>1 DEF ChainInv, TypeOK, PrevInJournal
  <2>3. CASE t # s
    BY <1>1, <2>1, <2>2, <2>3
  <2>4. CASE t = s
    <3>1. prev[q].seq <= n
      BY <1>n, <2>2, <2>4
    <3>2. prev[q].seq # 0 => prev[q].seq \in 1 .. n
      BY <1>1, <2>2, <3>1
    <3>3. prev[q].seq <= n + m
      BY <1>1, <2>2, <3>1
    <3> QED BY <1>1, <2>1, <2>2, <2>4, <3>2, <3>3
  <2> QED BY <2>3, <2>4
<1>7. AttemptsLeft'
  BY <1>2 DEF ChainInv, AttemptsLeft
<1> QED BY <1>4, <1>5, <1>6, <1>7 DEF ChainInv

LEMMA StutterInv ==
    ASSUME ChainInv, UNCHANGED vars
    PROVE  ChainInv'
<1>1. /\ DOMAIN journal' = Subjects
      /\ \A t \in Subjects : Height(t)' \in Nat /\ Height(t)' = Height(t)
      /\ ChainIntact'
  BY JournalKept DEF ChainInv, vars
<1>2. TypeOK'
  BY <1>1 DEF vars, ChainInv, TypeOK
<1>3. PrevInJournal'
  BY <1>1 DEF vars, ChainInv, PrevInJournal
<1>4. AttemptsLeft'
  BY DEF vars, ChainInv, AttemptsLeft
<1> QED BY <1>1, <1>2, <1>3, <1>4 DEF ChainInv

LEMMA InitChainInv == Init => ChainInv
<1> SUFFICES ASSUME Init PROVE ChainInv
  OBVIOUS
<1>1. DOMAIN journal = Subjects /\ \A s \in Subjects : DOMAIN journal[s] = {}
  BY DEF Init
<1>2. \A s \in Subjects : Height(s) = 0
  BY <1>1 DEF Height
<1>3. Blank("idle") \in Request
  <2>1. (CHOOSE s \in Subjects : TRUE) \in Subjects
    BY ConstantsOK
  <2> QED BY <2>1, ConstantsOK DEF Blank, Request, Item, AllShapes
<1>4. TypeOK
  BY <1>1, <1>2, <1>3, ConstantsOK DEF Init, TypeOK, Item, NoEvent
<1>5. ChainIntact
  BY <1>1, <1>2 DEF ChainIntact, Contiguous, Linked, Unaltered
<1>6. PrevInJournal /\ AttemptsLeft
  BY ConstantsOK DEF Init, Blank, PrevInJournal, AttemptsLeft
<1> QED BY <1>4, <1>5, <1>6 DEF ChainInv

LEMMA NextChainInv == ChainInv /\ [Next]_vars => ChainInv'
<1> SUFFICES ASSUME ChainInv, [Next]_vars PROVE ChainInv'
  OBVIOUS
<1>1. CASE Tick
  BY <1>1, TickInv
<1>2. ASSUME NEW r \in Requests, NEW s \in Subjects, NEW shape \in Shapes, NEW v \in Item,
             Begin(r, s, shape, v)
      PROVE  ChainInv'
  BY <1>2, BeginInv
<1>3. ASSUME NEW r \in Requests, ReadLast(r)
      PROVE  ChainInv'
  BY <1>3, ReadLastInv
<1>4. ASSUME NEW r \in Requests, Transact(r)
      PROVE  ChainInv'
  BY <1>4, CommitInv, ConflictInv DEF Transact
<1>5. ASSUME NEW r \in Requests, Fail(r)
      PROVE  ChainInv'
  BY <1>5, FailInv
<1>6. CASE UNCHANGED vars
  BY <1>6, StutterInv
<1> QED BY <1>1, <1>2, <1>3, <1>4, <1>5, <1>6 DEF Next

LEMMA SpecChainInv == Spec => []ChainInv
BY InitChainInv, NextChainInv, PTL DEF Spec

-----------------------------------------------------------------------------
(* What the invariant gives *)

\* The tables and the requests always hold what they are declared to hold.
THEOREM TypeCorrect == Spec => []TypeOK
<1>1. ChainInv => TypeOK
  BY DEF ChainInv
<1> QED BY <1>1, SpecChainInv, PTL

\* Whatever writers race on a chain, its ranks stay contiguous, its links unbroken
\* and its events unaltered (audit_store.go:124-127).
THEOREM ChainsStayIntact == Spec => []ChainIntact
<1>1. ChainInv => ChainIntact
  BY DEF ChainInv
<1> QED BY <1>1, SpecChainInv, PTL

\* A step of AuditLog never rewrites or removes an event, and changes an item only
\* together with its chain.
THEOREM JournalOnlyGrows == Spec => AppendOnly
<1> DEFINE Kept == \A s \in Subjects :
              /\ DOMAIN journal[s] \subseteq DOMAIN journal'[s]
              /\ \A k \in DOMAIN journal[s] : journal'[s][k] = journal[s][k]
              /\ main'[s] # main[s] => DOMAIN journal'[s] # DOMAIN journal[s]
<1>1. ChainInv /\ [Next]_vars => [Kept]_vars
  <2> SUFFICES ASSUME ChainInv, Next PROVE Kept
    OBVIOUS
  <2>1. ASSUME NEW r \in Requests, NEW outcome, Commit(r, outcome)
        PROVE  Kept
    <3>1. PICK t \in Subjects : t = req[r].subject
      BY DEF ChainInv, TypeOK, Request
    <3>2. PICK n : n = Height(t)
      OBVIOUS
    <3>3. PICK m : m = Len(Batch(r))
      OBVIOUS
    <3>4. /\ n \in Nat /\ m \in {1, 2}
          /\ DOMAIN journal[t] = 1 .. n
          /\ DOMAIN journal'[t] = 1 .. n + m
          /\ \A k \in 1 .. n : journal'[t][k] = journal[t][k]
          /\ \A u \in Subjects : u # t => journal'[u] = journal[u]
      BY <2>1, <3>1, <3>2, <3>3, CommitExtends
    <3>5. \A u \in Subjects : u # t => main'[u] = main[u]
      BY <2>1, <3>1 DEF Commit, PutAll, ChainInv, TypeOK
    <3>6. 1 .. n \subseteq 1 .. n + m /\ 1 .. n # 1 .. n + m
      <4>1. n + m \in 1 .. n + m /\ n + m \notin 1 .. n
        BY <3>4
      <4> QED BY <3>4, <4>1
    <3> QED BY <3>4, <3>5, <3>6
  <2>2. UNCHANGED <<main, journal>> => Kept
    OBVIOUS
  <2> QED BY <2>1, <2>2 DEF Next, Transact, Tick, Begin, ReadLast, Conflict, Fail
<1> QED BY <1>1, SpecChainInv, PTL DEF Spec, AppendOnly

-----------------------------------------------------------------------------
(* A request leaves its batch once, or nothing *)

LEMMA BatchLength ==
    ASSUME NEW r
    PROVE  /\ Len(Batch(r)) = IF req[r].shape = "submit" THEN 2 ELSE 1
           /\ Len(Batch(r))' = IF req'[r].shape = "submit" THEN 2 ELSE 1
<1>1. Len(<<First(r), Second(r)>>) = 2 /\ Len(<<First(r)>>) = 1
  OBVIOUS
<1>2. Len(<<First(r)', Second(r)'>>) = 2 /\ Len(<<First(r)'>>) = 1
  OBVIOUS
<1> QED BY <1>1, <1>2 DEF Batch

LEMMA RanksKept ==
    ASSUME NEW r, req'[r].shape = req[r].shape, prev'[r] = prev[r]
    PROVE  Ranks(r)' = Ranks(r)
BY BatchLength DEF Ranks

\* A step of r that leaves the journal alone and does not make r committed.
LEMMA QuietStep ==
    ASSUME AllOrNothing, NEW r \in Requests,
           req[r].pc \notin {"ok", "lost"}, req'[r].pc \notin {"ok", "lost"},
           \A q \in Requests : q # r => req'[q] = req[q] /\ prev'[q] = prev[q],
           UNCHANGED journal
    PROVE  AllOrNothing'
<1> SUFFICES ASSUME NEW q \in Requests, NEW s \in Subjects
             PROVE  RanksOf(q, s)' = IF req'[q].pc \in {"ok", "lost"} /\ s = req'[q].subject
                                     THEN Ranks(q)' ELSE {}
  BY DEF AllOrNothing
<1>1. RanksOf(q, s)' = RanksOf(q, s)
  BY DEF RanksOf
<1>2. CASE q = r
  BY <1>1, <1>2 DEF AllOrNothing
<1>3. CASE q # r
  <2>1. Ranks(q)' = Ranks(q)
    BY <1>3, RanksKept
  <2> QED BY <1>1, <1>3, <2>1 DEF AllOrNothing
<1> QED BY <1>2, <1>3

LEMMA CommitOnce ==
    ASSUME ChainInv, AllOrNothing, NEW r \in Requests, NEW outcome \in {"ok", "lost"},
           Commit(r, outcome)
    PROVE  AllOrNothing'
<1>s. PICK s \in Subjects : s = req[r].subject
  BY DEF ChainInv, TypeOK, Request
<1>n. PICK n : n = Height(s)
  OBVIOUS
<1>m. PICK m : m = Len(Batch(r))
  OBVIOUS
<1>1. /\ s \in Subjects
      /\ n \in Nat
      /\ m = IF req[r].shape = "submit" THEN 2 ELSE 1
      /\ prev[r].seq = n
      /\ Ranks(r) = n + 1 .. n + m
      /\ DOMAIN journal[s] = 1 .. n
      /\ DOMAIN journal' = Subjects
      /\ \A t \in Subjects : t # s => journal'[t] = journal[t] /\ Height(t)' = Height(t)
      /\ DOMAIN journal'[s] = 1 .. n + m
      /\ Height(s)' = n + m
      /\ \A k \in 1 .. n : journal'[s][k] = journal[s][k]
      /\ journal'[s][n + 1] = First(r)
      /\ req[r].shape = "submit" => journal'[s][n + 2] = Second(r)
  BY <1>s, <1>n, <1>m, CommitExtends
<1>2. /\ req'[r].pc = outcome /\ req[r].pc = "write"
      /\ req'[r].subject = s /\ req'[r].shape = req[r].shape
      /\ \A q \in Requests : q # r => req'[q] = req[q]
      /\ prev' = prev
  BY <1>s DEF Commit, ChainInv, TypeOK, Request
<1>3. \A q \in Requests : Ranks(q)' = Ranks(q)
  BY <1>2, RanksKept
<1>4. \A k \in n + 1 .. n + m : journal'[s][k].by = r
  <2>1. First(r).by = r /\ Second(r).by = r
    BY EventFields DEF First, Second
  <2> QED BY <1>1, <2>1
<1>5. \A t \in Subjects : RanksOf(r, t) = {}
  BY <1>2 DEF AllOrNothing
<1>6. ASSUME NEW q \in Requests, NEW t \in Subjects
      PROVE  RanksOf(q, t)' = IF req'[q].pc \in {"ok", "lost"} /\ t = req'[q].subject
                              THEN Ranks(q)' ELSE {}
  <2>1. CASE t # s
    <3>1. RanksOf(q, t)' = RanksOf(q, t)
      BY <1>1, <2>1 DEF RanksOf
    <3> QED BY <1>2, <1>3, <1>5, <2>1, <3>1 DEF AllOrNothing
  <2>2. CASE t = s /\ q # r
    <3>1. RanksOf(q, s)' = RanksOf(q, s)
      BY <1>1, <1>4, <2>2 DEF RanksOf
    <3> QED BY <1>2, <1>3, <2>2, <3>1 DEF AllOrNothing
  <2>3. CASE t = s /\ q = r
    <3>1. \A k \in 1 .. n : journal[s][k].by # r
      BY <1>1, <1>5 DEF RanksOf
    <3>2. RanksOf(r, s)' = n + 1 .. n + m
      BY <1>1, <1>4, <3>1 DEF RanksOf
    <3> QED BY <1>1, <1>2, <1>3, <2>3, <3>2
  <2> QED BY <2>1, <2>2, <2>3
<1> QED BY <1>6 DEF AllOrNothing

LEMMA InitOnce == Init => AllOrNothing
BY DEF Init, AllOrNothing, RanksOf, Blank

LEMMA NextOnce == ChainInv /\ AllOrNothing /\ [Next]_vars => AllOrNothing'
<1> SUFFICES ASSUME ChainInv, AllOrNothing, [Next]_vars PROVE AllOrNothing'
  OBVIOUS
<1>1. CASE Tick \/ UNCHANGED vars
  <2>1. /\ \A q \in Requests : req'[q] = req[q] /\ Ranks(q)' = Ranks(q)
        /\ \A q \in Requests, s \in Subjects : RanksOf(q, s)' = RanksOf(q, s)
    BY <1>1, RanksKept DEF Tick, vars, RanksOf
  <2> QED BY <2>1 DEF AllOrNothing
<1>2. ASSUME NEW r \in Requests, NEW s \in Subjects, NEW shape \in Shapes, NEW v \in Item,
             Begin(r, s, shape, v)
      PROVE  AllOrNothing'
  <2>1. /\ req[r].pc = "idle" /\ req'[r].pc = "read"
        /\ \A q \in Requests : q # r => req'[q] = req[q] /\ prev'[q] = prev[q]
    BY <1>2 DEF Begin, ChainInv, TypeOK
  <2> QED BY <1>2, <2>1, QuietStep DEF Begin
<1>3. ASSUME NEW r \in Requests, ReadLast(r)
      PROVE  AllOrNothing'
  <2>1. /\ req[r].pc = "read" /\ req'[r].pc = "write"
        /\ \A q \in Requests : q # r => req'[q] = req[q] /\ prev'[q] = prev[q]
    BY <1>3 DEF ReadLast, ChainInv, TypeOK, Request
  <2> QED BY <1>3, <2>1, QuietStep DEF ReadLast
<1>4. ASSUME NEW r \in Requests, Conflict(r)
      PROVE  AllOrNothing'
  <2>1. /\ req[r].pc = "write" /\ req'[r].pc \in {"read", "conflict"}
        /\ \A q \in Requests : q # r => req'[q] = req[q] /\ prev'[q] = prev[q]
    BY <1>4 DEF Conflict, AfterConflict, ChainInv, TypeOK, Request
  <2> QED BY <1>4, <2>1, QuietStep DEF Conflict
<1>5. ASSUME NEW r \in Requests, Fail(r)
      PROVE  AllOrNothing'
  <2>1. /\ req[r].pc \in {"read", "write"} /\ req'[r].pc = "failed"
        /\ \A q \in Requests : q # r => req'[q] = req[q] /\ prev'[q] = prev[q]
    BY <1>5 DEF Fail, Blank, ChainInv, TypeOK
  <2> QED BY <1>5, <2>1, QuietStep DEF Fail
<1> QED BY <1>1, <1>2, <1>3, <1>4, <1>5, CommitOnce DEF Next, Transact

LEMMA SpecOnce == Spec => [](ChainInv /\ AllOrNothing)
BY InitChainInv, NextChainInv, InitOnce, NextOnce, PTL DEF Spec

\* A request leaves its whole batch once if it committed and nothing otherwise,
\* whatever is retried, refused, lost or crashes.
THEOREM OnceOrNever == Spec => []AllOrNothing
BY SpecOnce, PTL

-----------------------------------------------------------------------------
(* The item says what the chain says *)

LEMMA HighestIs ==
    ASSUME NEW S, S \subseteq Nat, NEW m \in S, \A j \in S : j <= m
    PROVE  Highest(S) = m
<1>1. \A k \in S : (\A j \in S : j <= k) => k = m
  BY SMT
<1> QED BY <1>1 DEF Highest

\* The item has the value of the last event that wrote it: StateMatchesJournal
\* with the highest rank of Writes exhibited instead of chosen.
ItemWritten(s) ==
    \/ Writes(s) = {} /\ main[s] = Absent
    \/ \E k \in Writes(s) : /\ \A j \in Writes(s) : j <= k
                            /\ main[s] = journal[s][k].value

ItemsWritten == \A s \in Subjects : ItemWritten(s)

LEMMA CommitWrites ==
    ASSUME ChainInv, ItemsWritten, NEW r \in Requests, NEW outcome \in {"ok", "lost"},
           Commit(r, outcome)
    PROVE  ItemsWritten'
<1>s. PICK s \in Subjects : s = req[r].subject
  BY DEF ChainInv, TypeOK, Request
<1>n. PICK n : n = Height(s)
  OBVIOUS
<1>m. PICK m : m = Len(Batch(r))
  OBVIOUS
<1>1. /\ s \in Subjects
      /\ n \in Nat
      /\ m = IF req[r].shape = "submit" THEN 2 ELSE 1
      /\ prev[r].seq = n
      /\ Ranks(r) = n + 1 .. n + m
      /\ DOMAIN journal[s] = 1 .. n
      /\ DOMAIN journal' = Subjects
      /\ \A t \in Subjects : t # s => journal'[t] = journal[t] /\ Height(t)' = Height(t)
      /\ DOMAIN journal'[s] = 1 .. n + m
      /\ Height(s)' = n + m
      /\ \A k \in 1 .. n : journal'[s][k] = journal[s][k]
      /\ journal'[s][n + 1] = First(r)
      /\ req[r].shape = "submit" => journal'[s][n + 2] = Second(r)
  BY <1>s, <1>n, <1>m, CommitExtends
<1>2. \A k \in n + 1 .. n + m : journal'[s][k].value = req[r].value
  <2>1. First(r).value = req[r].value /\ Second(r).value = req[r].value
    BY EventFields DEF First, Second
  <2> QED BY <1>1, <2>1
<1>3. /\ \A t \in Subjects : t # s => main'[t] = main[t]
      /\ main'[s] = IF req[r].value = Absent THEN main[s] ELSE req[r].value
  BY <1>s DEF Commit, PutAll, ChainInv, TypeOK
<1>4. ASSUME NEW t \in Subjects, t # s
      PROVE  ItemWritten(t)'
  <2>1. Writes(t)' = Writes(t) /\ journal'[t] = journal[t] /\ main'[t] = main[t]
    BY <1>1, <1>3, <1>4 DEF Writes
  <2> QED BY <2>1 DEF ItemsWritten, ItemWritten
<1>5. CASE req[r].value = Absent
  <2>1. Writes(s)' = Writes(s)
    BY <1>1, <1>2, <1>5 DEF Writes
  <2>2. \A k \in Writes(s) : journal'[s][k] = journal[s][k]
    BY <1>1 DEF Writes
  <2>3. main'[s] = main[s]
    BY <1>3, <1>5
  <2>4. ItemWritten(s)'
    BY <2>1, <2>2, <2>3 DEF ItemsWritten, ItemWritten
  <2> QED BY <1>4, <2>4 DEF ItemsWritten
<1>6. CASE req[r].value # Absent
  <2>1. n + m \in 1 .. n + m /\ n + m \in n + 1 .. n + m
    BY <1>1
  <2>2. n + m \in Writes(s)' /\ journal'[s][n + m].value = main'[s]
    BY <1>1, <1>2, <1>3, <1>6, <2>1 DEF Writes
  <2>3. \A j \in Writes(s)' : j <= n + m
    BY <1>1 DEF Writes
  <2>4. ItemWritten(s)'
    BY <2>2, <2>3 DEF ItemWritten
  <2> QED BY <1>4, <2>4 DEF ItemsWritten
<1> QED BY <1>5, <1>6

LEMMA NextWrites == ChainInv /\ ItemsWritten /\ [Next]_vars => ItemsWritten'
<1> SUFFICES ASSUME ChainInv, ItemsWritten, [Next]_vars PROVE ItemsWritten'
  OBVIOUS
<1>1. UNCHANGED <<main, journal>> => ItemsWritten'
  BY DEF ItemsWritten, ItemWritten, Writes
<1>2. ASSUME NEW r \in Requests, Transact(r)
      PROVE  ItemsWritten'
  BY <1>1, <1>2, CommitWrites DEF Transact, Conflict
<1> QED BY <1>1, <1>2 DEF Next, vars, Tick, Begin, ReadLast, Fail

\* No state without its provenance: the item of a subject is always what the last
\* event that wrote it says (audit_store.go:38-41).
THEOREM NoStateWithoutProvenance == Spec => []StateMatchesJournal
<1>1. Init => ItemsWritten
  BY DEF Init, ItemsWritten, ItemWritten, Writes
<1>2. ChainInv /\ ItemsWritten => StateMatchesJournal
  <2> SUFFICES ASSUME ChainInv, ItemsWritten, NEW s \in Subjects
               PROVE  main[s] = IF Writes(s) = {} THEN Absent
                                ELSE journal[s][Highest(Writes(s))].value
    BY DEF StateMatchesJournal
  <2>1. Writes(s) \subseteq Nat
    BY DEF Writes, ChainInv, ChainIntact, Contiguous, TypeOK
  <2>2. CASE Writes(s) = {}
    BY <2>2 DEF ItemsWritten, ItemWritten
  <2>3. CASE Writes(s) # {}
    <3>1. PICK k \in Writes(s) : /\ \A j \in Writes(s) : j <= k
                                 /\ main[s] = journal[s][k].value
      BY <2>3 DEF ItemsWritten, ItemWritten
    <3>2. Highest(Writes(s)) = k
      BY <2>1, <3>1, HighestIs
    <3> QED BY <2>3, <3>1, <3>2
  <2> QED BY <2>2, <2>3
<1> QED BY <1>1, <1>2, InitChainInv, NextChainInv, NextWrites, PTL DEF Spec

-----------------------------------------------------------------------------
(* What touches the tables *)

\* Only a commit touches the tables.
LEMMA OnlyCommits ==
    ASSUME [Next]_vars
    PROVE  \/ main' = main /\ journal' = journal
           \/ \E r \in Requests, outcome \in {"ok", "lost"} : Commit(r, outcome)
<1>1. CASE Tick \/ UNCHANGED vars
  BY <1>1 DEF Tick, vars
<1>2. ASSUME NEW r \in Requests,
             (\E s \in Subjects, shape \in Shapes, v \in Item : Begin(r, s, shape, v))
               \/ ReadLast(r) \/ Conflict(r) \/ Fail(r)
      PROVE  main' = main /\ journal' = journal
  BY <1>2 DEF Begin, ReadLast, Conflict, Fail
<1> QED BY <1>1, <1>2 DEF Next, Transact

-----------------------------------------------------------------------------
(* Implementation of Ledger *)

\* An event seen as a ledger entry, whatever its chain position and time.
LEMMA BatchEntries ==
    ASSUME NEW r
    PROVE  /\ Entry(First(r)) = [by |-> r, part |-> 1, value |-> req[r].value]
           /\ Entry(Second(r)) = [by |-> r, part |-> 2, value |-> req[r].value]
BY EventFields DEF Entry, First, Second

\* Appending a sequence, rank by rank.
LEMMA Appended ==
    ASSUME NEW S, NEW n \in Nat, NEW m \in {1, 2},
           NEW old \in [1 .. n -> S], NEW tail \in [1 .. m -> S],
           NEW new \in [1 .. n + m -> S],
           \A k \in 1 .. n : new[k] = old[k],
           \A i \in 1 .. m : new[n + i] = tail[i]
    PROVE  new = old \o tail
<1>1. old \in Seq(S) /\ Len(old) = n /\ tail \in Seq(S) /\ Len(tail) = m
  OBVIOUS
<1>2. new \in Seq(S) /\ Len(new) = n + m
  OBVIOUS
<1>3. /\ old \o tail \in Seq(S)
      /\ Len(old \o tail) = n + m
      /\ \A k \in 1 .. n + m : (old \o tail)[k] = IF k <= n THEN old[k] ELSE tail[k - n]
  BY <1>1, ConcatProperties, Zenon
<1>4. ASSUME NEW k \in 1 .. n + m
      PROVE  new[k] = (old \o tail)[k]
  <2>1. CASE k <= n
    <3>1. k \in 1 .. n /\ (old \o tail)[k] = old[k]
      BY <1>3, <2>1
    <3> QED BY <3>1
  <2>2. CASE ~ (k <= n)
    <3>1. k - n \in 1 .. m /\ n + (k - n) = k
      BY <2>2
    <3>2. (old \o tail)[k] = tail[k - n]
      BY <1>3, <2>2, Zenon
    <3>3. new[n + (k - n)] = tail[k - n]
      BY <3>1, Zenon
    <3> QED BY <3>1, <3>2, <3>3, Zenon
  <2> QED BY <2>1, <2>2
<1> QED BY <1>2, <1>3, <1>4, SeqEqual, Zenon

\* The log Ledger is given for journal j.
LogOf(j) == [s \in Subjects |-> [k \in DOMAIN j[s] |-> Entry(j[s][k])]]

LEMMA CommitIsRecord ==
    ASSUME ChainInv, AllOrNothing, NEW r \in Requests, NEW outcome \in {"ok", "lost"},
           Commit(r, outcome)
    PROVE  L!Next
<1>s. PICK s \in Subjects : s = req[r].subject
  BY DEF ChainInv, TypeOK, Request
<1>n. PICK n : n = Height(s)
  OBVIOUS
<1>m. PICK m : m = Len(Batch(r))
  OBVIOUS
<1>v. PICK v \in Values \cup {Absent} : v = req[r].value
  BY DEF ChainInv, TypeOK, Request, Item
<1>1. /\ s \in Subjects
      /\ n \in Nat
      /\ m = IF req[r].shape = "submit" THEN 2 ELSE 1
      /\ prev[r].seq = n
      /\ Ranks(r) = n + 1 .. n + m
      /\ DOMAIN journal[s] = 1 .. n
      /\ DOMAIN journal' = Subjects
      /\ \A t \in Subjects : t # s => journal'[t] = journal[t] /\ Height(t)' = Height(t)
      /\ DOMAIN journal'[s] = 1 .. n + m
      /\ Height(s)' = n + m
      /\ \A k \in 1 .. n : journal'[s][k] = journal[s][k]
      /\ journal'[s][n + 1] = First(r)
      /\ req[r].shape = "submit" => journal'[s][n + 2] = Second(r)
  BY <1>s, <1>n, <1>m, CommitExtends
<1>2. m \in {1, 2}
  BY <1>1
<1> DEFINE log == LogOf(journal)
           newLog == LogOf(journal')
           tail == [i \in 1 .. m |-> [by |-> r, part |-> i, value |-> v]]
           S == {log[s][k] : k \in 1 .. n} \cup {tail[i] : i \in 1 .. m}
<1>3. /\ DOMAIN log = Subjects /\ DOMAIN newLog = Subjects
      /\ log[s] \in [1 .. n -> S]
      /\ log[s] = [k \in 1 .. n |-> Entry(journal[s][k])]
      /\ newLog[s] = [k \in 1 .. n + m |-> Entry(journal'[s][k])]
      /\ \A t \in Subjects : t # s => newLog[t] = log[t]
  BY <1>1 DEF LogOf
<1>4. \A k \in 1 .. n : newLog[s][k] = log[s][k]
  BY <1>1, <1>2, <1>3
<1>5. \A i \in 1 .. m : newLog[s][n + i] = tail[i]
  <2>1. newLog[s][n + 1] = tail[1]
    BY <1>v, <1>1, <1>2, <1>3, BatchEntries
  <2>2. m = 2 => newLog[s][n + 2] = tail[2]
    BY <1>v, <1>1, <1>3, BatchEntries
  <2> QED BY <1>2, <2>1, <2>2
<1>6. newLog[s] = log[s] \o tail
  <2>1. tail \in [1 .. m -> S]
    OBVIOUS
  <2>2. newLog[s] \in [1 .. n + m -> S]
    <3> SUFFICES ASSUME NEW k \in 1 .. n + m PROVE newLog[s][k] \in S
      BY <1>3
    <3>1. CASE k \in 1 .. n
      BY <1>4, <3>1
    <3>2. CASE k \notin 1 .. n
      <4>1. k - n \in 1 .. m /\ n + (k - n) = k
        BY <1>1, <1>2, <3>2
      <4> QED BY <1>5, <4>1
    <3> QED BY <3>1, <3>2
  <2>3. PICK old, new, added, X : /\ old = log[s] /\ new = newLog[s]
                                  /\ added = tail /\ X = S
    OBVIOUS
  <2> HIDE DEF log, newLog, tail, S
  <2>4. /\ old \in [1 .. n -> X] /\ added \in [1 .. m -> X] /\ new \in [1 .. n + m -> X]
        /\ \A k \in 1 .. n : new[k] = old[k]
        /\ \A i \in 1 .. m : new[n + i] = added[i]
    BY <1>3, <1>4, <1>5, <2>1, <2>2, <2>3
  <2>5. new = old \o added
    <3>1. n \in Nat
      BY <1>1
    <3> QED BY ONLY <3>1, <1>2, <2>4, Appended
  <2> QED BY <2>3, <2>5
<1>7. newLog = [log EXCEPT ![s] = @ \o tail]
  BY <1>3, <1>6 DEF LogOf
<1>8. main' = IF v = Absent THEN main ELSE [main EXCEPT ![s] = v]
  BY <1>s, <1>v DEF Commit, PutAll
<1>9. ~ L!Recorded(r)
  <2>1. \A t \in Subjects : RanksOf(r, t) = {}
    BY DEF Commit, AllOrNothing
  <2> QED BY <2>1 DEF L!Recorded, RanksOf, Entry
<1>10. L!Record(r, s, v, m)
  BY <1>7, <1>8, <1>9 DEF L!Record, LogOf
<1> QED BY <1>2, <1>10 DEF L!Next

\* The loop of WriteWithAuditChain implements an atomic journalled write made at
\* most once per request: every commit is a Record of Ledger, every other step is
\* invisible to it.
THEOREM ImplementsLedger == Spec => AtomicLedger
<1>1. Init => L!Init
  BY DEF Init, L!Init
<1>2. ChainInv /\ AllOrNothing /\ [Next]_vars => [L!Next]_L!vars
  <2> SUFFICES ASSUME ChainInv, AllOrNothing, [Next]_vars PROVE [L!Next]_L!vars
    OBVIOUS
  <2>1. CASE main' = main /\ journal' = journal
    BY <2>1 DEF L!vars
  <2>2. CASE \E r \in Requests, outcome \in {"ok", "lost"} : Commit(r, outcome)
    BY <2>2, CommitIsRecord
  <2> QED BY <2>1, <2>2, OnlyCommits
<1> QED BY <1>1, <1>2, SpecOnce, PTL DEF Spec, AtomicLedger, L!Spec

-----------------------------------------------------------------------------
(* Time taken while the event is built *)

\* Nothing is dated after now, and an event about to be written by AuditOrg is not
\* dated before the one it follows.
Stamped ==
    /\ \A r \in Requests : req[r].at \in Nat /\ req[r].at <= clock
    /\ \A s \in Subjects : \A k \in DOMAIN journal[s] :
           journal[s][k].at \in Nat /\ journal[s][k].at <= clock
    /\ \A r \in Requests : req[r].pc = "write" =>
           prev[r].at \in Nat /\ (req[r].shape = "org" => prev[r].at <= req[r].at)

AllLate(s) == \A k \in DOMAIN journal[s] : req[journal[s][k].by].shape = "org"

LEMMA ClockIsNat == ChainInv => clock \in Nat
BY ConstantsOK DEF ChainInv, TypeOK

\* Steps that neither touch the journal nor move the clock back.
LEMMA QuietStamped ==
    ASSUME ChainInv, Stamped, journal' = journal, clock' \in Nat, clock <= clock',
           \A r \in Requests : req'[r].at \in Nat /\ req'[r].at <= clock',
           \A r \in Requests : req'[r].pc = "write" =>
               prev'[r].at \in Nat /\ (req'[r].shape = "org" => prev'[r].at <= req'[r].at)
    PROVE  Stamped'
BY ClockIsNat DEF Stamped

LEMMA NextStamped == ChainInv /\ Stamped /\ [Next]_vars => Stamped'
<1> SUFFICES ASSUME ChainInv, Stamped, [Next]_vars PROVE Stamped'
  OBVIOUS
<1>c. clock \in Nat
  BY ClockIsNat
<1>1. CASE Tick \/ UNCHANGED vars
  BY <1>c, <1>1, QuietStamped DEF Tick, vars, Stamped
<1>2. ASSUME NEW r \in Requests, NEW s \in Subjects, NEW shape \in Shapes, NEW v \in Item,
             Begin(r, s, shape, v)
      PROVE  Stamped'
  <2>1. /\ req'[r].pc = "read" /\ req'[r].at = clock
        /\ \A q \in Requests : q # r => req'[q] = req[q]
        /\ prev' = prev /\ journal' = journal /\ clock' = clock
    BY <1>2 DEF Begin, ChainInv, TypeOK
  <2> QED BY <1>c, <2>1, QuietStamped DEF Stamped
<1>3. ASSUME NEW r \in Requests, ReadLast(r)
      PROVE  Stamped'
  <2>1. PICK s \in Subjects : s = req[r].subject
    BY DEF ChainInv, TypeOK, Request
  <2>2. LastAuditEvent(s).at \in Nat /\ LastAuditEvent(s).at <= clock
    <3>1. Height(s) \in Nat /\ DOMAIN journal[s] = 1 .. Height(s)
      BY DEF ChainInv, TypeOK, ChainIntact, Contiguous
    <3>2. CASE DOMAIN journal[s] = {}
      BY <1>c, <3>2 DEF LastAuditEvent, NoEvent
    <3>3. CASE DOMAIN journal[s] # {}
      <4>1. Height(s) \in DOMAIN journal[s]
        BY <3>1, <3>3
      <4> QED BY <4>1 DEF LastAuditEvent, Stamped
    <3> QED BY <3>2, <3>3
  <2>3. /\ prev'[r] = LastAuditEvent(s)
        /\ req'[r].at = IF req[r].shape = "org" THEN clock ELSE req[r].at
        /\ req'[r].shape = req[r].shape
        /\ \A q \in Requests : q # r => req'[q] = req[q] /\ prev'[q] = prev[q]
        /\ journal' = journal /\ clock' = clock
    BY <1>3, <2>1 DEF ReadLast, ChainInv, TypeOK, Request
  <2> QED BY <1>c, <2>2, <2>3, QuietStamped DEF Stamped
<1>4. ASSUME NEW r \in Requests, Conflict(r)
      PROVE  Stamped'
  <2>1. /\ req'[r].pc \in {"read", "conflict"} /\ req'[r].at = req[r].at
        /\ \A q \in Requests : q # r => req'[q] = req[q]
        /\ prev' = prev /\ journal' = journal /\ clock' = clock
    BY <1>4 DEF Conflict, AfterConflict, ChainInv, TypeOK, Request
  <2> QED BY <1>c, <2>1, QuietStamped DEF Stamped
<1>5. ASSUME NEW r \in Requests, Fail(r)
      PROVE  Stamped'
  <2>1. /\ req'[r].pc = "failed" /\ req'[r].at = 0
        /\ \A q \in Requests : q # r => req'[q] = req[q] /\ prev'[q] = prev[q]
        /\ journal' = journal /\ clock' = clock
    BY <1>5 DEF Fail, Blank, ChainInv, TypeOK
  <2> QED BY <1>c, <2>1, QuietStamped DEF Stamped
<1>6. ASSUME NEW r \in Requests, NEW outcome \in {"ok", "lost"}, Commit(r, outcome)
      PROVE  Stamped'
  <2>1. /\ req'[r].pc = outcome /\ req'[r].at = req[r].at
        /\ \A q \in Requests : q # r => req'[q] = req[q]
        /\ prev' = prev /\ clock' = clock
    BY <1>6 DEF Commit, ChainInv, TypeOK, Request
  <2>2. ASSUME NEW t \in Subjects, NEW k \in DOMAIN journal'[t]
        PROVE  journal'[t][k].at \in Nat /\ journal'[t][k].at <= clock
    <3>s. PICK s \in Subjects : s = req[r].subject
      BY DEF ChainInv, TypeOK, Request
    <3>n. PICK n : n = Height(s)
      OBVIOUS
    <3>m. PICK m : m = Len(Batch(r))
      OBVIOUS
    <3>1. /\ n \in Nat
          /\ m = IF req[r].shape = "submit" THEN 2 ELSE 1
          /\ DOMAIN journal[s] = 1 .. n
          /\ \A u \in Subjects : u # s => journal'[u] = journal[u] /\ Height(u)' = Height(u)
          /\ DOMAIN journal'[s] = 1 .. n + m
          /\ \A j \in 1 .. n : journal'[s][j] = journal[s][j]
          /\ journal'[s][n + 1] = First(r)
          /\ req[r].shape = "submit" => journal'[s][n + 2] = Second(r)
      BY <1>6, <3>s, <3>n, <3>m, CommitExtends
    <3>2. First(r).at = req[r].at /\ Second(r).at = req[r].at
      BY EventFields DEF First, Second
    <3>3. req[r].at \in Nat /\ req[r].at <= clock
      BY DEF Stamped
    <3>4. CASE t # s \/ k \in 1 .. n
      BY <3>1, <3>4, <2>2 DEF Stamped
    <3>5. CASE t = s /\ k \notin 1 .. n
      <4>1. k = n + 1 \/ (req[r].shape = "submit" /\ k = n + 2)
        BY <3>1, <2>2, <3>5
      <4> QED BY <3>1, <3>2, <3>3, <3>5, <4>1
    <3> QED BY <3>4, <3>5
  <2>3. \A q \in Requests : req'[q].at \in Nat /\ req'[q].at <= clock
    BY <2>1 DEF Stamped
  <2>4. \A q \in Requests : req'[q].pc = "write" =>
           prev'[q].at \in Nat /\ (req'[q].shape = "org" => prev'[q].at <= req'[q].at)
    BY <2>1 DEF Stamped
  <2> QED BY <2>1, <2>2, <2>3, <2>4 DEF Stamped
<1> QED BY <1>1, <1>2, <1>3, <1>4, <1>5, <1>6 DEF Next, Transact

\* A request that has events keeps its shape.
LEMMA AuthorsKeepShape ==
    ASSUME ChainInv, AllOrNothing, [Next]_vars,
           NEW s \in Subjects, NEW k \in DOMAIN journal[s], journal[s][k].by \in Requests
    PROVE  req'[journal[s][k].by].shape = req[journal[s][k].by].shape
<1> DEFINE q == journal[s][k].by
<1>1. req[q].pc \in {"ok", "lost"}
  BY DEF AllOrNothing, RanksOf
<1> HIDE DEF q
<1>2. CASE Tick \/ UNCHANGED vars
  BY <1>2 DEF Tick, vars, q
<1>3. ASSUME NEW r \in Requests,
             (\E t \in Subjects, shape \in Shapes, v \in Item : Begin(r, t, shape, v))
               \/ ReadLast(r) \/ Transact(r) \/ Fail(r)
      PROVE  req'[q] = req[q]
  <2>1. req[r].pc \in {"idle", "read", "write"} /\ r # q
    BY <1>1, <1>3 DEF Begin, ReadLast, Transact, Commit, Conflict, Fail
  <2>2. q \in Requests
    BY DEF q
  <2>3. \E x : req' = [req EXCEPT ![r] = x]
    BY <1>3 DEF Begin, ReadLast, Transact, Commit, Conflict, Fail, ChainInv, TypeOK
  <2> QED BY <2>1, <2>2, <2>3 DEF ChainInv, TypeOK
<1> QED BY <1>2, <1>3 DEF Next, q

\* Every event has an author among the requests.
Authored == \A s \in Subjects : \A k \in DOMAIN journal[s] : journal[s][k].by \in Requests

LEMMA NextLate ==
    ASSUME ChainInv, AllOrNothing, Stamped, Authored, LateStampsOrdered, [Next]_vars
    PROVE  LateStampsOrdered' /\ Authored'
<1>1. ASSUME NEW t \in Subjects, journal'[t] = journal[t]
      PROVE  /\ AllLate(t)' => Chronological(t)'
             /\ \A k \in DOMAIN journal'[t] : journal'[t][k].by \in Requests
  <2>1. \A k \in DOMAIN journal[t] :
            req'[journal[t][k].by].shape = req[journal[t][k].by].shape
    BY AuthorsKeepShape DEF Authored
  <2>2. AllLate(t)' => AllLate(t)
    BY <1>1, <2>1 DEF AllLate
  <2>3. Chronological(t)' = Chronological(t)
    BY <1>1 DEF Chronological
  <2> QED BY <1>1, <2>2, <2>3 DEF LateStampsOrdered, AllLate, Authored
<1>2. CASE main' = main /\ journal' = journal
  BY <1>1, <1>2 DEF LateStampsOrdered, AllLate, Authored
<1>3. ASSUME NEW r \in Requests, NEW outcome \in {"ok", "lost"}, Commit(r, outcome)
      PROVE  LateStampsOrdered' /\ Authored'
  <2>s. PICK s \in Subjects : s = req[r].subject
    BY DEF ChainInv, TypeOK, Request
  <2>n. PICK n : n = Height(s)
    OBVIOUS
  <2>m. PICK m : m = Len(Batch(r))
    OBVIOUS
  <2>1. /\ n \in Nat
        /\ m = IF req[r].shape = "submit" THEN 2 ELSE 1
        /\ prev[r].seq = n
        /\ DOMAIN journal[s] = 1 .. n
        /\ \A u \in Subjects : u # s => journal'[u] = journal[u] /\ Height(u)' = Height(u)
        /\ DOMAIN journal'[s] = 1 .. n + m
        /\ \A k \in 1 .. n : journal'[s][k] = journal[s][k]
        /\ journal'[s][n + 1] = First(r)
        /\ req[r].shape = "submit" => journal'[s][n + 2] = Second(r)
    BY <1>3, <2>s, <2>n, <2>m, CommitExtends
  <2>2. /\ First(r).by = r /\ Second(r).by = r
        /\ First(r).at = req[r].at
    BY EventFields DEF First, Second
  <2>3. ASSUME NEW k \in DOMAIN journal'[s]
        PROVE  journal'[s][k].by \in Requests
    <3>1. k \in 1 .. n \/ k = n + 1 \/ (req[r].shape = "submit" /\ k = n + 2)
      BY <2>1, <2>3
    <3> QED BY <2>1, <2>2, <3>1 DEF Authored
  <2>4. ASSUME AllLate(s)'
        PROVE  Chronological(s)'
    <3>1. n + 1 \in DOMAIN journal'[s] /\ 1 .. n \subseteq DOMAIN journal'[s]
      BY <2>1
    <3>2. req'[r].shape = "org" /\ req'[r].shape = req[r].shape
      BY <1>3, <2>1, <2>2, <2>4, <3>1 DEF AllLate, Commit, ChainInv, TypeOK, Request
    <3>3. m = 1
      BY <2>1, <3>2
    <3>4. \A k \in 1 .. n : req[journal[s][k].by].shape = "org"
      <4> SUFFICES ASSUME NEW k \in 1 .. n PROVE req[journal[s][k].by].shape = "org"
        OBVIOUS
      <4>1. k \in DOMAIN journal[s] /\ journal[s][k].by \in Requests
        BY <2>1 DEF Authored
      <4>2. req'[journal[s][k].by].shape = req[journal[s][k].by].shape
        BY <4>1, AuthorsKeepShape
      <4>3. req'[journal'[s][k].by].shape = "org"
        BY <2>4, <3>1 DEF AllLate
      <4> QED BY <2>1, <4>2, <4>3
    <3>5. Chronological(s)
      BY <2>1, <3>4 DEF LateStampsOrdered
    <3>6. ASSUME NEW k \in 1 .. n + 1, k > 1
          PROVE  journal'[s][k - 1].at <= journal'[s][k].at
      <4>1. k - 1 \in 1 .. n /\ n # 0
        BY <2>1, <3>6
      <4>2. CASE k \in 1 .. n
        BY <2>1, <3>5, <3>6, <4>1, <4>2 DEF Chronological
      <4>3. CASE k = n + 1
        <5>1. prev[r] = journal[s][n] /\ prev[r].at <= req[r].at
          BY <1>3, <2>s, <2>1, <3>2, <4>1
             DEF Commit, ChainInv, PrevInJournal, Stamped
        <5>2. k - 1 = n /\ journal'[s][k - 1] = journal[s][n]
          BY <2>1, <4>1, <4>3
        <5> QED BY <2>1, <2>2, <4>3, <5>1, <5>2
      <4> QED BY <2>1, <4>2, <4>3
    <3> QED BY <2>1, <3>3, <3>6 DEF Chronological
  <2>5. ASSUME NEW t \in Subjects
        PROVE  /\ AllLate(t)' => Chronological(t)'
               /\ \A k \in DOMAIN journal'[t] : journal'[t][k].by \in Requests
    BY <1>1, <2>1, <2>3, <2>4
  <2> QED BY <2>5 DEF LateStampsOrdered, AllLate, Authored
<1> QED BY <1>2, <1>3, OnlyCommits

LEMMA InitLate == Init => Stamped /\ Authored /\ LateStampsOrdered
BY DEF Init, Stamped, Authored, LateStampsOrdered, Chronological, Blank, NoEvent

LEMMA SpecLate == Spec => [](ChainInv /\ AllOrNothing /\ Authored /\ LateStampsOrdered)
<1>1. ChainInv /\ AllOrNothing /\ Stamped /\ Authored /\ LateStampsOrdered /\ [Next]_vars
          => Stamped' /\ Authored' /\ LateStampsOrdered'
  BY NextStamped, NextLate
<1> QED BY <1>1, InitLate, InitChainInv, NextChainInv, InitOnce, NextOnce, PTL DEF Spec

\* A chain whose events all took their time while being built is in the order of
\* its timestamps, whatever raced on it (identity/directory.go:236-243).
THEOREM LateStampsKeepOrder == Spec => []LateStampsOrdered
BY SpecLate, PTL

-----------------------------------------------------------------------------
(* A conflict is paid for by somebody else's success *)

\* What is read is the last event of the chain.
LEMMA LastIsHighest ==
    ASSUME ChainInv, NEW s \in Subjects
    PROVE  LastAuditEvent(s).seq = Height(s) /\ DOMAIN journal[s] = 1 .. Height(s) /\ Height(s) \in Nat
<1>1. DOMAIN journal[s] = 1 .. Height(s) /\ Height(s) \in Nat
  BY DEF ChainInv, TypeOK, ChainIntact, Contiguous
<1>2. CASE Height(s) = 0
  <2>1. DOMAIN journal[s] = {}
    BY <1>1, <1>2
  <2> QED BY <1>1, <1>2, <2>1 DEF LastAuditEvent, NoEvent
<1>3. CASE Height(s) # 0
  <2>1. Height(s) \in DOMAIN journal[s]
    BY <1>1, <1>3
  <2>2. journal[s][Height(s)].seq = Height(s)
    BY <2>1 DEF ChainInv, ChainIntact, Unaltered
  <2> QED BY <1>1, <2>1, <2>2 DEF LastAuditEvent
<1> QED BY <1>2, <1>3

\* The rank that a write without a business condition finds taken is the rank of another.
LEMMA ConflictOvertaken ==
    ASSUME ChainInv, AllOrNothing, Authored,
           NEW r \in Requests, Conflict(r), req[r].allowed = Item
    PROVE  Overtaken(r)
<1>1. PICK s \in Subjects : s = req[r].subject
  BY DEF ChainInv, TypeOK, Request
<1>2. ConditionHolds(r)
  BY <1>1 DEF ConditionHolds, ChainInv, TypeOK
<1>3. PICK k \in Ranks(r) : k \in DOMAIN journal[s]
  BY <1>1, <1>2 DEF Conflict, RankFree
<1>4. k > prev[r].seq
  <2>1. PICK m \in {1, 2} : m = Len(Batch(r))
    BY BatchLength
  <2>2. prev[r].seq \in Nat
    BY DEF ChainInv, TypeOK
  <2> QED BY <1>3, <2>1, <2>2 DEF Ranks
<1>5. PICK q \in Requests : q = journal[s][k].by
  BY <1>3 DEF Authored
<1>6. k \in RanksOf(q, s)
  BY <1>3, <1>5 DEF RanksOf
<1>7. req[q].pc \in {"ok", "lost"}
  BY <1>6 DEF AllOrNothing
<1>8. q # r
  BY <1>7 DEF Conflict
<1> QED BY <1>1, <1>3, <1>4, <1>5, <1>7, <1>8 DEF Overtaken

\* A turn of the loop reads at or above every event of its chain.
LEMMA ReadsEverything ==
    ASSUME ChainInv, NEW r \in Requests, ReadLast(r)
    PROVE  ReadsAll(r)
<1>1. PICK s \in Subjects : s = req[r].subject
  BY DEF ChainInv, TypeOK, Request
<1>2. prev'[r] = LastAuditEvent(s)
  BY <1>1 DEF ReadLast, ChainInv, TypeOK
<1> QED BY <1>1, <1>2, LastIsHighest DEF ReadsAll

\* Every conflict of a write that carries no business condition comes of an event that
\* another request, which committed, wrote since this turn read, and the next turn reads
\* it: no two conflicts are paid for by the same success (audit_store.go:105-148).
THEOREM ConflictsAreProgress == Spec => ConflictMeansProgress
<1> DEFINE Paid == \A r \in Requests :
          /\ (req'[r].attempt = req[r].attempt + 1 /\ req[r].allowed = Item) => Overtaken(r)
          /\ (req[r].pc = "read" /\ req'[r].pc = "write") => ReadsAll(r)
<1>1. ChainInv /\ AllOrNothing /\ Authored /\ [Next]_vars => [Paid]_vars
  <2> SUFFICES ASSUME ChainInv, AllOrNothing, Authored, Next, NEW q \in Requests
               PROVE  /\ (req'[q].attempt = req[q].attempt + 1 /\ req[q].allowed = Item) => Overtaken(q)
                      /\ (req[q].pc = "read" /\ req'[q].pc = "write") => ReadsAll(q)
    BY DEF Overtaken, ReadsAll
  <2>a. req[q].attempt \in Nat /\ req[q].attempt # req[q].attempt + 1 /\ 0 # req[q].attempt + 1
    <3>1. req[q].attempt \in Nat
      BY ConstantsOK DEF ChainInv, TypeOK, Request
    <3> QED BY <3>1
  <2>1. CASE req'[q] = req[q]
    BY <2>a, <2>1
  <2>2. CASE Conflict(q)
    <3>1. req[q].pc = "write"
      BY <2>2 DEF Conflict
    <3> QED BY <2>2, <3>1, ConflictOvertaken
  <2>3. CASE ReadLast(q)
    <3>1. req'[q].attempt = req[q].attempt
      BY <2>3 DEF ReadLast, ChainInv, TypeOK, Request
    <3> QED BY <2>a, <2>3, <3>1, ReadsEverything
  <2>4. ASSUME \/ \E t \in Subjects, shape \in Shapes, v \in Item : Begin(q, t, shape, v)
               \/ \E outcome \in {"ok", "lost"} : Commit(q, outcome)
               \/ Fail(q)
        PROVE  (req'[q].attempt = 0 \/ req'[q].attempt = req[q].attempt) /\ req'[q].pc # "write"
    BY <2>4 DEF Begin, Commit, Fail, Blank, ChainInv, TypeOK, Request
  <2>5. ASSUME NEW r \in Requests, r # q,
               \/ \E t \in Subjects, shape \in Shapes, v \in Item : Begin(r, t, shape, v)
               \/ ReadLast(r) \/ Transact(r) \/ Fail(r)
        PROVE  req'[q] = req[q]
    BY <2>5 DEF Begin, ReadLast, Transact, Commit, Conflict, Fail, ChainInv, TypeOK
  <2>6. CASE Tick
    BY <2>1, <2>6 DEF Tick
  <2> QED BY <2>a, <2>1, <2>2, <2>3, <2>4, <2>5, <2>6 DEF Next, Transact
<1> QED BY <1>1, SpecLate, PTL DEF Spec, ConflictMeansProgress
=============================================================================
