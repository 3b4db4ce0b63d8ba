------------------------------ MODULE CrmFile ------------------------------
(***************************************************************************)
(* A commercial file, its pipeline stage, and every writer of its item     *)
(* (crm/service.go, crm/proof.go, catalog/service.go).                     *)
(*                                                                         *)
(* All writers replace the whole item from a copy they read earlier.       *)
(* MoveFile is conditioned on the stage it read; SetFunding, FileWithProof *)
(* and the link Enroll puts on the file are not conditioned on anything,   *)
(* and the first two leave no event.  Handlers interleave between their    *)
(* reads and their write.                                                  *)
(*                                                                         *)
(* A journalled write (WriteWithAudit) is one atomic step: AuditLog        *)
(* implements Ledger.  Its retries are the delay before that step.         *)
(* Identifiers are fresh, prices, titles, tags and index keys are left     *)
(* out, and an enrollment is that of the learner of the file.              *)
(***************************************************************************)
EXTENDS Naturals, Sequences, FiniteSets

CONSTANTS
    Files,       \* file identifiers
    Stages,      \* pipeline stages, "prospect" and "closed" among them
    Fundings,    \* funding sources
    Sessions,    \* training sessions
    None,        \* an attribute that is not set
    NoFile,      \* no item under this key
    Handlers,    \* handler executions
    Kinds,       \* which handlers run
    Facts        \* events the other components append to a file's chain

AllKinds == {"move", "fund", "proof", "enroll"}

\* The handlers that put the file's item without a condition.
Plain == {"fund", "proof", "enroll"}

VARIABLES
    files,      \* files[f]: the item of file f
    history,    \* history[f]: the audit chain of f
    closed,     \* the sessions that are closed
    enrolled,   \* the enrollments that exist, as <<session, file>>
    job         \* job[h]: where handler h is, with the copy it read

vars == <<files, history, closed, enrolled, job>>

-----------------------------------------------------------------------------
(* The audit chain and what is deduced from it *)

\* Actions and payloads, every field always present.
Fact(action, kind, ref) ==
    [action |-> action, kind |-> kind, ref |-> ref, from |-> None, to |-> None]

Created == Fact("file.created", None, None)
Moved(from, to) == [Fact("file.stage_changed", None, None) EXCEPT !.from = from, !.to = to]
\* An enrollment is journalled under the same action as a move, with no stages.
Enrolled(s) == Fact("file.stage_changed", "enrollment", s)

ASSUME FileConstants ==
    /\ Files # {} /\ {"prospect", "closed"} \subseteq Stages
    /\ None \notin Stages
    /\ Kinds \subseteq AllKinds
    /\ \A e \in Facts : e = Fact(e.action, e.kind, e.ref) /\ e.action # "file.stage_changed"

\* Document kinds whose signature, and quiz kinds whose submission, is a piece.
SignedPieces == {"quote", "convention"}
QuizPieces == {"positioning", "post_module", "final", "satisfaction_hot", "satisfaction_cold"}

\* Events that are a piece by themselves.
PieceOf == [action \in {"consent.given", "document.generated", "watch.progress",
                        "module.completed", "attendance.signed", "certificate.issued"} |->
               CASE action \in {"watch.progress", "module.completed"} -> "connection"
                 [] OTHER -> action]

\* A signed document counts if its reference was sent earlier in the chain, under
\* the kind it was last sent with.
Names(chain, j, k) == /\ chain[j].action = "document.sent"
                      /\ chain[j].kind # None /\ chain[j].ref # None
                      /\ chain[j].ref = chain[k].ref

\* Faulty: the references are read in a first pass over the whole chain.
FaultySentBefore(chain, k) == {j \in DOMAIN chain : Names(chain, j, k)}

SentBefore(chain, k) == {j \in 1 .. k - 1 : Names(chain, j, k)}

SignedKinds(chain) ==
    {kind \in SignedPieces :
        \E k \in DOMAIN chain : \E j \in SentBefore(chain, k) :
            /\ chain[k].action = "document.signed"
            /\ \A i \in SentBefore(chain, k) : i <= j
            /\ chain[j].kind = kind}

\* The pieces of the probative file a chain proves, and the learner's identity
\* document, which is not in the chain.
ComputeProof(chain, identity) ==
    (IF identity THEN {"identity"} ELSE {})
    \cup {PieceOf[chain[k].action] : k \in {j \in DOMAIN chain : chain[j].action \in DOMAIN PieceOf}}
    \cup SignedKinds(chain)
    \cup {kind \in QuizPieces : \E k \in DOMAIN chain :
                                   chain[k].action = "quiz.submitted" /\ chain[k].kind = kind}

-----------------------------------------------------------------------------
(* The file *)

NewFile == [stage |-> "prospect", dated |-> FALSE, funding |-> None, session |-> None,
            pieces |-> {}]

Idle == [pc |-> "idle", kind |-> "move", file |-> CHOOSE f \in Files : TRUE,
         copy |-> NoFile, arg |-> None]

Init == /\ files = [f \in Files |-> NoFile]
        /\ history = [f \in Files |-> <<>>]
        /\ closed = {}
        /\ enrolled = {}
        /\ job = [h \in Handlers |-> Idle]

\* CreateFile: a fresh identifier, the item and the first event.
CreateFile(f) ==
    /\ files[f] = NoFile /\ history[f] = <<>>
    /\ \A h \in Handlers : job[h].pc # "write" \/ job[h].file # f
    /\ files' = [files EXCEPT ![f] = NewFile]
    /\ history' = [history EXCEPT ![f] = <<Created>>]
    /\ UNCHANGED <<closed, enrolled, job>>

\* GetFile (or GetRaw for an enrollment): a handler takes its copy.
Take(h, kind, f, arg) ==
    /\ job[h].pc = "idle" /\ kind \in Kinds
    /\ job' = [job EXCEPT ![h] = [pc |-> "write", kind |-> kind, file |-> f,
                                  copy |-> files[f], arg |-> arg]]
    /\ UNCHANGED <<files, history, closed, enrolled>>

End(h) == job' = [job EXCEPT ![h].pc = "done"]

-----------------------------------------------------------------------------
(* MoveFile *)

\* A missing file is an error, a move to the stage it is in does nothing.
ReadMove(h, f, to) ==
    /\ files[f] # NoFile /\ files[f].stage # to
    /\ Take(h, "move", f, to)

MovedCopy(h) == [job[h].copy EXCEPT !.stage = job[h].arg,
                                    !.dated = @ \/ job[h].arg = "closed"]

\* Faulty: no condition on the stage.
FaultyStageUnchanged(h) == files[job[h].file] # NoFile

\* The condition on the stage the copy was read with.
StageUnchanged(h) == /\ files[job[h].file] # NoFile
                     /\ files[job[h].file].stage = job[h].copy.stage

\* Faulty: the item is put, then the event appended by a call whose error is ignored.
FaultyWriteMove(h) ==
    LET f == job[h].file
    IN  /\ job[h].pc = "write" /\ job[h].kind = "move"
        /\ StageUnchanged(h)
        /\ files' = [files EXCEPT ![f] = MovedCopy(h)]
        /\ \E lost \in BOOLEAN :
              history' = IF lost THEN history
                         ELSE [history EXCEPT ![f] = Append(@, Moved(job[h].copy.stage, job[h].arg))]
        /\ End(h)
        /\ UNCHANGED <<closed, enrolled>>

WriteMove(h) ==
    LET f == job[h].file
    IN  /\ job[h].pc = "write" /\ job[h].kind = "move"
        /\ StageUnchanged(h)
        /\ files' = [files EXCEPT ![f] = MovedCopy(h)]
        /\ history' = [history EXCEPT ![f] = Append(@, Moved(job[h].copy.stage, job[h].arg))]
        /\ End(h)
        /\ UNCHANGED <<closed, enrolled>>

-----------------------------------------------------------------------------
(* SetFunding *)

ReadFund(h, f, source) == files[f] # NoFile /\ Take(h, "fund", f, source)

WriteFund(h) ==
    LET f == job[h].file
    IN  /\ job[h].pc = "write" /\ job[h].kind = "fund"
        /\ files' = [files EXCEPT ![f] = [job[h].copy EXCEPT !.funding = job[h].arg]]
        /\ End(h)
        /\ UNCHANGED <<history, closed, enrolled>>

-----------------------------------------------------------------------------
(* FileWithProof: two reads, and a write only if the count has changed *)

ReadForProof(h, f) == files[f] # NoFile /\ Take(h, "proof", f, None)

\* The timeline, then the learner's contact, and the count they make.
ReadTimeline(h, identity) ==
    /\ job[h].pc = "write" /\ job[h].kind = "proof" /\ job[h].arg = None
    /\ LET pieces == ComputeProof(history[job[h].file], identity)
       IN  job' = IF Cardinality(pieces) = Cardinality(job[h].copy.pieces)
                  THEN [job EXCEPT ![h].pc = "done"]
                  ELSE [job EXCEPT ![h].arg = pieces]
    /\ UNCHANGED <<files, history, closed, enrolled>>

WriteProof(h) ==
    LET f == job[h].file
    IN  /\ job[h].pc = "write" /\ job[h].kind = "proof" /\ job[h].arg # None
        /\ files' = [files EXCEPT ![f] = [job[h].copy EXCEPT !.pieces = job[h].arg]]
        /\ End(h)
        /\ UNCHANGED <<history, closed, enrolled>>

-----------------------------------------------------------------------------
(* Enroll with a file, and the end of a session *)

\* The session is read first and must be open, then the file, which may be missing.
ReadEnroll(h, f, s) == s \notin closed /\ Take(h, "enroll", f, s)

\* Faulty: the enrollment is put without attribute_not_exists.
FaultyWriteEnroll(h) ==
    LET f == job[h].file
        s == job[h].arg
    IN  /\ job[h].pc = "write" /\ job[h].kind = "enroll"
        /\ enrolled' = enrolled \cup {<<s, f>>}
        /\ files' = IF job[h].copy = NoFile THEN files
                    ELSE [files EXCEPT ![f] = [job[h].copy EXCEPT !.session = s]]
        /\ history' = [history EXCEPT ![f] = Append(@, Enrolled(s))]
        /\ End(h)
        /\ UNCHANGED closed

\* The enrollment must be new; the file, if there was one, is put with its link.
WriteEnroll(h) ==
    LET f == job[h].file
        s == job[h].arg
    IN  /\ job[h].pc = "write" /\ job[h].kind = "enroll"
        /\ <<s, f>> \notin enrolled
        /\ enrolled' = enrolled \cup {<<s, f>>}
        /\ files' = IF job[h].copy = NoFile THEN files
                    ELSE [files EXCEPT ![f] = [job[h].copy EXCEPT !.session = s]]
        /\ history' = [history EXCEPT ![f] = Append(@, Enrolled(s))]
        /\ End(h)
        /\ UNCHANGED closed

CloseSession(s) ==
    /\ s \notin closed
    /\ closed' = closed \cup {s}
    /\ UNCHANGED <<files, history, enrolled, job>>

-----------------------------------------------------------------------------
(* Other events of the file, and failures *)

\* RecordExport, a consent, a document, a quiz, a half-day...: a fact alone.
RecordFact(f, e) ==
    /\ files[f] # NoFile /\ \A k \in DOMAIN history[f] : history[f][k] # e
    /\ history' = [history EXCEPT ![f] = Append(@, e)]
    /\ UNCHANGED <<files, closed, enrolled, job>>

\* A condition refused until the last attempt, an error of the store or the death
\* of the instance: nothing of the handler remains.
GiveUp(h) ==
    /\ job[h].pc = "write"
    /\ job' = [job EXCEPT ![h].pc = "failed"]
    /\ UNCHANGED <<files, history, closed, enrolled>>

Handle(h) ==
    \/ \E f \in Files :
          \/ \E to \in Stages : ReadMove(h, f, to)
          \/ \E source \in Fundings : ReadFund(h, f, source)
          \/ ReadForProof(h, f)
          \/ \E s \in Sessions : ReadEnroll(h, f, s)
    \/ \E identity \in BOOLEAN : ReadTimeline(h, identity)
    \/ WriteMove(h) \/ WriteFund(h) \/ WriteProof(h) \/ WriteEnroll(h)
    \/ GiveUp(h)

Next == \/ \E f \in Files : CreateFile(f) \/ \E e \in Facts : RecordFact(f, e)
        \/ \E s \in Sessions : CloseSession(s)
        \/ \E h \in Handlers : Handle(h)

Spec == Init /\ [][Next]_vars

-----------------------------------------------------------------------------
(* Properties *)

MoveRanks(f) == {k \in DOMAIN history[f] : history[f][k].to # None}

\* The stage the chain of f says the file is in.
JournalStage(f) ==
    IF MoveRanks(f) = {} THEN "prospect"
    ELSE history[f][CHOOSE k \in MoveRanks(f) : \A j \in MoveRanks(f) : j <= k].to

Pieces == {"identity", "connection"} \cup DOMAIN PieceOf \cup SignedPieces \cup QuizPieces

Item == [stage : Stages, dated : BOOLEAN, funding : Fundings \cup {None},
         session : Sessions \cup {None}, pieces : SUBSET Pieces]

Entry == {Created} \cup Facts \cup {Enrolled(s) : s \in Sessions}
             \cup {Moved(from, to) : from \in Stages, to \in Stages}

\* Items, chains and copies are what the handlers build, and a move in a chain is a
\* change of stage.
TypeOK ==
    /\ files \in [Files -> Item \cup {NoFile}]
    /\ DOMAIN history = Files
    /\ \A f \in Files : \A k \in DOMAIN history[f] :
           history[f][k] \in Entry /\ (history[f][k].to # None => history[f][k].from # history[f][k].to)
    /\ closed \subseteq Sessions /\ enrolled \subseteq Sessions \X Files
    /\ DOMAIN job = Handlers
    /\ \A h \in Handlers : /\ job[h].pc \in {"idle", "write", "done", "failed"}
                           /\ job[h].kind \in AllKinds /\ job[h].file \in Files
                           /\ job[h].copy \in Item \cup {NoFile}

\* A file shows another stage than its chain only if a write without a condition
\* brought back the stage it had read: two moves never do it by themselves
\* (crm/service.go:328-330).
OnlyPlainWritesDiverge ==
    \A f \in Files : files[f] # NoFile /\ files[f].stage # JournalStage(f) =>
        \E h \in Handlers : /\ job[h].pc = "done" /\ job[h].kind \in Plain
                            /\ job[h].file = f /\ job[h].copy # NoFile
                            /\ job[h].copy.stage = files[f].stage

\* Whatever was brought back, a move is journalled from the stage the item had at
\* that instant to the one it takes.
MovesLeaveTheStage ==
    [][\A f \in Files : MoveRanks(f)' # MoveRanks(f) =>
          LET last == history'[f][Len(history'[f])]
          IN  /\ files[f].stage = last.from
              /\ files'[f].stage = last.to]_vars

\* The cached count of pieces never claims a piece the chain does not prove, however
\* late it is written (crm/proof.go:10-16, 83-87); the identity document is not in
\* the chain.
ProofNeverOverstates ==
    \A f \in Files : files[f] # NoFile =>
        files[f].pieces \subseteq ComputeProof(history[f], TRUE)

\* An enrollment is in the chain of its file once, and the session a file is linked
\* to is one its chain has an enrollment for (catalog/service.go:171-174, 200-202).
EnrollmentsJournalled ==
    /\ TypeOK
    /\ \A f \in Files :
        /\ \A s \in Sessions :
              Cardinality({k \in DOMAIN history[f] : history[f][k] = Enrolled(s)})
                  = IF <<s, f>> \in enrolled THEN 1 ELSE 0
        /\ files[f] # NoFile /\ files[f].session # None => <<files[f].session, f>> \in enrolled
=============================================================================
