----------------------------- MODULE Signature -----------------------------
(***************************************************************************)
(* The electronic signature of documents (signature/service.go,            *)
(* signature/model.go): requests issued to a signer, one-time codes, and   *)
(* the confirmation that seals and archives the document.                  *)
(*                                                                         *)
(* Every handler reads the request, then writes the whole of it back.      *)
(* Only the last write of Confirm has a condition (status <> signed); the  *)
(* opening, the sending of a code, a failed code and an accepted code are  *)
(* put over whatever the request has become.  The document is archived in  *)
(* the blob store, under a key made of its reference, before the           *)
(* transaction that records the signature.                                 *)
(*                                                                         *)
(* One file, hence one audit chain.  A journalled write is one atomic step *)
(* (AuditLog implements Ledger).  A sealed document goes by the handler    *)
(* that sealed it, a one-time code by the handler that sent it; what a     *)
(* document says is rendered anew, from the file, each time it is needed.  *)
(***************************************************************************)
EXTENDS Naturals, Sequences, FiniteSets

CONSTANTS
    Requests,        \* signature requests of the file
    References,      \* document references
    Contents,        \* what the file may give a document to say
    Handlers,        \* handler executions
    Kinds,           \* which handlers run, a subset of AllKinds
    None,            \* an attribute that is not set, a key without an object
    Wrong,           \* a code nobody sent
    LinkTTL,         \* validity of a link, in ticks
    OTPTTL,          \* validity of a code, in ticks
    MaxOTPAttempts,  \* tries a code allows
    Horizon          \* bound on the clock

AllKinds == {"open", "send", "confirm"}

ASSUME SignatureConstants ==
    /\ Requests # {} /\ Kinds \subseteq AllKinds
    /\ None \notin Handlers \cup {Wrong} /\ Wrong \notin Handlers
    /\ LinkTTL \in Nat \ {0} /\ OTPTTL \in Nat /\ MaxOTPAttempts \in Nat \ {0}
    /\ Horizon \in Nat

VARIABLES
    clock,    \* the servers' clock
    content,  \* what a document rendered from the file says
    request,  \* request[q]: the item of request q
    chain,    \* the audit chain of the file
    archive,  \* archive[ref]: the sealed document under the key of ref
    drawing,  \* drawing[q]: the drawing under the key of q
    job       \* job[h]: where handler h is, with the copy it read

vars == <<clock, content, request, chain, archive, drawing, job>>

\* A request not issued yet, and a handler not started.
NotIssued == [status |-> "none", reference |-> None, unsigned |-> None, expires |-> 0,
              code |-> None, codeUntil |-> 0, attempts |-> 0, proof |-> None]

Idle == [pc |-> "idle", kind |-> "open", req |-> CHOOSE q \in Requests : TRUE,
         copy |-> NotIssued, now |-> 0, typed |-> Wrong, drawn |-> FALSE, rendered |-> None]

Init == /\ clock = 0
        /\ content \in Contents
        /\ request = [q \in Requests |-> NotIssued]
        /\ chain = <<>>
        /\ archive = [ref \in References |-> None]
        /\ drawing = [q \in Requests |-> None]
        /\ job = [h \in Handlers |-> Idle]

Event(action, q, h, at) == [action |-> action, req |-> q, by |-> h, at |-> at]

\* The item of q becomes copy and the event joins the chain, in one transaction.
WriteWithAudit(q, copy, event) ==
    /\ request' = [request EXCEPT ![q] = copy]
    /\ chain' = Append(chain, event)

-----------------------------------------------------------------------------
(* Issue *)

\* A fresh request, with the fingerprint of the document, its pointer by token, and
\* the event.
Issue(q, ref) ==
    /\ request[q] = NotIssued
    /\ WriteWithAudit(q, [NotIssued EXCEPT !.status = "pending", !.reference = ref,
                                           !.unsigned = content, !.expires = clock + LinkTTL],
                      Event("document.sent", q, None, clock))
    /\ UNCHANGED <<clock, content, archive, drawing, job>>

-----------------------------------------------------------------------------
(* Resolve and Signable *)

Expired(item, now) == now >= item.expires

Signable(item, now) == item.status \notin {"signed", "cancelled"} /\ ~ Expired(item, now)

\* The request behind the token is read and must be signable at the time the
\* handler takes.
Resolve(h, kind, q, pc, typed, drawn) ==
    /\ job[h].pc = "idle" /\ kind \in Kinds
    /\ request[q] # NotIssued /\ Signable(request[q], clock)
    /\ job' = [job EXCEPT ![h] = [pc |-> pc, kind |-> kind, req |-> q, copy |-> request[q],
                                  now |-> clock, typed |-> typed, drawn |-> drawn,
                                  rendered |-> None]]
    /\ UNCHANGED <<clock, content, request, chain, archive, drawing>>

Goto(h, pc) == job' = [job EXCEPT ![h].pc = pc]

-----------------------------------------------------------------------------
(* Open: the document must say what it said at the issue; the first opening is
   recorded *)

ReadOpen(h, q) == /\ request[q].status = "pending" /\ request[q].unsigned = content
                  /\ Resolve(h, "open", q, "write", Wrong, FALSE)

WriteOpen(h) ==
    /\ job[h].pc = "write" /\ job[h].kind = "open"
    /\ \E at \in job[h].now .. clock :
          WriteWithAudit(job[h].req, [job[h].copy EXCEPT !.status = "opened"],
                         Event("signature.opened", job[h].req, h, at))
    /\ Goto(h, "done")
    /\ UNCHANGED <<clock, content, archive, drawing>>

-----------------------------------------------------------------------------
(* SendOTP: a new code replaces the one before, its tries start at zero *)

ReadSend(h, q) == Resolve(h, "send", q, "write", Wrong, FALSE)

NewCode(h) == [job[h].copy EXCEPT !.code = h, !.codeUntil = job[h].now + OTPTTL,
                                  !.attempts = 0, !.status = "otp_sent"]

WriteSend(h) ==
    /\ job[h].pc = "write" /\ job[h].kind = "send"
    /\ WriteWithAudit(job[h].req, NewCode(h),
                      Event("signature.otp_sent", job[h].req, h, job[h].now))
    /\ Goto(h, "done")
    /\ UNCHANGED <<clock, content, archive, drawing>>

-----------------------------------------------------------------------------
(* Confirm *)

\* The signer types a code that was mailed, or a wrong one, and draws, well enough
\* or not.
Mailed(h) == job[h].pc = "done" /\ job[h].kind = "send"

ReadConfirm(h, q, typed, drawn) ==
    /\ typed # Wrong => Mailed(typed)
    /\ Resolve(h, "confirm", q, "verify", typed, drawn)

\* Without a code, or with its tries used up, the confirmation ends at once.
CodeAvailable(item) == item.code # None /\ item.attempts < MaxOTPAttempts

\* Faulty: a code stays good for ever.
FaultyCodeAccepted(h) == CodeAvailable(job[h].copy) /\ job[h].typed = job[h].copy.code

CodeAccepted(h) ==
    /\ CodeAvailable(job[h].copy)
    /\ job[h].now <= job[h].copy.codeUntil
    /\ job[h].typed = job[h].copy.code

\* verifyOTP, refused: the try is counted on the copy that was read, and the last one
\* burns the code of that copy.
Burned(item) == [item EXCEPT !.attempts = @ + 1,
                             !.code = IF item.attempts + 1 >= MaxOTPAttempts THEN None ELSE @]

RefuseCode(h) ==
    /\ job[h].pc = "verify"
    /\ CodeAvailable(job[h].copy) /\ ~ CodeAccepted(h)
    /\ WriteWithAudit(job[h].req, Burned(job[h].copy),
                      Event("signature.otp_failed", job[h].req, h, job[h].now))
    /\ Goto(h, "refused")
    /\ UNCHANGED <<clock, content, archive, drawing>>

\* verifyOTP, accepted: the code is used up.  Then the drawing is judged.
AcceptCode(h) ==
    /\ job[h].pc = "verify" /\ CodeAccepted(h)
    /\ LET used == [job[h].copy EXCEPT !.code = None]
       IN  /\ WriteWithAudit(job[h].req, used,
                             Event("signature.otp_verified", job[h].req, h, job[h].now))
           /\ job' = [job EXCEPT ![h].pc = IF job[h].drawn THEN "store" ELSE "refused",
                                 ![h].copy = used]
    /\ UNCHANGED <<clock, content, archive, drawing>>

\* The drawing is stored; the document is rendered with it from the file as it is now,
\* and sealed.
StoreDrawing(h) ==
    /\ job[h].pc = "store"
    /\ drawing' = [drawing EXCEPT ![job[h].req] = h]
    /\ job' = [job EXCEPT ![h].pc = "archive", ![h].rendered = content]
    /\ UNCHANGED <<clock, content, request, chain, archive>>

\* The sealed document is stored under the key of its reference.
ArchiveSealed(h) ==
    /\ job[h].pc = "archive"
    /\ archive' = [archive EXCEPT ![job[h].copy.reference] = h]
    /\ Goto(h, "sign")
    /\ UNCHANGED <<clock, content, request, chain, drawing>>

\* The copy with its proof, and the condition it is put under.
SignedCopy(h) == [job[h].copy EXCEPT !.status = "signed", !.proof = h, !.code = None]

\* Faulty: the last write has no condition either.
FaultyNotSigned(q) == request[q] # NotIssued

NotSigned(q) == request[q].status # "signed"

Sign(h) ==
    /\ job[h].pc = "sign" /\ NotSigned(job[h].req)
    /\ WriteWithAudit(job[h].req, SignedCopy(h),
                      Event("document.signed", job[h].req, h, job[h].now))
    /\ Goto(h, "done")
    /\ UNCHANGED <<clock, content, archive, drawing>>

-----------------------------------------------------------------------------
(* Failures and time *)

\* A condition refused, no code to check, an error of a store or of the sealing, the
\* death of the instance: the handler stops where it is.
Stop(h) ==
    /\ job[h].pc \in {"write", "verify", "store", "archive", "sign"}
    /\ Goto(h, "stopped")
    /\ UNCHANGED <<clock, content, request, chain, archive, drawing>>

\* The file, a contact or the organisation is edited: a document says something else.
EditFile(said) ==
    /\ said # content /\ content' = said
    /\ UNCHANGED <<clock, request, chain, archive, drawing, job>>

Tick == /\ clock < Horizon
        /\ clock' = clock + 1
        /\ UNCHANGED <<content, request, chain, archive, drawing, job>>

Handle(h) ==
    \/ \E q \in Requests :
          \/ ReadOpen(h, q) \/ ReadSend(h, q)
          \/ \E typed \in Handlers \cup {Wrong}, drawn \in BOOLEAN : ReadConfirm(h, q, typed, drawn)
    \/ WriteOpen(h) \/ WriteSend(h)
    \/ RefuseCode(h) \/ AcceptCode(h) \/ StoreDrawing(h) \/ ArchiveSealed(h) \/ Sign(h)
    \/ Stop(h)

Next == \/ Tick
        \/ \E said \in Contents : EditFile(said)
        \/ \E q \in Requests, ref \in References : Issue(q, ref)
        \/ \E h \in Handlers : Handle(h)

Spec == Init /\ [][Next]_vars

-----------------------------------------------------------------------------
(* Properties *)

\* The ranks of the events of an action on q.
RanksOf(action, q) == {k \in DOMAIN chain : chain[k].action = action /\ chain[k].req = q}

Item == [status : {"none", "pending", "opened", "otp_sent", "signed", "cancelled"},
         reference : References \cup {None}, unsigned : Contents \cup {None}, expires : 0 .. Horizon + LinkTTL,
         code : Handlers \cup {None}, codeUntil : 0 .. Horizon + OTPTTL,
         attempts : 0 .. MaxOTPAttempts, proof : Handlers \cup {None}]

\* The copies the handlers work on are requests that were not signed nor cancelled.
TypeOK ==
    /\ clock \in 0 .. Horizon /\ content \in Contents
    /\ request \in [Requests -> Item]
    /\ archive \in [References -> Handlers \cup {None}]
    /\ drawing \in [Requests -> Handlers \cup {None}]
    /\ DOMAIN job = Handlers
    /\ \A h \in Handlers : /\ job[h].req \in Requests /\ job[h].copy \in Item
                           /\ job[h].copy.status \notin {"signed", "cancelled"}

\* The signature journalled at rank k came in order and in time: its handler had a code
\* accepted, the code the signer typed was sent before that for the same request and
\* less than OTPTTL earlier, and the link was issued before and had not expired.
InOrder(q, k) ==
    \E v \in RanksOf("signature.otp_verified", q),
       s \in RanksOf("signature.otp_sent", q),
       i \in RanksOf("document.sent", q) :
          /\ i < s /\ s < v /\ v < k
          /\ chain[v].by = chain[k].by
          /\ chain[s].by = job[chain[k].by].typed
          /\ chain[v].at <= chain[s].at + OTPTTL
          /\ chain[k].at < chain[i].at + LinkTTL

\* Whatever handlers race on a request: every signature of its chain came in order and in
\* time, after its document and its drawing were stored; a request shows a proof if and
\* only if it is signed, and the proof of such a signature; and a request that counts its
\* last try holds no code (service.go:276, 338, 342, 349-356, 388-394, 396-446, 461-469,
\* 485-498).  The last is said of the request as it stands and no more: a write of a copy
\* read before may put the burned code back, with fewer tries counted, and more than
\* MaxOTPAttempts tries of one code may be judged, against what service.go:466-468 says.
ProofInOrder ==
    /\ TypeOK
    /\ \A q \in Requests :
          /\ \A k \in RanksOf("document.signed", q) :
                InOrder(q, k) /\ archive[request[q].reference] # None /\ drawing[q] # None
          /\ request[q].status = "signed" <=> request[q].proof # None
          /\ request[q].proof # None =>
                \E k \in RanksOf("document.signed", q) : chain[k].by = request[q].proof
          /\ request[q].attempts = MaxOTPAttempts => request[q].code = None

\* Two signatures of a request never follow each other directly: a write without a
\* condition, journalled between them, brought the request back to unsigned.  The
\* condition of Confirm alone lets one of two confirmations through.
OnlyStaleWritesReopen ==
    \A q \in Requests : \A k1, k2 \in RanksOf("document.signed", q) : k1 < k2 =>
        \E j \in k1 + 1 .. k2 - 1 :
            /\ chain[j].req = q
            /\ chain[j].action \in {"signature.opened", "signature.otp_sent",
                                    "signature.otp_failed", "signature.otp_verified"}

\* A request is signed once.  service.go:422-424: two simultaneous submissions cannot
\* produce two signatures.
OneSignature == \A q \in Requests : Cardinality(RanksOf("document.signed", q)) <= 1
=============================================================================
