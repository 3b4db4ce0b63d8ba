--------------------------- MODULE SignatureProofs ---------------------------
(***************************************************************************)
(* Proofs about Signature, for every set of requests, references, contents *)
(* and handlers and all delays: what a signature proves whatever handlers  *)
(* race on its request, and that only a stale write can open it again.     *)
(***************************************************************************)
EXTENDS Signature, TLAPS

-----------------------------------------------------------------------------
(* The inductive invariant *)

Reopening == {"signature.opened", "signature.otp_sent", "signature.otp_failed",
              "signature.otp_verified"}

Events == [action : Reopening \cup {"document.sent", "document.signed"}, req : Requests,
           by : Handlers \cup {None}, at : Nat]

Jobs == [pc : {"idle", "write", "verify", "store", "archive", "sign", "done", "refused", "stopped"},
         kind : AllKinds, req : Requests, copy : Item, now : 0 .. Horizon,
         typed : Handlers \cup {Wrong}, drawn : BOOLEAN, rendered : Contents \cup {None}]

TypeInv ==
    /\ clock \in 0 .. Horizon /\ content \in Contents
    /\ request \in [Requests -> Item]
    /\ chain \in Seq(Events)
    /\ archive \in [References -> Handlers \cup {None}]
    /\ drawing \in [Requests -> Handlers \cup {None}]
    /\ job \in [Handlers -> Jobs]

\* The chain has an issue of q that gives it this end of validity.
Issued(q, expires) ==
    \E i \in RanksOf("document.sent", q) : expires = chain[i].at + LinkTTL

\* The chain has, after such an issue, a code sent by x until this time.
Sent(q, x, until, expires) ==
    \E i \in RanksOf("document.sent", q), s \in RanksOf("signature.otp_sent", q) :
        /\ i < s /\ expires = chain[i].at + LinkTTL
        /\ chain[s].by = x /\ until = chain[s].at + OTPTTL

\* The chain has, after that, the acceptance by h of the code typed, in time.
Verified(q, h, typed, expires) ==
    \E v \in RanksOf("signature.otp_verified", q), s \in RanksOf("signature.otp_sent", q),
       i \in RanksOf("document.sent", q) :
        /\ i < s /\ s < v /\ expires = chain[i].at + LinkTTL
        /\ chain[v].by = h /\ chain[s].by = typed
        /\ chain[v].at <= chain[s].at + OTPTTL

\* What an item of q, or a copy of it, says is in the chain.
Sound(c, q) ==
    /\ c.status = "none" => c = NotIssued
    /\ c.status # "none" => c.reference \in References /\ Issued(q, c.expires)
    /\ c.code # None => Sent(q, c.code, c.codeUntil, c.expires)
    /\ c.status = "signed" <=> c.proof # None
    /\ c.proof # None => \E k \in RanksOf("document.signed", q) : chain[k].by = c.proof
    /\ c.attempts = MaxOTPAttempts => c.code = None

RequestsInv == \A q \in Requests : Sound(request[q], q)

\* What handler h has read and done so far.
JobOK(h, j) ==
    /\ j.copy.status \notin {"signed", "cancelled"}
    /\ j.pc # "idle" =>
          /\ j.copy.status # "none" /\ Sound(j.copy, j.req) /\ j.now < j.copy.expires
          /\ request[j.req].status # "none" /\ request[j.req].reference = j.copy.reference
    /\ j.pc \in {"store", "archive", "sign"} => Verified(j.req, h, j.typed, j.copy.expires)
    /\ j.pc \in {"archive", "sign"} => drawing[j.req] # None
    /\ j.pc = "sign" => archive[j.copy.reference] # None

JobsInv == \A h \in Handlers : JobOK(h, job[h])

\* A signature of the chain came in order, by a handler that has started.
SignedOK(q, k, h) ==
    /\ h \in Handlers /\ chain[k].by = h /\ job[h].pc # "idle"
    /\ \E v \in RanksOf("signature.otp_verified", q), s \in RanksOf("signature.otp_sent", q),
          i \in RanksOf("document.sent", q) :
          /\ i < s /\ s < v /\ v < k
          /\ chain[v].by = h /\ chain[s].by = job[h].typed
          /\ chain[v].at <= chain[s].at + OTPTTL
          /\ chain[k].at < chain[i].at + LinkTTL

SignedInv ==
    \A q \in Requests : \A k \in RanksOf("document.signed", q) :
        /\ \E h : SignedOK(q, k, h)
        /\ request[q].status # "none" /\ request[q].reference \in References
        /\ archive[request[q].reference] # None /\ drawing[q] # None

\* A write that may bring q back to unsigned is journalled after rank k.
Reopened(q, k) ==
    \E j \in DOMAIN chain : k < j /\ chain[j].req = q /\ chain[j].action \in Reopening

ReopenInv ==
    \A q \in Requests : request[q].status # "signed" =>
        \A k \in RanksOf("document.signed", q) : Reopened(q, k)

Inv == TypeInv /\ RequestsInv /\ JobsInv /\ SignedInv

-----------------------------------------------------------------------------
(* The chain only grows *)

\* The entries of the chain are where they were.
Grows == \A k \in DOMAIN chain : k \in DOMAIN chain' /\ chain'[k] = chain[k]

LEMMA AppendGrows ==
    ASSUME chain \in Seq(Events), NEW e \in Events, chain' = Append(chain, e)
    PROVE  /\ Grows /\ chain' \in Seq(Events)
           /\ Len(chain) \in Nat /\ Len(chain') = Len(chain) + 1
           /\ Len(chain) + 1 \in DOMAIN chain' /\ chain'[Len(chain) + 1] = e
           /\ DOMAIN chain = 1 .. Len(chain)
           /\ DOMAIN chain' = DOMAIN chain \cup {Len(chain) + 1}
           /\ \A k \in DOMAIN chain : k \in Nat /\ k < Len(chain) + 1
BY DEF Grows

LEMMA RanksGrow ==
    ASSUME Grows, NEW action, NEW q, NEW k \in RanksOf(action, q)
    PROVE  k \in RanksOf(action, q)' /\ chain'[k] = chain[k]
BY DEF Grows, RanksOf

LEMMA IssuedStays ==
    ASSUME Grows, NEW q, NEW expires, Issued(q, expires)
    PROVE  Issued(q, expires)'
BY RanksGrow DEF Issued

LEMMA SentStays ==
    ASSUME Grows, NEW q, NEW x, NEW until, NEW expires, Sent(q, x, until, expires)
    PROVE  Sent(q, x, until, expires)'
<1>1. PICK i \in RanksOf("document.sent", q), s \in RanksOf("signature.otp_sent", q) :
        /\ i < s /\ expires = chain[i].at + LinkTTL
        /\ chain[s].by = x /\ until = chain[s].at + OTPTTL
  BY DEF Sent
<1>2. /\ i \in RanksOf("document.sent", q)' /\ chain'[i] = chain[i]
      /\ s \in RanksOf("signature.otp_sent", q)' /\ chain'[s] = chain[s]
  BY RanksGrow
<1> QED BY <1>1, <1>2 DEF Sent

LEMMA VerifiedStays ==
    ASSUME Grows, NEW q, NEW h, NEW typed, NEW expires, Verified(q, h, typed, expires)
    PROVE  Verified(q, h, typed, expires)'
<1>1. PICK v \in RanksOf("signature.otp_verified", q), s \in RanksOf("signature.otp_sent", q),
           i \in RanksOf("document.sent", q) :
        /\ i < s /\ s < v /\ expires = chain[i].at + LinkTTL
        /\ chain[v].by = h /\ chain[s].by = typed
        /\ chain[v].at <= chain[s].at + OTPTTL
  BY DEF Verified
<1>2. /\ i \in RanksOf("document.sent", q)' /\ chain'[i] = chain[i]
      /\ s \in RanksOf("signature.otp_sent", q)' /\ chain'[s] = chain[s]
      /\ v \in RanksOf("signature.otp_verified", q)' /\ chain'[v] = chain[v]
  BY RanksGrow
<1> QED BY <1>1, <1>2 DEF Verified

LEMMA SoundStays ==
    ASSUME Grows, NEW c, NEW q, Sound(c, q)
    PROVE  Sound(c, q)'
<1>1. c.status # "none" => c.reference \in References /\ Issued(q, c.expires)'
  BY IssuedStays DEF Sound
<1>2. c.code # None => Sent(q, c.code, c.codeUntil, c.expires)'
  BY SentStays DEF Sound
<1>3. c.proof # None => \E k \in RanksOf("document.signed", q)' : chain'[k].by = c.proof
  BY RanksGrow DEF Sound
<1> QED BY <1>1, <1>2, <1>3 DEF Sound

-----------------------------------------------------------------------------
(* What the handlers write *)

\* The item of q becomes c, of the same reference, and e joins the chain.
Puts(q, ref, c, e) ==
    /\ WriteWithAudit(q, c, e) /\ c \in Item /\ e \in Events /\ e.req = q
    /\ c.status # "none" /\ c.reference = ref

LEMMA Copies ==
    ASSUME TypeInv, JobsInv, NEW h \in Handlers, job[h].pc # "idle"
    PROVE  /\ job[h].req \in Requests /\ job[h].copy \in Item /\ job[h].now \in 0 .. Horizon
           /\ job[h].copy.status \notin {"none", "signed", "cancelled"}
           /\ job[h].copy.proof = None /\ Sound(job[h].copy, job[h].req)
           /\ job[h].now < job[h].copy.expires
BY DEF TypeInv, JobsInv, JobOK, Jobs, Sound

LEMMA OpenWrites ==
    ASSUME TypeInv, JobsInv, NEW h \in Handlers, WriteOpen(h), NEW q, q = job[h].req
    PROVE  \E c, e : /\ Puts(q, job[h].copy.reference, c, e) /\ Sound(c, q)'
                    /\ c.status # "signed" /\ e.action \in Reopening
<1>1. q \in Requests /\ q = job[h].req
  BY Copies DEF WriteOpen
<1>2. PICK copy \in Item : copy = job[h].copy
  BY Copies DEF WriteOpen
<1>3. copy.status \notin {"none", "signed", "cancelled"} /\ Sound(copy, q)
  BY <1>1, <1>2, Copies DEF WriteOpen
<1>4. PICK at \in job[h].now .. clock :
          WriteWithAudit(q, [copy EXCEPT !.status = "opened"], Event("signature.opened", q, h, at))
  BY <1>1, <1>2 DEF WriteOpen
<1>5. at \in Nat
  BY <1>4 DEF TypeInv, Jobs
<1>6. PICK c : c = [copy EXCEPT !.status = "opened"]
  OBVIOUS
<1>7. PICK e : e = Event("signature.opened", q, h, at)
  OBVIOUS
<1>8. /\ c \in Item /\ c.status = "opened" /\ c.reference = copy.reference /\ c.expires = copy.expires
      /\ c.code = copy.code /\ c.codeUntil = copy.codeUntil /\ c.attempts = copy.attempts
      /\ c.proof = copy.proof
  BY <1>6 DEF Item
<1>9. e \in Events /\ e.req = q /\ e.action \in Reopening
  BY <1>1, <1>5, <1>7 DEF Event, Events, Reopening
<1>10. Grows
  BY <1>4, <1>7, <1>9, AppendGrows DEF WriteWithAudit, TypeInv
<1>11. Sound(c, q)
  BY <1>3, <1>8 DEF Sound
<1>12. Sound(c, q)'
  BY <1>10, <1>11, SoundStays
<1> QED BY <1>1, <1>2, <1>4, <1>6, <1>7, <1>8, <1>9, <1>12 DEF Puts

LEMMA SendWrites ==
    ASSUME TypeInv, JobsInv, NEW h \in Handlers, WriteSend(h), NEW q, q = job[h].req
    PROVE  \E c, e : /\ Puts(q, job[h].copy.reference, c, e) /\ Sound(c, q)'
                    /\ c.status # "signed" /\ e.action \in Reopening
<1>1. q \in Requests /\ q = job[h].req
  BY Copies DEF WriteSend
<1>2. PICK copy \in Item : copy = job[h].copy
  BY Copies DEF WriteSend
<1>3. copy.status \notin {"none", "signed", "cancelled"} /\ copy.proof = None /\ Sound(copy, q)
  BY <1>1, <1>2, Copies DEF WriteSend
<1>4. PICK now \in 0 .. Horizon : now = job[h].now
  BY Copies DEF WriteSend
<1>5. PICK c : c = [copy EXCEPT !.code = h, !.codeUntil = now + OTPTTL, !.attempts = 0, !.status = "otp_sent"]
  OBVIOUS
<1>6. PICK e : e = Event("signature.otp_sent", q, h, now)
  OBVIOUS
<1>7. WriteWithAudit(q, c, e)
  BY <1>1, <1>2, <1>4, <1>5, <1>6 DEF WriteSend, NewCode
<1>8. /\ c.status = "otp_sent" /\ c.reference = copy.reference /\ c.expires = copy.expires
      /\ c.code = h /\ c.codeUntil = now + OTPTTL /\ c.attempts = 0 /\ c.proof = copy.proof
  BY <1>5 DEF Item
<1>9. c \in Item
  <2>1. now + OTPTTL \in 0 .. Horizon + OTPTTL /\ 0 \in 0 .. MaxOTPAttempts
    BY SignatureConstants
  <2> QED BY <1>5, <2>1 DEF Item
<1>10. e \in Events /\ e.req = q /\ e.action = "signature.otp_sent" /\ e.by = h /\ e.at = now
  BY <1>1, <1>4, <1>6 DEF Event, Events, Reopening
<1>11. chain' = Append(chain, e)
  BY <1>7 DEF WriteWithAudit
<1>12. PICK n \in Nat : n = Len(chain) + 1
  BY <1>10, <1>11, AppendGrows DEF TypeInv
<1>13. /\ Grows /\ n \in DOMAIN chain' /\ chain'[n] = e
       /\ \A k \in DOMAIN chain : k < n
  BY <1>10, <1>11, <1>12, AppendGrows DEF TypeInv
<1>14. n \in RanksOf("signature.otp_sent", q)'
  BY <1>10, <1>13 DEF RanksOf
<1>15. PICK i \in RanksOf("document.sent", q) : copy.expires = chain[i].at + LinkTTL
  BY <1>3 DEF Sound, Issued
<1>16. i \in RanksOf("document.sent", q)' /\ chain'[i] = chain[i] /\ i < n
  BY <1>13, <1>15, RanksGrow DEF RanksOf
<1>17. Sent(q, h, now + OTPTTL, copy.expires)'
  BY <1>10, <1>13, <1>14, <1>15, <1>16 DEF Sent
<1>18. c.reference \in References /\ Issued(q, c.expires)'
  BY <1>3, <1>8, <1>13, IssuedStays DEF Sound
<1>19. Sound(c, q)'
  BY <1>3, <1>8, <1>17, <1>18, SignatureConstants DEF Sound
<1> QED BY <1>1, <1>2, <1>7, <1>8, <1>9, <1>10, <1>19 DEF Puts, Reopening

LEMMA RefuseWrites ==
    ASSUME TypeInv, JobsInv, NEW h \in Handlers, RefuseCode(h), NEW q, q = job[h].req
    PROVE  \E c, e : /\ Puts(q, job[h].copy.reference, c, e) /\ Sound(c, q)'
                    /\ c.status # "signed" /\ e.action \in Reopening
<1>1. q \in Requests /\ q = job[h].req
  BY Copies DEF RefuseCode
<1>2. PICK copy \in Item : copy = job[h].copy
  BY Copies DEF RefuseCode
<1>3. /\ copy.status \notin {"none", "signed", "cancelled"} /\ copy.proof = None /\ Sound(copy, q)
      /\ copy.attempts < MaxOTPAttempts
  BY <1>1, <1>2, Copies DEF RefuseCode, CodeAvailable
<1>4. PICK c : c = Burned(copy)
  OBVIOUS
<1>5. PICK e : e = Event("signature.otp_failed", q, h, job[h].now)
  OBVIOUS
<1>6. WriteWithAudit(q, c, e)
  BY <1>1, <1>2, <1>4, <1>5 DEF RefuseCode
<1>7. copy.attempts \in Nat /\ copy.attempts + 1 \in 0 .. MaxOTPAttempts
  BY <1>3, SignatureConstants DEF Item
<1>8. /\ c.status = copy.status /\ c.reference = copy.reference /\ c.expires = copy.expires
      /\ c.code = (IF copy.attempts + 1 >= MaxOTPAttempts THEN None ELSE copy.code)
      /\ c.codeUntil = copy.codeUntil /\ c.attempts = copy.attempts + 1 /\ c.proof = copy.proof
  BY <1>4 DEF Item, Burned
<1>9. c \in Item
  <2>1. (IF copy.attempts + 1 >= MaxOTPAttempts THEN None ELSE copy.code) \in Handlers \cup {None}
    BY DEF Item
  <2> QED BY <1>4, <1>7, <2>1 DEF Item, Burned
<1>10. e \in Events /\ e.req = q /\ e.action \in Reopening
  <2>1. job[h].now \in Nat
    BY Copies DEF RefuseCode
  <2> QED BY <1>1, <1>5, <2>1 DEF Event, Events, Reopening
<1>11. Grows
  BY <1>6, <1>10, AppendGrows DEF WriteWithAudit, TypeInv
<1>12. Sound(copy, q)'
  BY <1>3, <1>11, SoundStays
<1>13. Sound(c, q)'
  BY <1>3, <1>7, <1>8, <1>12, SignatureConstants DEF Sound
<1> QED BY <1>1, <1>2, <1>3, <1>6, <1>8, <1>9, <1>10, <1>13 DEF Puts

LEMMA AcceptWrites ==
    ASSUME TypeInv, JobsInv, NEW h \in Handlers, AcceptCode(h), NEW q, q = job[h].req,
           NEW typed, typed = job[h].typed
    PROVE  \E c, e : /\ Puts(q, job[h].copy.reference, c, e) /\ Sound(c, q)'
                    /\ c.status # "signed" /\ e.action \in Reopening
                    /\ c.status = job[h].copy.status /\ c.expires = job[h].copy.expires
                    /\ job' = [job EXCEPT ![h].pc = IF job[h].drawn THEN "store" ELSE "refused",
                                         ![h].copy = c]
                    /\ Verified(q, h, typed, c.expires)'
<1>1. q \in Requests /\ q = job[h].req
  BY Copies DEF AcceptCode
<1>2. PICK copy \in Item : copy = job[h].copy
  BY Copies DEF AcceptCode
<1>3. PICK now \in 0 .. Horizon : now = job[h].now
  BY Copies DEF AcceptCode
<1>4. /\ copy.status \notin {"none", "signed", "cancelled"} /\ copy.proof = None /\ Sound(copy, q)
      /\ copy.code # None /\ now <= copy.codeUntil /\ job[h].typed = copy.code
  BY <1>1, <1>2, <1>3, Copies DEF AcceptCode, CodeAccepted, CodeAvailable
<1>5. PICK c : c = [copy EXCEPT !.code = None]
  OBVIOUS
<1>6. PICK e : e = Event("signature.otp_verified", q, h, now)
  OBVIOUS
<1>7. /\ WriteWithAudit(q, c, e)
      /\ job' = [job EXCEPT ![h].pc = IF job[h].drawn THEN "store" ELSE "refused", ![h].copy = c]
  BY <1>1, <1>2, <1>3, <1>5, <1>6 DEF AcceptCode
<1>8. /\ c \in Item /\ c.status = copy.status /\ c.reference = copy.reference /\ c.expires = copy.expires
      /\ c.code = None /\ c.codeUntil = copy.codeUntil /\ c.attempts = copy.attempts /\ c.proof = copy.proof
  BY <1>5 DEF Item
<1>9. e \in Events /\ e.req = q /\ e.action = "signature.otp_verified" /\ e.by = h /\ e.at = now
  BY <1>1, <1>3, <1>6 DEF Event, Events, Reopening
<1>10. chain' = Append(chain, e)
  BY <1>7 DEF WriteWithAudit
<1>11. PICK n \in Nat : n = Len(chain) + 1
  BY <1>9, <1>10, AppendGrows DEF TypeInv
<1>12. /\ Grows /\ n \in DOMAIN chain' /\ chain'[n] = e
       /\ \A k \in DOMAIN chain : k < n
  BY <1>9, <1>10, <1>11, AppendGrows DEF TypeInv
<1>13. n \in RanksOf("signature.otp_verified", q)'
  BY <1>9, <1>12 DEF RanksOf
<1>14. Sent(q, copy.code, copy.codeUntil, copy.expires)'
  BY <1>4, <1>12, SentStays DEF Sound
<1>15. PICK i \in RanksOf("document.sent", q), s \in RanksOf("signature.otp_sent", q) :
        /\ i < s /\ copy.expires = chain[i].at + LinkTTL
        /\ chain[s].by = copy.code /\ copy.codeUntil = chain[s].at + OTPTTL
  BY <1>4 DEF Sound, Sent
<1>16. /\ i \in RanksOf("document.sent", q)' /\ chain'[i] = chain[i]
       /\ s \in RanksOf("signature.otp_sent", q)' /\ chain'[s] = chain[s] /\ s < n
  BY <1>12, <1>15, RanksGrow DEF RanksOf
<1>17. Verified(q, h, copy.code, copy.expires)'
  BY <1>4, <1>9, <1>12, <1>13, <1>15, <1>16 DEF Verified
<1>18. Sound(copy, q)'
  BY <1>4, <1>12, SoundStays
<1>19. Sound(c, q)'
  BY <1>4, <1>8, <1>18 DEF Sound
<1> QED BY <1>1, <1>2, <1>4, <1>7, <1>8, <1>9, <1>17, <1>19 DEF Puts, Reopening

LEMMA SignWrites ==
    ASSUME TypeInv, JobsInv, NEW h \in Handlers, Sign(h), NEW q, q = job[h].req
    PROVE  \E c, e : /\ Puts(q, job[h].copy.reference, c, e) /\ Sound(c, q)'
                    /\ c.status = "signed" /\ e = Event("document.signed", q, h, job[h].now)
<1>1. q \in Requests /\ q = job[h].req
  BY Copies DEF Sign
<1>2. PICK copy \in Item : copy = job[h].copy
  BY Copies DEF Sign
<1>3. copy.status \notin {"none", "signed", "cancelled"} /\ Sound(copy, q)
  BY <1>1, <1>2, Copies DEF Sign
<1>4. PICK c : c = [copy EXCEPT !.status = "signed", !.proof = h, !.code = None]
  OBVIOUS
<1>5. PICK e : e = Event("document.signed", q, h, job[h].now)
  OBVIOUS
<1>6. WriteWithAudit(q, c, e)
  BY <1>1, <1>2, <1>4, <1>5 DEF Sign, SignedCopy
<1>7. /\ c \in Item /\ c.status = "signed" /\ c.reference = copy.reference /\ c.expires = copy.expires
      /\ c.code = None /\ c.attempts = copy.attempts /\ c.proof = h
  BY <1>4 DEF Item
<1>8. e \in Events /\ e.req = q /\ e.action = "document.signed" /\ e.by = h
  <2>1. job[h].now \in Nat
    BY Copies DEF Sign
  <2> QED BY <1>1, <1>5, <2>1 DEF Event, Events
<1>9. chain' = Append(chain, e)
  BY <1>6 DEF WriteWithAudit
<1>10. /\ Grows /\ Len(chain) + 1 \in DOMAIN chain' /\ chain'[Len(chain) + 1] = e
  BY <1>8, <1>9, AppendGrows DEF TypeInv
<1>11. \E k \in RanksOf("document.signed", q)' : chain'[k].by = h
  BY <1>8, <1>10 DEF RanksOf
<1>12. Sound(copy, q)'
  BY <1>3, <1>10, SoundStays
<1>13. Sound(c, q)'
  BY <1>3, <1>7, <1>11, <1>12, SignatureConstants DEF Sound
<1> QED BY <1>1, <1>2, <1>5, <1>6, <1>7, <1>8, <1>13 DEF Puts

LEMMA IssueWrites ==
    ASSUME TypeInv, NEW q \in Requests, NEW ref \in References, Issue(q, ref)
    PROVE  \E c, e : /\ Puts(q, ref, c, e) /\ Sound(c, q)'
                    /\ c.status = "pending" /\ e.action = "document.sent"
<1>1. PICK c : c = [NotIssued EXCEPT !.status = "pending", !.reference = ref,
                                     !.unsigned = content, !.expires = clock + LinkTTL]
  OBVIOUS
<1>2. PICK e : e = Event("document.sent", q, None, clock)
  OBVIOUS
<1>3. WriteWithAudit(q, c, e)
  BY <1>1, <1>2 DEF Issue
<1>4. /\ c.status = "pending" /\ c.reference = ref /\ c.expires = clock + LinkTTL
      /\ c.code = None /\ c.attempts = 0 /\ c.proof = None
  BY <1>1 DEF NotIssued
<1>5. c \in Item
  <2>1. clock + LinkTTL \in 0 .. Horizon + LinkTTL /\ 0 \in 0 .. MaxOTPAttempts
        /\ 0 \in 0 .. Horizon + OTPTTL
    BY SignatureConstants DEF TypeInv
  <2> QED BY <1>1, <2>1 DEF Item, NotIssued, TypeInv
<1>6. e \in Events /\ e.req = q /\ e.action = "document.sent" /\ e.at = clock
  BY <1>2 DEF Event, Events, TypeInv
<1>7. /\ Len(chain) + 1 \in DOMAIN chain' /\ chain'[Len(chain) + 1] = e
  BY <1>3, <1>6, AppendGrows DEF TypeInv, WriteWithAudit
<1>8. Issued(q, c.expires)'
  BY <1>4, <1>6, <1>7 DEF Issued, RanksOf
<1>9. Sound(c, q)'
  BY <1>4, <1>8 DEF Sound
<1> QED BY <1>3, <1>4, <1>5, <1>6, <1>9 DEF Puts

-----------------------------------------------------------------------------
(* Requests and stores *)

\* Either nothing is written, or a request is issued, or a handler puts its copy back.
LEMMA Writes ==
    ASSUME TypeInv, JobsInv, [Next]_vars
    PROVE  \/ request' = request /\ chain' = chain
           \/ \E q \in Requests : \E ref, c, e :
                 /\ Puts(q, ref, c, e) /\ Sound(c, q)'
                 /\ \/ /\ ref \in References /\ Issue(q, ref)
                       /\ c.status # "signed" /\ e.action = "document.sent"
                    \/ \E h \in Handlers :
                          /\ job[h].pc # "idle" /\ q = job[h].req /\ ref = job[h].copy.reference
                          /\ \/ c.status # "signed" /\ e.action \in Reopening
                             \/ /\ Sign(h) /\ c.status = "signed"
                                /\ e = Event("document.signed", q, h, job[h].now)
<1> DEFINE Goal == \E q \in Requests : \E ref, c, e :
                 /\ Puts(q, ref, c, e) /\ Sound(c, q)'
                 /\ \/ /\ ref \in References /\ Issue(q, ref)
                       /\ c.status # "signed" /\ e.action = "document.sent"
                    \/ \E h \in Handlers :
                          /\ job[h].pc # "idle" /\ q = job[h].req /\ ref = job[h].copy.reference
                          /\ \/ c.status # "signed" /\ e.action \in Reopening
                             \/ /\ Sign(h) /\ c.status = "signed"
                                /\ e = Event("document.signed", q, h, job[h].now)
<1>1. ASSUME NEW q \in Requests, NEW ref \in References, Issue(q, ref) PROVE Goal
  <2>1. PICK c, e : /\ Puts(q, ref, c, e) /\ Sound(c, q)'
                    /\ c.status = "pending" /\ e.action = "document.sent"
    BY <1>1, IssueWrites
  <2> QED BY <1>1, <2>1
<1>2. ASSUME NEW h \in Handlers, WriteOpen(h) \/ WriteSend(h) \/ RefuseCode(h) \/ AcceptCode(h)
      PROVE  Goal
  <2>1. PICK q : q = job[h].req
    OBVIOUS
  <2>2. PICK ref : ref = job[h].copy.reference
    OBVIOUS
  <2>3. job[h].pc # "idle" /\ q \in Requests
    BY <1>2, <2>1 DEF WriteOpen, WriteSend, RefuseCode, AcceptCode, TypeInv, Jobs
  <2>4. PICK typed : typed = job[h].typed
    OBVIOUS
  <2>5. PICK c, e : Puts(q, ref, c, e) /\ Sound(c, q)' /\ c.status # "signed" /\ e.action \in Reopening
    BY <1>2, <2>1, <2>2, <2>4, OpenWrites, SendWrites, RefuseWrites, AcceptWrites
  <2> QED BY <2>1, <2>2, <2>3, <2>5
<1>3. ASSUME NEW h \in Handlers, Sign(h) PROVE Goal
  <2>1. PICK q : q = job[h].req
    OBVIOUS
  <2>2. PICK ref : ref = job[h].copy.reference
    OBVIOUS
  <2>3. job[h].pc # "idle" /\ q \in Requests
    BY <1>3, <2>1 DEF Sign, TypeInv, Jobs
  <2>4. PICK c, e : /\ Puts(q, ref, c, e) /\ Sound(c, q)'
                    /\ c.status = "signed" /\ e = Event("document.signed", q, h, job[h].now)
    BY <1>3, <2>1, <2>2, SignWrites
  <2> QED BY <1>3, <2>1, <2>2, <2>3, <2>4
<1>4. \/ request' = request /\ chain' = chain
      \/ \E q \in Requests, ref \in References : Issue(q, ref)
      \/ \E h \in Handlers : \/ WriteOpen(h) \/ WriteSend(h) \/ RefuseCode(h) \/ AcceptCode(h)
                             \/ Sign(h)
  BY DEF Next, Handle, Tick, EditFile, ReadOpen, ReadSend, ReadConfirm, Resolve, StoreDrawing,
         ArchiveSealed, Stop, vars
<1> HIDE DEF Goal
<1>5. (request' = request /\ chain' = chain) \/ Goal
  BY <1>1, <1>2, <1>3, <1>4
<1> QED BY <1>5 DEF Goal

\* A step adds to the chain, keeps requests issued, their reference, and what is stored.
LEMMA Stays ==
    ASSUME TypeInv, RequestsInv, JobsInv, [Next]_vars
    PROVE  /\ Grows
           /\ \A q \in Requests : request[q].status # "none" =>
                 request'[q].status # "none" /\ request'[q].reference = request[q].reference
           /\ \A q \in Requests : drawing[q] # None => drawing'[q] # None
           /\ \A ref \in References : archive[ref] # None => archive'[ref] # None
<1>1. CASE request' = request /\ chain' = chain
  <2>1. \A q \in Requests : drawing[q] # None => drawing'[q] # None
    BY <1>1, SignatureConstants
       DEF Next, Handle, Tick, EditFile, ReadOpen, ReadSend, ReadConfirm, Resolve, StoreDrawing,
           ArchiveSealed, Stop, WriteOpen, WriteSend, RefuseCode, AcceptCode, Sign, Issue, vars, TypeInv
  <2>2. \A ref \in References : archive[ref] # None => archive'[ref] # None
    BY <1>1, SignatureConstants
       DEF Next, Handle, Tick, EditFile, ReadOpen, ReadSend, ReadConfirm, Resolve, StoreDrawing,
           ArchiveSealed, Stop, WriteOpen, WriteSend, RefuseCode, AcceptCode, Sign, Issue, vars, TypeInv
  <2> QED BY <1>1, <2>1, <2>2 DEF Grows
<1>2. ASSUME NEW q \in Requests, NEW ref, NEW c, NEW e, Puts(q, ref, c, e),
             \/ Issue(q, ref)
             \/ \E h \in Handlers : job[h].pc # "idle" /\ q = job[h].req /\ ref = job[h].copy.reference
      PROVE  /\ Grows
             /\ \A p \in Requests : request[p].status # "none" =>
                   request'[p].status # "none" /\ request'[p].reference = request[p].reference
  <2>1. Grows
    BY <1>2, AppendGrows DEF Puts, WriteWithAudit, TypeInv
  <2>2. c.status # "none" /\ c.reference = ref /\ request' = [request EXCEPT ![q] = c]
    BY <1>2 DEF Puts, WriteWithAudit
  <2>3. request[q].status # "none" => request[q].reference = ref
    BY <1>2 DEF Issue, NotIssued, JobsInv, JobOK
  <2> QED BY <2>1, <2>2, <2>3 DEF TypeInv
<1>3. ASSUME NEW q, NEW c, NEW e, WriteWithAudit(q, c, e), e \in Events
      PROVE  drawing' = drawing /\ archive' = archive
  <2>1. chain' # chain
    <3>1. Len(chain') = Len(chain) + 1 /\ Len(chain) \in Nat
      BY <1>3, AppendGrows DEF WriteWithAudit, TypeInv
    <3> QED BY <3>1
  <2> QED BY <2>1 DEF Next, Handle, Tick, EditFile, ReadOpen, ReadSend, ReadConfirm, Resolve,
             StoreDrawing, ArchiveSealed, Stop, WriteOpen, WriteSend, RefuseCode, AcceptCode, Sign,
             Issue, vars
<1>4. CASE \E q \in Requests : \E ref, c, e :
              /\ Puts(q, ref, c, e)
              /\ \/ Issue(q, ref)
                 \/ \E h \in Handlers : job[h].pc # "idle" /\ q = job[h].req /\ ref = job[h].copy.reference
  BY <1>2, <1>3, <1>4 DEF Puts
<1> QED BY <1>1, <1>4, Writes

LEMMA RequestsStep ==
    ASSUME TypeInv, RequestsInv, JobsInv, [Next]_vars
    PROVE  RequestsInv' /\ request' \in [Requests -> Item] /\ chain' \in Seq(Events)
<1>1. \A p \in Requests : \A c : c = request[p] => Sound(c, p)'
  BY Stays, SoundStays DEF RequestsInv
<1>2. CASE request' = request /\ chain' = chain
  BY <1>1, <1>2 DEF RequestsInv, TypeInv
<1>3. ASSUME NEW q \in Requests, NEW ref, NEW c, NEW e, Puts(q, ref, c, e), Sound(c, q)'
      PROVE  RequestsInv' /\ request' \in [Requests -> Item] /\ chain' \in Seq(Events)
  <2>1. request' = [request EXCEPT ![q] = c] /\ c \in Item /\ chain' \in Seq(Events)
    BY <1>3, AppendGrows DEF Puts, WriteWithAudit, TypeInv
  <2>2. ASSUME NEW p \in Requests PROVE Sound(request[p], p)'
    BY <1>1, <1>3, <2>1 DEF TypeInv
  <2> QED BY <2>1, <2>2 DEF RequestsInv, TypeInv
<1> QED BY <1>2, <1>3, Writes

-----------------------------------------------------------------------------
(* Handlers *)

LEMMA JobStays ==
    ASSUME TypeInv, RequestsInv, JobsInv, [Next]_vars, NEW h, NEW j \in Jobs, JobOK(h, j)
    PROVE  JobOK(h, j)'
<1>1. j.req \in Requests /\ j.copy \in Item
  BY DEF Jobs
<1>2. ASSUME j.pc # "idle"
      PROVE  /\ Sound(j.copy, j.req)'
             /\ request'[j.req].status # "none" /\ request'[j.req].reference = j.copy.reference
             /\ j.copy.reference \in References
  BY <1>1, <1>2, Stays, SoundStays DEF JobOK, Sound
<1>3. ASSUME j.pc \in {"store", "archive", "sign"}
      PROVE  Verified(j.req, h, j.typed, j.copy.expires)'
  BY <1>3, Stays, VerifiedStays DEF JobOK
<1>4. j.pc \in {"archive", "sign"} => drawing'[j.req] # None
  BY <1>1, Stays DEF JobOK
<1>5. j.pc = "sign" => archive'[j.copy.reference] # None
  BY <1>2, Stays DEF JobOK
<1> QED BY <1>2, <1>3, <1>4, <1>5 DEF JobOK

\* Handler h becomes j; what it typed stays.
Becomes(h, j) ==
    /\ job' = [job EXCEPT ![h] = j] /\ j \in Jobs /\ j.pc # "idle"
    /\ job[h].pc # "idle" => j.typed = job[h].typed

LEMMA ResolveStep ==
    ASSUME TypeInv, RequestsInv, JobsInv, [Next]_vars, NEW h \in Handlers,
           NEW kind, NEW q \in Requests, NEW pc \in {"write", "verify"}, NEW drawn \in BOOLEAN,
           NEW typed \in Handlers \cup {Wrong}, Resolve(h, kind, q, pc, typed, drawn)
    PROVE  \E j : Becomes(h, j) /\ JobOK(h, j)'
<1>1. PICK j : j = [pc |-> pc, kind |-> kind, req |-> q, copy |-> request[q], now |-> clock,
                    typed |-> typed, drawn |-> drawn, rendered |-> None]
  OBVIOUS
<1>2. j \in Jobs /\ job' = [job EXCEPT ![h] = j] /\ job[h].pc = "idle"
  BY <1>1, SignatureConstants DEF Resolve, Jobs, TypeInv
<1>3. /\ request[q].status \notin {"none", "signed", "cancelled"} /\ Sound(request[q], q)
      /\ clock < request[q].expires /\ request[q].reference \in References
  <2>1. request[q].expires \in Nat /\ clock \in Nat
    BY SignatureConstants DEF TypeInv, Item
  <2> QED BY <2>1 DEF Resolve, Signable, Expired, RequestsInv, Sound
<1>4. JobOK(h, j)
  BY <1>1, <1>3 DEF JobOK
<1> QED BY <1>1, <1>2, <1>4, JobStays DEF Becomes

LEMMA StageStep ==
    ASSUME TypeInv, RequestsInv, JobsInv, [Next]_vars, NEW h \in Handlers, job[h].pc # "idle",
           NEW pc \in {"done", "refused", "stopped"}, Goto(h, pc)
    PROVE  \E j : Becomes(h, j) /\ JobOK(h, j)'
<1>1. PICK old \in Jobs : old = job[h]
  BY DEF TypeInv
<1>2. PICK j : j = [old EXCEPT !.pc = pc]
  OBVIOUS
<1>3. /\ j \in Jobs /\ j.pc = pc /\ j.copy = old.copy /\ j.req = old.req /\ j.now = old.now
      /\ j.typed = old.typed
  BY <1>2 DEF Jobs
<1>4. job' = [job EXCEPT ![h] = j]
  BY <1>1, <1>2 DEF Goto
<1>5. JobOK(h, old)
  BY <1>1 DEF JobsInv
<1>6. JobOK(h, j)
  BY <1>1, <1>3, <1>5 DEF JobOK
<1> QED BY <1>1, <1>3, <1>4, <1>6, JobStays DEF Becomes

LEMMA StoreStep ==
    ASSUME TypeInv, RequestsInv, JobsInv, [Next]_vars, NEW h \in Handlers, StoreDrawing(h)
    PROVE  \E j : Becomes(h, j) /\ JobOK(h, j)'
<1>1. PICK old \in Jobs : old = job[h]
  BY DEF TypeInv
<1>2. PICK j : j = [old EXCEPT !.pc = "archive", !.rendered = content]
  OBVIOUS
<1>3. /\ j \in Jobs /\ j.pc = "archive" /\ j.copy = old.copy /\ j.req = old.req /\ j.now = old.now
      /\ j.typed = old.typed
  BY <1>2 DEF Jobs, TypeInv
<1>4. job' = [job EXCEPT ![h] = j] /\ old.pc = "store"
  BY <1>1, <1>2 DEF StoreDrawing
<1>5. JobOK(h, old)'
  BY <1>1, JobStays DEF JobsInv
<1>6. drawing'[j.req] # None
  <2>1. drawing' = [drawing EXCEPT ![old.req] = h] /\ old.req \in Requests
    BY <1>1 DEF StoreDrawing, Jobs
  <2> QED BY <1>3, <2>1, SignatureConstants DEF TypeInv
<1>7. JobOK(h, j)'
  BY <1>3, <1>4, <1>5, <1>6 DEF JobOK
<1> QED BY <1>1, <1>3, <1>4, <1>7 DEF Becomes

LEMMA ArchiveStep ==
    ASSUME TypeInv, RequestsInv, JobsInv, [Next]_vars, NEW h \in Handlers, ArchiveSealed(h)
    PROVE  \E j : Becomes(h, j) /\ JobOK(h, j)'
<1>1. PICK old \in Jobs : old = job[h]
  BY DEF TypeInv
<1>2. PICK j : j = [old EXCEPT !.pc = "sign"]
  OBVIOUS
<1>3. /\ j \in Jobs /\ j.pc = "sign" /\ j.copy = old.copy /\ j.req = old.req /\ j.now = old.now
      /\ j.typed = old.typed
  BY <1>2 DEF Jobs
<1>4. job' = [job EXCEPT ![h] = j] /\ old.pc = "archive"
  BY <1>1, <1>2 DEF ArchiveSealed, Goto
<1>5. JobOK(h, old)'
  BY <1>1, JobStays DEF JobsInv
<1>6. archive'[j.copy.reference] # None
  <2>1. archive' = [archive EXCEPT ![old.copy.reference] = h]
    BY <1>1 DEF ArchiveSealed
  <2>2. old.copy.reference \in References
    BY <1>1, <1>4 DEF JobsInv, JobOK, Sound
  <2> QED BY <1>3, <2>1, <2>2, SignatureConstants DEF TypeInv
<1>7. JobOK(h, j)'
  BY <1>3, <1>4, <1>5, <1>6 DEF JobOK
<1> QED BY <1>1, <1>3, <1>4, <1>7 DEF Becomes

LEMMA AcceptStep ==
    ASSUME TypeInv, RequestsInv, JobsInv, [Next]_vars, NEW h \in Handlers, AcceptCode(h)
    PROVE  \E j : Becomes(h, j) /\ JobOK(h, j)'
<1>1. PICK old \in Jobs : old = job[h]
  BY DEF TypeInv
<1>2. PICK c, e : /\ Puts(old.req, old.copy.reference, c, e) /\ Sound(c, old.req)'
                  /\ c.status = old.copy.status /\ c.expires = old.copy.expires
                  /\ job' = [job EXCEPT ![h].pc = IF old.drawn THEN "store" ELSE "refused", ![h].copy = c]
                  /\ Verified(old.req, h, old.typed, c.expires)'
  <2>1. PICK q : q = old.req
    OBVIOUS
  <2>2. PICK typed : typed = old.typed
    OBVIOUS
  <2> QED BY <1>1, <2>1, <2>2, AcceptWrites
<1>3. PICK pc \in {"store", "refused"} : pc = IF old.drawn THEN "store" ELSE "refused"
  BY DEF Jobs
<1>4. PICK j : j = [old EXCEPT !.pc = pc, !.copy = c]
  OBVIOUS
<1>5. /\ j \in Jobs /\ j.pc = pc /\ j.copy = c /\ j.req = old.req /\ j.now = old.now
      /\ j.typed = old.typed
  BY <1>2, <1>4 DEF Jobs, Puts
<1>6. job' = [job EXCEPT ![h] = j] /\ old.pc = "verify"
  BY <1>1, <1>2, <1>3, <1>4 DEF AcceptCode
<1>7. JobOK(h, old)'
  BY <1>1, JobStays DEF JobsInv
<1>8. c.status # "none" /\ c.reference = old.copy.reference
  BY <1>2 DEF Puts
<1>9. JobOK(h, j)'
  BY <1>2, <1>5, <1>6, <1>7, <1>8 DEF JobOK
<1> QED BY <1>1, <1>5, <1>6, <1>9 DEF Becomes

\* A step moves one handler at most.
LEMMA JobMoves ==
    ASSUME TypeInv, RequestsInv, JobsInv, [Next]_vars
    PROVE  job' = job \/ \E h \in Handlers : \E j : Becomes(h, j) /\ JobOK(h, j)'
<1>1. ASSUME NEW h \in Handlers, NEW q \in Requests,
             \/ ReadOpen(h, q) \/ ReadSend(h, q)
             \/ \E typed \in Handlers \cup {Wrong}, drawn \in BOOLEAN : ReadConfirm(h, q, typed, drawn)
      PROVE  \E j : Becomes(h, j) /\ JobOK(h, j)'
  BY <1>1, ResolveStep DEF ReadOpen, ReadSend, ReadConfirm
<1>2. ASSUME NEW h \in Handlers, WriteOpen(h) \/ WriteSend(h) \/ RefuseCode(h) \/ Sign(h) \/ Stop(h)
      PROVE  \E j : Becomes(h, j) /\ JobOK(h, j)'
  <2>1. job[h].pc # "idle"
    BY <1>2 DEF WriteOpen, WriteSend, RefuseCode, Sign, Stop
  <2>2. \E pc \in {"done", "refused", "stopped"} : Goto(h, pc)
    BY <1>2 DEF WriteOpen, WriteSend, RefuseCode, Sign, Stop
  <2> QED BY <2>1, <2>2, StageStep
<1>3. \/ job' = job
      \/ \E h \in Handlers :
            \/ \E q \in Requests :
                  \/ ReadOpen(h, q) \/ ReadSend(h, q)
                  \/ \E typed \in Handlers \cup {Wrong}, drawn \in BOOLEAN : ReadConfirm(h, q, typed, drawn)
            \/ WriteOpen(h) \/ WriteSend(h) \/ RefuseCode(h) \/ Sign(h) \/ Stop(h)
            \/ AcceptCode(h) \/ StoreDrawing(h) \/ ArchiveSealed(h)
  BY DEF Next, Handle, Tick, EditFile, Issue, vars
<1> QED BY <1>1, <1>2, <1>3, AcceptStep, StoreStep, ArchiveStep

LEMMA JobsStep ==
    ASSUME TypeInv, RequestsInv, JobsInv, [Next]_vars
    PROVE  /\ JobsInv' /\ job' \in [Handlers -> Jobs]
           /\ \A h \in Handlers : job[h].pc # "idle" =>
                 job'[h].pc # "idle" /\ job'[h].typed = job[h].typed
<1>1. \A h \in Handlers : \A j : j = job[h] => JobOK(h, j)'
  BY JobStays DEF JobsInv, TypeInv
<1>2. CASE job' = job
  BY <1>1, <1>2 DEF JobsInv, TypeInv
<1>3. ASSUME NEW h \in Handlers, NEW j, Becomes(h, j), JobOK(h, j)'
      PROVE  /\ JobsInv' /\ job' \in [Handlers -> Jobs]
             /\ \A g \in Handlers : job[g].pc # "idle" =>
                   job'[g].pc # "idle" /\ job'[g].typed = job[g].typed
  BY <1>1, <1>3 DEF Becomes, JobsInv, TypeInv
<1> QED BY <1>2, <1>3, JobMoves

-----------------------------------------------------------------------------
(* Signatures *)

LEMMA SignedStays ==
    ASSUME TypeInv, RequestsInv, JobsInv, SignedInv, [Next]_vars,
           NEW q \in Requests, NEW k \in RanksOf("document.signed", q)
    PROVE  /\ k \in RanksOf("document.signed", q)'
           /\ \E h : SignedOK(q, k, h)'
           /\ request'[q].status # "none" /\ request'[q].reference \in References
           /\ archive'[request'[q].reference] # None /\ drawing'[q] # None
<1>1. k \in RanksOf("document.signed", q)' /\ chain'[k] = chain[k]
  BY Stays, RanksGrow
<1>2. PICK h : SignedOK(q, k, h)
  BY DEF SignedInv
<1>3. PICK v \in RanksOf("signature.otp_verified", q), s \in RanksOf("signature.otp_sent", q),
           i \in RanksOf("document.sent", q) :
          /\ i < s /\ s < v /\ v < k
          /\ chain[v].by = h /\ chain[s].by = job[h].typed
          /\ chain[v].at <= chain[s].at + OTPTTL
          /\ chain[k].at < chain[i].at + LinkTTL
  BY <1>2 DEF SignedOK
<1>4. /\ i \in RanksOf("document.sent", q)' /\ chain'[i] = chain[i]
      /\ s \in RanksOf("signature.otp_sent", q)' /\ chain'[s] = chain[s]
      /\ v \in RanksOf("signature.otp_verified", q)' /\ chain'[v] = chain[v]
  BY Stays, RanksGrow
<1>5. h \in Handlers /\ job'[h].pc # "idle" /\ job'[h].typed = job[h].typed
  BY <1>2, JobsStep DEF SignedOK
<1>6. SignedOK(q, k, h)'
  BY <1>1, <1>2, <1>3, <1>4, <1>5 DEF SignedOK
<1>7. /\ request'[q].status # "none" /\ request'[q].reference = request[q].reference
      /\ archive'[request[q].reference] # None /\ drawing'[q] # None
  BY Stays DEF SignedInv
<1> QED BY <1>1, <1>6, <1>7 DEF SignedInv

LEMMA SignedNew ==
    ASSUME TypeInv, RequestsInv, JobsInv, [Next]_vars, NEW h \in Handlers, Sign(h),
           NEW q \in Requests, q = job[h].req, NEW e \in Events, chain' = Append(chain, e),
           e = Event("document.signed", q, h, job[h].now), NEW n \in Nat, n = Len(chain) + 1
    PROVE  /\ SignedOK(q, n, h)'
           /\ request'[q].status # "none" /\ request'[q].reference \in References
           /\ archive'[request'[q].reference] # None /\ drawing'[q] # None
<1>1. PICK copy : copy = job[h].copy
  OBVIOUS
<1>2. PICK typed : typed = job[h].typed
  OBVIOUS
<1>3. /\ Verified(q, h, typed, copy.expires) /\ drawing[q] # None /\ archive[copy.reference] # None
      /\ request[q].status # "none" /\ request[q].reference = copy.reference
      /\ copy.reference \in References /\ job[h].now < copy.expires /\ job[h].pc # "idle"
  BY <1>1, <1>2 DEF Sign, JobsInv, JobOK, Sound
<1>4. PICK v \in RanksOf("signature.otp_verified", q), s \in RanksOf("signature.otp_sent", q),
           i \in RanksOf("document.sent", q) :
        /\ i < s /\ s < v /\ copy.expires = chain[i].at + LinkTTL
        /\ chain[v].by = h /\ chain[s].by = typed
        /\ chain[v].at <= chain[s].at + OTPTTL
  BY <1>3 DEF Verified
<1>5. /\ i \in RanksOf("document.sent", q)' /\ chain'[i] = chain[i]
      /\ s \in RanksOf("signature.otp_sent", q)' /\ chain'[s] = chain[s]
      /\ v \in RanksOf("signature.otp_verified", q)' /\ chain'[v] = chain[v]
  BY Stays, RanksGrow
<1>6. /\ chain'[n] = e /\ e.by = h /\ e.at = job[h].now
      /\ \A k \in DOMAIN chain : k < n
  BY AppendGrows DEF TypeInv, Event
<1>7. v < n
  BY <1>4, <1>6 DEF RanksOf
<1>8. job'[h].pc # "idle" /\ job'[h].typed = typed
  BY <1>2, <1>3, JobsStep
<1>9. e.at < chain'[i].at + LinkTTL
  BY <1>3, <1>4, <1>5, <1>6
<1>10. SignedOK(q, n, h)'
  <2>1. /\ chain'[v].by = h /\ chain'[s].by = job'[h].typed
        /\ chain'[v].at <= chain'[s].at + OTPTTL /\ chain'[n].at < chain'[i].at + LinkTTL
    BY <1>4, <1>5, <1>6, <1>8, <1>9
  <2>2. /\ v \in RanksOf("signature.otp_verified", q)' /\ s \in RanksOf("signature.otp_sent", q)'
        /\ i \in RanksOf("document.sent", q)' /\ i < s /\ s < v
    BY <1>4, <1>5
  <2> QED BY <1>6, <1>7, <1>8, <2>1, <2>2 DEF SignedOK
<1>11. /\ request'[q].status # "none" /\ request'[q].reference = copy.reference
       /\ archive'[copy.reference] # None /\ drawing'[q] # None
  BY <1>3, Stays
<1> QED BY <1>3, <1>10, <1>11

\* The rank a step adds, if any.
LEMMA NewRank ==
    ASSUME TypeInv, JobsInv, [Next]_vars, NEW q \in Requests, NEW k \in RanksOf("document.signed", q)'
    PROVE  \/ k \in RanksOf("document.signed", q)
           \/ \E h \in Handlers, e \in Events :
                 /\ Sign(h) /\ q = job[h].req /\ chain' = Append(chain, e)
                 /\ e = Event("document.signed", q, h, job[h].now)
                 /\ k = Len(chain) + 1
<1>1. CASE chain' = chain
  BY <1>1 DEF RanksOf
<1>2. ASSUME NEW p \in Requests, NEW ref, NEW c, NEW e, Puts(p, ref, c, e)
      PROVE  \/ k \in RanksOf("document.signed", q)
             \/ /\ k = Len(chain) + 1 /\ e.action = "document.signed" /\ q = p
                /\ chain' = Append(chain, e) /\ e \in Events
  <2>1. /\ chain' = Append(chain, e) /\ e \in Events /\ e.req = p
    BY <1>2 DEF Puts, WriteWithAudit
  <2>2. /\ \A j \in DOMAIN chain : chain'[j] = chain[j]
        /\ chain'[Len(chain) + 1] = e /\ DOMAIN chain' = DOMAIN chain \cup {Len(chain) + 1}
    BY <2>1, AppendGrows DEF Grows, TypeInv
  <2>3. k \in DOMAIN chain' /\ chain'[k].action = "document.signed" /\ chain'[k].req = q
    BY DEF RanksOf
  <2> QED BY <2>1, <2>2, <2>3 DEF RanksOf
<1> QED BY <1>1, <1>2, Writes DEF Reopening

LEMMA SignedStep ==
    ASSUME TypeInv, RequestsInv, JobsInv, SignedInv, [Next]_vars
    PROVE  SignedInv'
<1> SUFFICES ASSUME NEW q \in Requests, NEW k \in RanksOf("document.signed", q)'
             PROVE  /\ \E h : SignedOK(q, k, h)'
                    /\ request'[q].status # "none" /\ request'[q].reference \in References
                    /\ archive'[request'[q].reference] # None /\ drawing'[q] # None
  BY DEF SignedInv
<1>1. CASE k \in RanksOf("document.signed", q)
  BY <1>1, SignedStays
<1>2. ASSUME NEW h \in Handlers, NEW e \in Events, Sign(h), q = job[h].req,
             chain' = Append(chain, e), e = Event("document.signed", q, h, job[h].now),
             k = Len(chain) + 1
      PROVE  /\ \E x : SignedOK(q, k, x)'
             /\ request'[q].status # "none" /\ request'[q].reference \in References
             /\ archive'[request'[q].reference] # None /\ drawing'[q] # None
  <2>1. k \in Nat
    BY <1>2 DEF TypeInv
  <2>2. /\ SignedOK(q, k, h)'
        /\ request'[q].status # "none" /\ request'[q].reference \in References
        /\ archive'[request'[q].reference] # None /\ drawing'[q] # None
    BY <1>2, <2>1, SignedNew
  <2> QED BY <2>2
<1> QED BY <1>1, <1>2, NewRank

-----------------------------------------------------------------------------
(* The invariant *)

LEMMA StoresStep ==
    ASSUME TypeInv, [Next]_vars
    PROVE  /\ clock' \in 0 .. Horizon /\ content' \in Contents
           /\ archive' \in [References -> Handlers \cup {None}]
           /\ drawing' \in [Requests -> Handlers \cup {None}]
<1>1. clock' \in 0 .. Horizon
  <2>1. clock' = clock \/ Tick
    BY DEF Next, Handle, EditFile, ReadOpen, ReadSend, ReadConfirm, Resolve, StoreDrawing,
           ArchiveSealed, Stop, WriteOpen, WriteSend, RefuseCode, AcceptCode, Sign, Issue, vars
  <2> QED BY <2>1, SignatureConstants DEF Tick, TypeInv
<1>2. content' \in Contents
  BY DEF Next, Handle, Tick, EditFile, ReadOpen, ReadSend, ReadConfirm, Resolve, StoreDrawing,
         ArchiveSealed, Stop, WriteOpen, WriteSend, RefuseCode, AcceptCode, Sign, Issue, vars, TypeInv
<1>3. archive' \in [References -> Handlers \cup {None}]
  BY DEF Next, Handle, Tick, EditFile, ReadOpen, ReadSend, ReadConfirm, Resolve, StoreDrawing,
         ArchiveSealed, Stop, WriteOpen, WriteSend, RefuseCode, AcceptCode, Sign, Issue, vars, TypeInv
<1>4. drawing' \in [Requests -> Handlers \cup {None}]
  BY DEF Next, Handle, Tick, EditFile, ReadOpen, ReadSend, ReadConfirm, Resolve, StoreDrawing,
         ArchiveSealed, Stop, WriteOpen, WriteSend, RefuseCode, AcceptCode, Sign, Issue, vars, TypeInv
<1> QED BY <1>1, <1>2, <1>3, <1>4

LEMMA InvInit == Init => Inv
<1> SUFFICES ASSUME Init PROVE Inv
  OBVIOUS
<1>1. NotIssued \in Item
  <2>1. 0 \in 0 .. Horizon + LinkTTL /\ 0 \in 0 .. Horizon + OTPTTL /\ 0 \in 0 .. MaxOTPAttempts
    BY SignatureConstants
  <2> QED BY <2>1 DEF NotIssued, Item
<1>2. Idle \in Jobs
  <2>1. (CHOOSE q \in Requests : TRUE) \in Requests
    BY SignatureConstants
  <2>2. 0 \in 0 .. Horizon
    BY SignatureConstants
  <2> QED BY <1>1, <2>1, <2>2 DEF Idle, Jobs, AllKinds
<1>3. TypeInv
  <2>1. <<>> \in Seq(Events) /\ 0 \in 0 .. Horizon
    BY SignatureConstants
  <2> QED BY <1>1, <1>2, <2>1 DEF Init, TypeInv
<1>4. RequestsInv
  <2>1. NotIssued.status = "none" /\ NotIssued.code = None /\ NotIssued.proof = None
    BY DEF NotIssued
  <2> QED BY <2>1 DEF Init, RequestsInv, Sound
<1>5. JobsInv
  <2>1. Idle.pc = "idle" /\ Idle.copy.status = "none"
    BY DEF Idle, NotIssued
  <2> QED BY <2>1 DEF Init, JobsInv, JobOK
<1>6. SignedInv
  BY DEF Init, SignedInv, RanksOf
<1> QED BY <1>3, <1>4, <1>5, <1>6 DEF Inv

LEMMA InvStep == ASSUME Inv, [Next]_vars PROVE Inv'
<1>1. TypeInv'
  BY RequestsStep, JobsStep, StoresStep DEF Inv, TypeInv
<1> QED BY <1>1, RequestsStep, JobsStep, SignedStep DEF Inv

LEMMA InvAlways == Spec => []Inv
<1>1. Inv /\ [Next]_vars => Inv'
  BY InvStep
<1> QED BY <1>1, InvInit, PTL DEF Spec

-----------------------------------------------------------------------------
(* The theorems *)

LEMMA TypeFollows == ASSUME Inv PROVE TypeOK
<1>1. \A h \in Handlers : /\ job[h].req \in Requests /\ job[h].copy \in Item
                         /\ job[h].copy.status \notin {"signed", "cancelled"}
  BY DEF Inv, TypeInv, JobsInv, JobOK, Jobs
<1> QED BY <1>1 DEF Inv, TypeInv, TypeOK

\* Every signature of a chain came after an accepted code of the same request, typed as it
\* was mailed and in time, under a link that had not expired, with its document and drawing
\* stored; a request shows a proof if and only if it is signed, and a code whose tries are
\* used up never comes back (signature/service.go:276-349, 388-498).
THEOREM SignaturesProveWhatTheySay == Spec => []ProofInOrder
<1>1. Inv => ProofInOrder
  <2> SUFFICES ASSUME Inv, NEW q \in Requests
               PROVE  /\ \A k \in RanksOf("document.signed", q) :
                            InOrder(q, k) /\ archive[request[q].reference] # None /\ drawing[q] # None
                      /\ request[q].status = "signed" <=> request[q].proof # None
                      /\ request[q].proof # None =>
                            \E k \in RanksOf("document.signed", q) : chain[k].by = request[q].proof
                      /\ request[q].attempts = MaxOTPAttempts => request[q].code = None
    BY TypeFollows DEF ProofInOrder
  <2>1. ASSUME NEW k \in RanksOf("document.signed", q)
        PROVE  InOrder(q, k) /\ archive[request[q].reference] # None /\ drawing[q] # None
    <3>1. PICK h : SignedOK(q, k, h)
      BY DEF Inv, SignedInv
    <3>2. InOrder(q, k)
      BY <3>1 DEF SignedOK, InOrder
    <3> QED BY <3>2 DEF Inv, SignedInv
  <2>2. Sound(request[q], q)
    BY DEF Inv, RequestsInv
  <2> QED BY <2>1, <2>2 DEF Sound
<1> QED BY <1>1, InvAlways, PTL

LEMMA ReopenStep ==
    ASSUME Inv, ReopenInv, [Next]_vars
    PROVE  ReopenInv'
<1> SUFFICES ASSUME NEW q \in Requests, request'[q].status # "signed",
                    NEW k \in RanksOf("document.signed", q)'
             PROVE  Reopened(q, k)'
  BY DEF ReopenInv
<1>1. ASSUME k \in RanksOf("document.signed", q), request[q].status # "signed"
      PROVE  Reopened(q, k)'
  <2>1. PICK j \in DOMAIN chain : k < j /\ chain[j].req = q /\ chain[j].action \in Reopening
    BY <1>1 DEF ReopenInv, Reopened
  <2>2. j \in DOMAIN chain' /\ chain'[j] = chain[j]
    BY <2>1, Stays DEF Inv, Grows
  <2> QED BY <2>1, <2>2 DEF Reopened
<1>2. ASSUME NEW p \in Requests, NEW ref, NEW c, NEW e, Puts(p, ref, c, e), p = q,
             e.action \in Reopening
      PROVE  Reopened(q, k)'
  <2>1. PICK n \in Nat : n = Len(chain) + 1
    BY DEF Inv, TypeInv
  <2>2. chain' = Append(chain, e) /\ e \in Events /\ e.req = q
    BY <1>2 DEF Puts, WriteWithAudit
  <2>3. /\ n \in DOMAIN chain' /\ chain'[n] = e /\ DOMAIN chain' = DOMAIN chain \cup {n}
        /\ \A j \in DOMAIN chain : j < n
    BY <2>1, <2>2, AppendGrows DEF Inv, TypeInv
  <2>4. k \in DOMAIN chain' /\ chain'[k].action = "document.signed"
    BY DEF RanksOf
  <2>5. k < n
    BY <1>2, <2>3, <2>4 DEF Reopening
  <2> QED BY <1>2, <2>2, <2>3, <2>5 DEF Reopened
<1>3. ASSUME NEW p \in Requests, NEW ref, NEW c, NEW e, Puts(p, ref, c, e), p # q
      PROVE  request[q].status # "signed"
  BY <1>3 DEF Puts, WriteWithAudit, Inv, TypeInv
<1>4. ASSUME NEW p \in Requests, NEW ref, NEW c, NEW e, Puts(p, ref, c, e), p = q, c.status = "signed"
      PROVE  FALSE
  BY <1>4 DEF Puts, WriteWithAudit, Inv, TypeInv
<1>5. ASSUME NEW ref \in References, Issue(q, ref), k \in RanksOf("document.signed", q)
      PROVE  FALSE
  BY <1>5 DEF Issue, NotIssued, Inv, SignedInv
<1>6. ASSUME NEW h \in Handlers, Sign(h), q = job[h].req
      PROVE  FALSE
  <2>1. PICK c, e : Puts(q, job[h].copy.reference, c, e) /\ c.status = "signed"
    BY <1>6, SignWrites DEF Inv
  <2>2. q \in Requests
    OBVIOUS
  <2> QED BY <2>1, <2>2, <1>4
<1>7. k \in RanksOf("document.signed", q)
  BY <1>6, NewRank DEF Inv
<1>8. CASE request' = request /\ chain' = chain
  BY <1>1, <1>7, <1>8
<1> QED BY <1>1, <1>2, <1>3, <1>4, <1>5, <1>7, <1>8, Writes DEF Inv

LEMMA StaleStep ==
    ASSUME Inv, ReopenInv, OnlyStaleWritesReopen, [Next]_vars
    PROVE  OnlyStaleWritesReopen'
<1> SUFFICES ASSUME NEW q \in Requests, NEW k1 \in RanksOf("document.signed", q)',
                    NEW k2 \in RanksOf("document.signed", q)', k1 < k2
             PROVE  \E j \in k1 + 1 .. k2 - 1 : chain'[j].req = q /\ chain'[j].action \in Reopening
  BY DEF OnlyStaleWritesReopen, Reopening
<1>0. PICK n \in Nat : n = Len(chain)
  BY DEF Inv, TypeInv
<1>1. /\ \A k \in DOMAIN chain : k \in DOMAIN chain' /\ chain'[k] = chain[k]
      /\ DOMAIN chain = 1 .. n
  BY <1>0, Stays DEF Inv, Grows, TypeInv
<1>2. CASE k1 \in RanksOf("document.signed", q) /\ k2 \in RanksOf("document.signed", q)
  <2>1. PICK j \in k1 + 1 .. k2 - 1 : chain[j].req = q /\ chain[j].action \in Reopening
    BY <1>2 DEF OnlyStaleWritesReopen, Reopening
  <2>2. j \in DOMAIN chain
    BY <1>1, <1>2, <2>1 DEF RanksOf
  <2> QED BY <1>1, <2>1, <2>2
<1>3. ASSUME k2 = n + 1, k1 \in RanksOf("document.signed", q), request[q].status # "signed"
      PROVE  \E j \in k1 + 1 .. k2 - 1 : chain'[j].req = q /\ chain'[j].action \in Reopening
  <2>1. PICK j \in DOMAIN chain : k1 < j /\ chain[j].req = q /\ chain[j].action \in Reopening
    BY <1>3 DEF ReopenInv, Reopened
  <2>2. k1 \in 1 .. n /\ j \in 1 .. n
    BY <1>1, <1>3, <2>1 DEF RanksOf
  <2> QED BY <1>1, <1>3, <2>1, <2>2
<1>4. ASSUME k1 \notin RanksOf("document.signed", q) PROVE FALSE
  <2>1. PICK h \in Handlers, e \in Events :
           Sign(h) /\ chain' = Append(chain, e) /\ k1 = n + 1
    BY <1>0, <1>4, NewRank DEF Inv
  <2>2. DOMAIN chain' = DOMAIN chain \cup {n + 1}
    BY <1>0, <2>1, AppendGrows DEF Inv, TypeInv
  <2>3. k2 \in DOMAIN chain'
    BY DEF RanksOf
  <2> QED BY <1>1, <2>1, <2>2, <2>3
<1>5. ASSUME k2 \notin RanksOf("document.signed", q)
      PROVE  k2 = n + 1 /\ request[q].status # "signed"
  BY <1>0, <1>5, NewRank DEF Inv, Sign, NotSigned
<1> QED BY <1>2, <1>3, <1>4, <1>5

\* Two signatures of a request are never next to each other: a write without a condition,
\* journalled between them, brought the request back (signature/service.go:422-446).
THEOREM OnlyStaleWritesReopenEver == Spec => []OnlyStaleWritesReopen
<1>1. Init => ReopenInv /\ OnlyStaleWritesReopen
  BY DEF Init, ReopenInv, OnlyStaleWritesReopen, RanksOf
<1>2. Inv /\ ReopenInv /\ OnlyStaleWritesReopen /\ [Next]_vars => ReopenInv' /\ OnlyStaleWritesReopen'
  BY ReopenStep, StaleStep
<1> QED BY <1>1, <1>2, InvAlways, PTL DEF Spec
=============================================================================
