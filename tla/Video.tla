------------------------------- MODULE Video -------------------------------
(***************************************************************************)
(* The life of one video (video/store.go): its card is reserved, the       *)
(* source is put in the bucket by the browser, an upload notice starts a   *)
(* job of the encoder, and the card learns the outcome of its job when it  *)
(* is next read.  Playing it, by an address or by its manifest, requires a *)
(* card that is ready.                                                     *)
(*                                                                         *)
(* Every write of the card is unconditional and of the whole of it.  The   *)
(* encoder is external: a job ends well or badly, by itself; an answer of  *)
(* it may be lost.  The uploaded file, sizes, durations and signatures are *)
(* left out.                                                               *)
(***************************************************************************)
EXTENDS Integers, Sequences

CONSTANTS
    Instances,     \* each serves one request after another
    MaxAsked,      \* a bound on the number of requests
    MaxJobs,       \* a bound on the number of jobs
    NoCard

VideoConstants == MaxAsked \in Nat /\ MaxJobs \in Nat

VARIABLES
    asked,     \* the number of requests
    card,      \* the card of the video, or NoCard: its status, its job (0: none), its manifest
    jobs,      \* jobs[j]: the outcome of the j-th job of the video, or "running"
    played,    \* whether some request was allowed to play it
    task       \* task[i]: where instance i is, with its copy of the card

videoVars == <<asked, card, jobs, played, task>>

-----------------------------------------------------------------------------

Idle == [at |-> "idle", play |-> FALSE, copy |-> NoCard, job |-> 0]

Init ==
    /\ asked = 0 /\ card = NoCard /\ jobs = << >> /\ played = FALSE
    /\ task = [i \in Instances |-> Idle]

Move(i, t) == task' = [task EXCEPT ![i] = t]

Asked(i) == task[i].at = "idle" /\ asked < MaxAsked /\ asked' = asked + 1

At(i, place) == task[i].at = place /\ UNCHANGED asked

NewAsset == [status |-> "awaiting_upload", job |-> 0, master |-> FALSE]

Reserve(i) ==
    /\ Asked(i)
    /\ card = NoCard /\ card' = NewAsset
    /\ UNCHANGED <<jobs, played, task>>

-----------------------------------------------------------------------------
(* The upload *)

\* Faulty: only a video that is ready is not encoded again.
FaultyEncodable(status) == status # "ready"

Encodable(status) == status \in {"awaiting_upload", "failed"}

ReadUploaded(i) ==
    /\ Asked(i) /\ card # NoCard
    /\ Encodable(card.status)
    /\ Move(i, [Idle EXCEPT !.at = "start", !.copy = card])
    /\ UNCHANGED <<card, jobs, played>>

\* The answer of the encoder may be lost.
Start(i) ==
    /\ At(i, "start") /\ Len(jobs) < MaxJobs
    /\ jobs' = Append(jobs, "running")
    /\ \/ Move(i, [task[i] EXCEPT !.at = "encoding", !.job = Len(jobs) + 1])
       \/ Move(i, [task[i] EXCEPT !.at = "failed"])
    /\ UNCHANGED <<card, played>>

StartFails(i) ==
    /\ At(i, "start")
    /\ Move(i, [task[i] EXCEPT !.at = "failed"])
    /\ UNCHANGED <<card, jobs, played>>

PutFailed(i) ==
    /\ At(i, "failed")
    /\ card' = [task[i].copy EXCEPT !.status = "failed"]
    /\ Move(i, Idle)
    /\ UNCHANGED <<jobs, played>>

PutEncoding(i) ==
    /\ At(i, "encoding")
    /\ card' = [task[i].copy EXCEPT !.status = "encoding", !.job = task[i].job]
    /\ Move(i, Idle)
    /\ UNCHANGED <<jobs, played>>

-----------------------------------------------------------------------------
(* The reading *)

Playable(c) == c.status = "ready" /\ c.master

\* A request to play goes on with the copy it has.
Answer(i, play, copy) ==
    /\ Move(i, Idle)
    /\ played' = (played \/ (play /\ Playable(copy)))

ReadRefresh(i) ==
    /\ Asked(i) /\ card # NoCard
    /\ \E play \in BOOLEAN :
          IF card.status = "encoding" /\ card.job # 0
          THEN Move(i, [Idle EXCEPT !.at = "ask", !.play = play, !.copy = card]) /\ UNCHANGED played
          ELSE Answer(i, play, card)
    /\ UNCHANGED <<card, jobs>>

Manifest(i) ==
    /\ Asked(i) /\ card # NoCard
    /\ Answer(i, TRUE, card)
    /\ UNCHANGED <<card, jobs>>

\* Faulty: a job that no longer runs has encoded the video.
FaultyOutcome(copy, state) ==
    IF state = "running" THEN copy ELSE [copy EXCEPT !.status = "ready", !.master = TRUE]

Outcome(copy, state) ==
    CASE state = "complete" -> [copy EXCEPT !.status = "ready", !.master = TRUE]
      [] state = "failed"   -> [copy EXCEPT !.status = "failed"]
      [] state = "running"  -> copy

AskEncoder(i) ==
    LET copy == task[i].copy
        outcome == Outcome(copy, jobs[copy.job])
    IN
    /\ At(i, "ask")
    /\ IF outcome = copy THEN Answer(i, task[i].play, copy)
       ELSE Move(i, [task[i] EXCEPT !.at = "put", !.copy = outcome]) /\ UNCHANGED played
    /\ UNCHANGED <<card, jobs>>

\* An encoder that does not answer leaves the video as it is known.
EncoderSilent(i) ==
    /\ At(i, "ask")
    /\ Answer(i, task[i].play, task[i].copy)
    /\ UNCHANGED <<card, jobs>>

PutOutcome(i) ==
    /\ At(i, "put")
    /\ card' = task[i].copy
    /\ Answer(i, task[i].play, task[i].copy)
    /\ UNCHANGED jobs

-----------------------------------------------------------------------------

\* An error of the store, or the death of the instance.
Die(i) ==
    /\ task[i].at # "idle"
    /\ Move(i, Idle)
    /\ UNCHANGED <<asked, card, jobs, played>>

JobEnds ==
    /\ \E j \in DOMAIN jobs : jobs[j] = "running" /\ jobs' \in {[jobs EXCEPT ![j] = "complete"],
                                                               [jobs EXCEPT ![j] = "failed"]}
    /\ UNCHANGED <<asked, card, played, task>>

Uploaded(i) == ReadUploaded(i) \/ Start(i) \/ StartFails(i) \/ PutFailed(i) \/ PutEncoding(i)

Refresh(i) == ReadRefresh(i) \/ AskEncoder(i) \/ EncoderSilent(i) \/ PutOutcome(i)

Next ==
    \/ \E i \in Instances : Reserve(i) \/ Uploaded(i) \/ Refresh(i) \/ Manifest(i) \/ Die(i)
    \/ JobEnds

Spec == Init /\ [][Next]_videoVars

-----------------------------------------------------------------------------
(* Properties *)

\* Whatever stale copies are put over the card, its status is that of the job it bears: ready
\* once that job is complete, failed only if the job failed; and a video that a request was
\* allowed to play has been encoded (store.go:150-190, video.go:239).
ReadyIsEncoded ==
    /\ card # NoCard =>
          /\ card.status = "ready" => card.master /\ card.job # 0 /\ jobs[card.job] = "complete"
          /\ card.status = "failed" /\ card.job # 0 => jobs[card.job] = "failed"
          /\ card.status = "encoding" => card.job # 0
    /\ played => \E j \in DOMAIN jobs : jobs[j] = "complete"

\* A job is started beside another that did not fail only if the card was written since the
\* upload notice was checked against it, or does not bear that other job, whose answer or
\* whose write was lost (store.go:98-141).
OnlyRacesEncodeTwice ==
    [][Len(jobs') > Len(jobs) =>
          \A i \in Instances :
             task'[i] # task[i] =>
                \/ task[i].copy # card
                \/ \A j \in DOMAIN jobs : jobs[j] = "failed" \/ card.job # j]_videoVars
=============================================================================
