----------------------------- MODULE TeachingProofs --------------------------
(***************************************************************************)
(* Proofs about Teaching, for every value of its constants.                *)
(*                                                                         *)
(* Video: what a card says of the jobs of the encoder, and when a video is *)
(* encoded twice.  Quizzes: an attempt is graded on what was published,    *)
(* which only a race rewrites.  Catalogue: what a write that comes late    *)
(* may undo or publish.  Attribution: when it opens what exists already.   *)
(***************************************************************************)
EXTENDS Teaching, TLAPS

Outcomes == {"running", "complete", "failed"}

Cards == [status : {"awaiting_upload", "encoding", "ready", "failed"}, job : Nat, master : BOOLEAN]

\* What a card says of its job, among the jobs js; a copy read earlier still says it.
Truthful(c, js) ==
    /\ c \in Cards /\ c.job \in 0 .. Len(js)
    /\ c.status = "awaiting_upload" => c.job = 0
    /\ c.status = "ready" => c.master /\ c.job # 0 /\ js[c.job] = "complete"
    /\ c.status = "failed" /\ c.job # 0 => js[c.job] = "failed"
    /\ c.status = "encoding" => c.job # 0

\* What an instance knows, where it is.
TaskOK(t, js) ==
    /\ t.at \in {"idle", "start", "failed", "encoding", "ask", "put"}
    /\ t.at # "idle" => Truthful(t.copy, js)
    /\ t.at \in {"start", "failed"} => Encodable(t.copy.status)
    /\ t.at = "encoding" => t.job \in 1 .. Len(js)
    /\ t.at = "ask" => t.copy.status = "encoding"

Inv ==
    /\ jobs \in Seq(Outcomes) /\ DOMAIN task = Instances
    /\ card # NoCard => Truthful(card, jobs)
    /\ \A i \in Instances : TaskOK(task[i], jobs)
    /\ played => \E j \in DOMAIN jobs : jobs[j] = "complete"

-----------------------------------------------------------------------------

\* A job that ended keeps its outcome, and a job is only added.
LEMMA JobsMove ==
    ASSUME Inv, [Next]_videoVars
    PROVE  /\ jobs' \in Seq(Outcomes) /\ Len(jobs') >= Len(jobs)
           /\ \A j \in 1 .. Len(jobs) : jobs[j] # "running" => jobs'[j] = jobs[j]
<1>1. CASE jobs' = jobs
  BY <1>1 DEF Inv
<1>2. CASE jobs' = Append(jobs, "running")
  BY <1>2 DEF Inv, Outcomes
<1>3. ASSUME NEW j \in DOMAIN jobs, NEW o \in Outcomes, jobs[j] = "running",
             jobs' = [jobs EXCEPT ![j] = o]
      PROVE  /\ jobs' \in Seq(Outcomes) /\ Len(jobs') >= Len(jobs)
             /\ \A k \in 1 .. Len(jobs) : jobs[k] # "running" => jobs'[k] = jobs[k]
  BY <1>3 DEF Inv
<1>4. \/ jobs' = jobs \/ jobs' = Append(jobs, "running")
      \/ \E j \in DOMAIN jobs, o \in Outcomes : jobs[j] = "running" /\ jobs' = [jobs EXCEPT ![j] = o]
  BY DEF Next, Reserve, Uploaded, ReadUploaded, Start, StartFails, PutFailed, PutEncoding, Refresh,
         ReadRefresh, AskEncoder, EncoderSilent, PutOutcome, Manifest, Die, JobEnds, videoVars, Outcomes
<1> QED BY <1>1, <1>2, <1>3, <1>4

LEMMA StaysTruthful ==
    ASSUME Inv, [Next]_videoVars, NEW c, Truthful(c, jobs)
    PROVE  Truthful(c, jobs')
<1>1. PICK n \in Nat : n = Len(jobs)
  BY DEF Inv
<1>2. PICK m \in Nat : m = Len(jobs') /\ m >= n
  BY <1>1, JobsMove
<1> QED BY <1>1, <1>2, JobsMove DEF Truthful, Cards

LEMMA TaskStays ==
    ASSUME Inv, [Next]_videoVars, NEW t, TaskOK(t, jobs)
    PROVE  TaskOK(t, jobs')
<1>1. PICK n \in Nat : n = Len(jobs)
  BY DEF Inv
<1>2. PICK m \in Nat : m = Len(jobs') /\ m >= n
  BY <1>1, JobsMove
<1> QED BY <1>1, <1>2, StaysTruthful DEF TaskOK

\* One instance moves, with a card that is truthful if it changes.
LEMMA Moves ==
    ASSUME Inv, [Next]_videoVars, NEW i \in Instances, NEW t, Move(i, t), TaskOK(t, jobs'),
           card' # card => Truthful(card', jobs'),
           played' => played \/ \E j \in DOMAIN jobs : jobs[j] = "complete"
    PROVE  Inv'
<1>1. \A g \in Instances : task'[g] = IF g = i THEN t ELSE task[g]
  BY DEF Inv, Move
<1>2. \A g \in Instances : TaskOK(task'[g], jobs')
  <2> SUFFICES ASSUME NEW g \in Instances PROVE TaskOK(task'[g], jobs')
    OBVIOUS
  <2>1. CASE g = i
    BY <1>1, <2>1
  <2>2. CASE g # i
    <3>1. PICK u : u = task[g] /\ TaskOK(u, jobs)
      BY DEF Inv
    <3> QED BY <1>1, <2>2, <3>1, TaskStays
  <2> QED BY <2>1, <2>2
<1>3. card' # NoCard => Truthful(card', jobs')
  <2>1. CASE card' = card
    <3>1. CASE card # NoCard
      <4>1. PICK c : c = card /\ Truthful(c, jobs)
        BY <3>1 DEF Inv
      <4> QED BY <2>1, <4>1, StaysTruthful
    <3> QED BY <2>1, <3>1
  <2> QED BY <2>1
<1>4. played' => \E j \in DOMAIN jobs' : jobs'[j] = "complete"
  <2> SUFFICES ASSUME played' PROVE \E j \in DOMAIN jobs' : jobs'[j] = "complete"
    OBVIOUS
  <2>1. PICK j \in DOMAIN jobs : jobs[j] = "complete"
    BY DEF Inv
  <2>2. j \in 1 .. Len(jobs) /\ DOMAIN jobs' = 1 .. Len(jobs') /\ Len(jobs) \in Nat /\ Len(jobs') \in Nat
    BY <2>1, JobsMove DEF Inv
  <2>3. j \in DOMAIN jobs'
    BY <2>2, JobsMove
  <2> QED BY <2>1, <2>2, <2>3, JobsMove
<1>5. jobs' \in Seq(Outcomes) /\ DOMAIN task' = Instances
  BY JobsMove DEF Inv, Move
<1> QED BY <1>2, <1>3, <1>4, <1>5 DEF Inv

LEMMA IdleOK == ASSUME NEW js PROVE TaskOK(Idle, js)
BY DEF Idle, TaskOK

\* A card that may be played has its job complete.
LEMMA PlayableIsEncoded ==
    ASSUME Inv, NEW c, Truthful(c, jobs), Playable(c)
    PROVE  \E j \in DOMAIN jobs : jobs[j] = "complete"
<1>1. c.job \in 1 .. Len(jobs) /\ jobs[c.job] = "complete"
  BY DEF Truthful, Playable, Cards, Inv
<1>2. DOMAIN jobs = 1 .. Len(jobs)
  BY DEF Inv
<1> QED BY <1>1, <1>2

LEMMA InvStep == ASSUME Inv, [Next]_videoVars PROVE Inv'
<1>0. \A i \in Instances : TaskOK(task[i], jobs)
  BY DEF Inv
<1>1. ASSUME NEW i \in Instances, Reserve(i)
      PROVE  Inv'
  <2>1. Truthful(NewAsset, jobs)
    BY DEF NewAsset, Truthful, Cards, Inv
  <2> QED BY <1>1, <2>1 DEF Reserve, Inv
<1>2. ASSUME NEW i \in Instances, ReadUploaded(i)
      PROVE  Inv'
  <2>1. PICK c : c = card /\ Truthful(c, jobs) /\ Encodable(c.status)
    BY <1>2 DEF ReadUploaded, Inv
  <2> DEFINE t == [Idle EXCEPT !.at = "start", !.copy = c]
  <2>2. TaskOK(t, jobs)
    BY <2>1 DEF TaskOK, Idle
  <2>3. Move(i, t) /\ UNCHANGED <<card, jobs, played>>
    BY <1>2, <2>1 DEF ReadUploaded
  <2> HIDE DEF t
  <2> QED BY <2>2, <2>3, Moves
<1>3. ASSUME NEW i \in Instances, Start(i)
      PROVE  Inv'
  <2>1. /\ jobs' = Append(jobs, "running") /\ UNCHANGED <<card, played>>
        /\ \/ Move(i, [task[i] EXCEPT !.at = "encoding", !.job = Len(jobs) + 1])
           \/ Move(i, [task[i] EXCEPT !.at = "failed"])
    BY <1>3 DEF Start
  <2>2. PICK u : u = task[i] /\ TaskOK(u, jobs') /\ u.at = "start"
    BY <1>0, <1>3, TaskStays DEF Start, At
  <2>3. PICK n \in Nat : n = Len(jobs)
    BY DEF Inv
  <2>4. Len(jobs') = n + 1
    BY <2>1, <2>3 DEF Inv, Outcomes
  <2>5. TaskOK([u EXCEPT !.at = "encoding", !.job = n + 1], jobs')
    BY <2>2, <2>4 DEF TaskOK
  <2>6. TaskOK([u EXCEPT !.at = "failed"], jobs')
    BY <2>2 DEF TaskOK
  <2> QED BY <2>1, <2>2, <2>3, <2>5, <2>6, Moves
<1>4. ASSUME NEW i \in Instances, StartFails(i)
      PROVE  Inv'
  <2>1. PICK u : u = task[i] /\ TaskOK(u, jobs) /\ u.at = "start"
    BY <1>0, <1>4 DEF StartFails, At
  <2>2. TaskOK([u EXCEPT !.at = "failed"], jobs)
    BY <2>1 DEF TaskOK
  <2> QED BY <1>4, <2>1, <2>2, Moves DEF StartFails
<1>5. ASSUME NEW i \in Instances, PutFailed(i)
      PROVE  Inv'
  <2>1. PICK u : u = task[i] /\ TaskOK(u, jobs) /\ u.at = "failed"
    BY <1>0, <1>5 DEF PutFailed, At
  <2>2. Truthful([u.copy EXCEPT !.status = "failed"], jobs)
    BY <2>1 DEF TaskOK, Truthful, Encodable, Cards
  <2> QED BY <1>5, <2>1, <2>2, IdleOK, Moves DEF PutFailed
<1>6. ASSUME NEW i \in Instances, PutEncoding(i)
      PROVE  Inv'
  <2>1. PICK u : u = task[i] /\ TaskOK(u, jobs) /\ u.at = "encoding"
    BY <1>0, <1>6 DEF PutEncoding, At
  <2>2. PICK n \in Nat : n = Len(jobs)
    BY DEF Inv
  <2>3. Truthful([u.copy EXCEPT !.status = "encoding", !.job = u.job], jobs)
    <3>1. PICK c \in Cards, k \in 1 .. n : c = u.copy /\ k = u.job
      BY <2>1, <2>2 DEF TaskOK, Truthful
    <3>2. PICK d : d = [c EXCEPT !.status = "encoding", !.job = k]
      OBVIOUS
    <3>3. k \in Nat /\ k # 0 /\ k \in 0 .. n
      BY <2>2
    <3>4. d \in Cards /\ d.status = "encoding" /\ d.job = k
      BY <3>2, <3>3 DEF Cards
    <3>5. Truthful(d, jobs)
      BY <2>2, <3>3, <3>4 DEF Truthful
    <3> QED BY <3>1, <3>2, <3>5
  <2> QED BY <1>6, <2>1, <2>3, IdleOK, Moves DEF PutEncoding
<1>7. ASSUME NEW i \in Instances, NEW play, NEW c, Answer(i, play, c), Truthful(c, jobs),
             UNCHANGED jobs, card' # card => Truthful(card', jobs)
      PROVE  Inv'
  <2>1. Move(i, Idle) /\ (played' => played \/ \E j \in DOMAIN jobs : jobs[j] = "complete")
    BY <1>7, PlayableIsEncoded DEF Answer
  <2> QED BY <1>7, <2>1, IdleOK, Moves
<1>8. ASSUME NEW i \in Instances, ReadRefresh(i)
      PROVE  Inv'
  <2>1. PICK c : c = card /\ Truthful(c, jobs)
    BY <1>8 DEF ReadRefresh, Inv
  <2>2. PICK play \in BOOLEAN :
           \/ c.status = "encoding" /\ UNCHANGED played
              /\ Move(i, [Idle EXCEPT !.at = "ask", !.play = play, !.copy = c])
           \/ Answer(i, play, c)
    BY <1>8, <2>1 DEF ReadRefresh
  <2>3. UNCHANGED <<card, jobs>>
    BY <1>8 DEF ReadRefresh
  <2>4. c.status = "encoding" => TaskOK([Idle EXCEPT !.at = "ask", !.play = play, !.copy = c], jobs)
    BY <2>1 DEF TaskOK, Idle
  <2> QED BY <1>7, <2>1, <2>2, <2>3, <2>4, Moves
<1>9. ASSUME NEW i \in Instances, Manifest(i)
      PROVE  Inv'
  <2>1. PICK c : c = card /\ Truthful(c, jobs)
    BY <1>9 DEF Manifest, Inv
  <2> QED BY <1>7, <1>9, <2>1 DEF Manifest
<1>10. ASSUME NEW i \in Instances, AskEncoder(i)
       PROVE  Inv'
  <2>1. PICK u : u = task[i] /\ TaskOK(u, jobs) /\ u.at = "ask"
    BY <1>0, <1>10 DEF AskEncoder, At
  <2>2. PICK c : c = u.copy /\ Truthful(c, jobs) /\ c.status = "encoding"
    BY <2>1 DEF TaskOK
  <2>3. c.job \in 1 .. Len(jobs) /\ jobs[c.job] \in Outcomes
    BY <2>2 DEF Truthful, Cards, Inv
  <2>4. PICK o : o = Outcome(c, jobs[c.job])
    OBVIOUS
  <2>5. Truthful(o, jobs)
    BY <2>2, <2>3, <2>4 DEF Truthful, Outcome, Cards, Outcomes
  <2>6. TaskOK([u EXCEPT !.at = "put", !.copy = o], jobs)
    BY <2>1, <2>5 DEF TaskOK
  <2>7. /\ UNCHANGED <<card, jobs>>
        /\ \/ Answer(i, u.play, c)
           \/ Move(i, [u EXCEPT !.at = "put", !.copy = o]) /\ UNCHANGED played
    BY <1>10, <2>1, <2>2, <2>4 DEF AskEncoder
  <2> QED BY <1>7, <2>2, <2>6, <2>7, Moves
<1>11. ASSUME NEW i \in Instances, EncoderSilent(i) \/ PutOutcome(i)
       PROVE  Inv'
  <2>1. PICK u : u = task[i] /\ TaskOK(u, jobs) /\ u.at # "idle"
    BY <1>0, <1>11 DEF EncoderSilent, PutOutcome, At
  <2>2. PICK c : c = u.copy /\ Truthful(c, jobs)
    BY <2>1 DEF TaskOK
  <2>3. Answer(i, u.play, c) /\ UNCHANGED jobs /\ (card' # card => card' = c)
    BY <1>11, <2>1, <2>2 DEF EncoderSilent, PutOutcome
  <2> QED BY <1>7, <2>2, <2>3
<1>12. ASSUME NEW i \in Instances, Die(i)
       PROVE  Inv'
  BY <1>12, IdleOK, Moves DEF Die
<1>13. CASE JobEnds
  <2>1. UNCHANGED <<card, played, task>>
    BY <1>13 DEF JobEnds
  <2>2. \A i \in Instances : TaskOK(task[i], jobs')
    <3> SUFFICES ASSUME NEW i \in Instances PROVE TaskOK(task[i], jobs')
      OBVIOUS
    <3>1. PICK u : u = task[i] /\ TaskOK(u, jobs)
      BY <1>0
    <3> QED BY <3>1, TaskStays
  <2>3. card # NoCard => Truthful(card, jobs')
    <3> SUFFICES ASSUME card # NoCard PROVE Truthful(card, jobs')
      OBVIOUS
    <3>1. PICK c : c = card /\ Truthful(c, jobs)
      BY DEF Inv
    <3> QED BY <3>1, StaysTruthful
  <2>4. played => \E j \in DOMAIN jobs' : jobs'[j] = "complete"
    <3>1. ASSUME NEW j \in DOMAIN jobs, jobs[j] = "complete"
          PROVE  \E k \in DOMAIN jobs' : jobs'[k] = "complete"
      BY <1>13, <3>1 DEF JobEnds, Inv
    <3> QED BY <3>1 DEF Inv
  <2>5. jobs' \in Seq(Outcomes)
    BY JobsMove
  <2> QED BY <2>1, <2>2, <2>3, <2>4, <2>5 DEF Inv
<1>14. CASE UNCHANGED videoVars
  BY <1>14 DEF videoVars, Inv
<1> QED BY <1>1, <1>2, <1>3, <1>4, <1>5, <1>6, <1>8, <1>9, <1>10, <1>11, <1>12, <1>13, <1>14
        DEF Next, Uploaded, Refresh

LEMMA InvAlways == Spec => []Inv
<1>1. Init => Inv
  BY IdleOK DEF Init, Inv
<1>2. Inv /\ [Next]_videoVars => Inv'
  BY InvStep
<1> QED BY <1>1, <1>2, PTL DEF Spec

-----------------------------------------------------------------------------

\* Whatever stale copies are put over the card, it is ready only once its job is complete,
\* and failed only if its job failed; a video that a request was allowed to play has been
\* encoded (store.go:150-190, video.go:239).
THEOREM ReadyCardsAreEncoded == Spec => []ReadyIsEncoded
<1>1. Inv => ReadyIsEncoded
  BY DEF Inv, Truthful, ReadyIsEncoded
<1> QED BY <1>1, InvAlways, PTL

\* A job is started beside another that did not fail only on a card that was written since
\* it was checked, or that does not bear that other job (store.go:98-141).
THEOREM OnlyStaleCardsEncodeTwice == Spec => OnlyRacesEncodeTwice
<1>1. ASSUME Inv, [Next]_videoVars, Len(jobs') > Len(jobs), NEW i \in Instances, task'[i] # task[i],
             task[i].copy = card, NEW j \in DOMAIN jobs, jobs[j] # "failed"
      PROVE  card.job # j
  <2>1. \E g \in Instances : Start(g)
    <3>1. CASE JobEnds
      BY <1>1, <3>1 DEF JobEnds, Inv
    <3>2. CASE UNCHANGED jobs
      BY <1>1, <3>2 DEF Inv
    <3> QED BY <1>1, <3>1, <3>2
            DEF Next, Reserve, Uploaded, ReadUploaded, StartFails, PutFailed, PutEncoding, Refresh,
                ReadRefresh, AskEncoder, EncoderSilent, PutOutcome, Manifest, Die, videoVars
  <2>2. Start(i)
    <3>1. PICK g \in Instances : Start(g) /\ \E t : task' = [task EXCEPT ![g] = t]
      BY <2>1 DEF Start, Move
    <3>2. DOMAIN task = Instances
      BY <1>1 DEF Inv
    <3> QED BY <1>1, <3>1, <3>2
  <2>3. Truthful(task[i].copy, jobs) /\ Encodable(task[i].copy.status)
    BY <1>1, <2>2 DEF Start, At, Inv, TaskOK
  <2>4. j # 0
    BY <1>1 DEF Inv
  <2> QED BY <1>1, <2>3, <2>4 DEF Truthful, Encodable
<1>2. Inv /\ [Next]_videoVars =>
         [Len(jobs') > Len(jobs) =>
          \A i \in Instances :
             task'[i] # task[i] =>
                \/ task[i].copy # card
                \/ \A j \in DOMAIN jobs : jobs[j] = "failed" \/ card.job # j]_videoVars
  BY <1>1
<1> QED BY <1>2, InvAlways, PTL DEF Spec, OnlyRacesEncodeTwice

-----------------------------------------------------------------------------
(* Quizzes: what is graded was published, and only races rewrite a version *)

Versions == [holds : Questionnaires, published : BOOLEAN]
Pages == [version : 1 .. MaxVersions, holds : Questionnaires]
GradedAttempts == [version : 1 .. MaxVersions, holds : Questionnaires, shown : Pages, passed : BOOLEAN]

QuizTypes ==
    /\ versions \in [1 .. MaxVersions -> Versions \cup {None}]
    /\ shownAs \in [1 .. MaxVersions -> Versions \cup {None}]
    /\ page \in [Candidates -> Pages \cup {None}]
    /\ attempts \in Seq(GradedAttempts)
    /\ DOMAIN desk = Editors

\* The check of a save saw no published version; a publication puts what it read.
DeskOK(d) ==
    /\ d.at # "away" => d.version \in 1 .. MaxVersions /\ d.copy \in Questionnaires
    /\ d.at = "save" => Q!Editable(d.seen)
    /\ d.at = "publish" => d.seen \in Versions /\ d.copy = d.seen.holds

DesksInv == \A e \in Editors : DeskOK(desk[e])

\* What version v shows, if it is published, was released under that number.
ReleasedAs(v, version) == version # None /\ version.published => <<v, version.holds>> \in releases

ReleasesInv ==
    /\ \A v \in 1 .. MaxVersions : ReleasedAs(v, versions[v]) /\ ReleasedAs(v, shownAs[v])
    /\ \A l \in Candidates : page[l] # None => <<page[l].version, page[l].holds>> \in releases

QuizInv == QuizTypes /\ DesksInv /\ ReleasesInv /\ GradedOnRelease

LEMMA Seated ==
    ASSUME QuizTypes, DesksInv, NEW e \in Editors, NEW d, Q!Sits(e, d), DeskOK(d)
    PROVE  DOMAIN desk' = Editors /\ DesksInv'
<1>1. \A f \in Editors : desk'[f] = IF f = e THEN d ELSE desk[f]
  BY DEF Q!Sits, QuizTypes
<1>2. DOMAIN desk' = Editors
  BY DEF Q!Sits, QuizTypes
<1> QED BY <1>1, <1>2 DEF DesksInv, DeskOK

\* Nothing of what learners see, and nothing that was released, moves with a desk.
LEMMA OnlyDesks ==
    ASSUME QuizInv, UNCHANGED <<versions, shownAs, page, attempts, releases>>, DOMAIN desk' = Editors, DesksInv'
    PROVE  QuizInv'
BY DEF QuizInv, QuizTypes, ReleasesInv, ReleasedAs, GradedOnRelease, Q!GradedOnRelease

LEMMA AwayOK == DeskOK(Q!Away)
BY DEF DeskOK, Q!Away

LEMMA QuizInit == Q!Init => QuizInv
<1> SUFFICES ASSUME Q!Init PROVE QuizInv
  OBVIOUS
<1>1. QuizTypes
  BY DEF Q!Init, QuizTypes
<1>2. DesksInv
  BY AwayOK DEF Q!Init, DesksInv
<1>3. ReleasesInv
  BY DEF Q!Init, ReleasesInv, ReleasedAs
<1>4. GradedOnRelease
  BY DEF Q!Init, GradedOnRelease, Q!GradedOnRelease
<1> QED BY <1>1, <1>2, <1>3, <1>4 DEF QuizInv

\* A version put by an editor, with its release if it is published.
LEMMA VersionPut ==
    ASSUME QuizInv, NEW e \in Editors, NEW v \in 1 .. MaxVersions, NEW version \in Versions,
           versions' = [versions EXCEPT ![v] = version], Q!Sits(e, Q!Away),
           UNCHANGED <<shownAs, page, attempts>>,
           releases \subseteq releases', version.published => <<v, version.holds>> \in releases'
    PROVE  QuizInv'
<1> USE DEF QuizInv
<1>1. DOMAIN desk' = Editors /\ DesksInv'
  BY Seated, AwayOK
<1>2. QuizTypes'
  BY <1>1 DEF QuizTypes
<1>3. ReleasesInv'
  BY DEF ReleasesInv, ReleasedAs, QuizTypes
<1>4. GradedOnRelease'
  BY DEF GradedOnRelease, Q!GradedOnRelease
<1> QED BY <1>1, <1>2, <1>3, <1>4

LEMMA EditorSteps ==
    ASSUME QuizInv, NEW e \in Editors,
           \/ Q!CheckSave(e) \/ Q!PutSave(e) \/ Q!ReadPublish(e) \/ Q!PutPublish(e) \/ Q!Leave(e)
    PROVE  QuizInv'
<1>1. CASE Q!CheckSave(e)
  <2>1. PICK v \in 1 .. MaxVersions, q \in Questionnaires :
            \/ /\ Q!Editable(versions[v])
               /\ Q!Sits(e, [at |-> "save", version |-> v, copy |-> q, seen |-> versions[v]])
            \/ Q!Sits(e, [at |-> "saveBlind", version |-> v, copy |-> q, seen |-> None])
    BY <1>1 DEF Q!CheckSave
  <2>2. DOMAIN desk' = Editors /\ DesksInv'
    BY <2>1, Seated DEF QuizInv, DeskOK
  <2> QED BY <1>1, <2>2, OnlyDesks DEF Q!CheckSave
<1>2. CASE Q!ReadPublish(e)
  <2>1. PICK v \in 1 .. MaxVersions :
            /\ versions[v] # None
            /\ Q!Sits(e, [at |-> "publish", version |-> v, copy |-> versions[v].holds, seen |-> versions[v]])
    BY <1>2 DEF Q!ReadPublish
  <2>2. versions[v] \in Versions /\ versions[v].holds \in Questionnaires
    BY <2>1 DEF QuizInv, QuizTypes, Versions
  <2>3. DOMAIN desk' = Editors /\ DesksInv'
    BY <2>1, <2>2, Seated DEF QuizInv, DeskOK
  <2> QED BY <1>2, <2>3, OnlyDesks DEF Q!ReadPublish
<1>3. CASE Q!PutSave(e)
  <2>1. DeskOK(desk[e]) /\ desk[e].at # "away"
    BY <1>3 DEF QuizInv, DesksInv, Q!PutSave
  <2> QED BY <1>3, <2>1, VersionPut DEF DeskOK, Q!PutSave, Versions
<1>4. CASE Q!PutPublish(e)
  <2>1. DeskOK(desk[e]) /\ desk[e].at # "away"
    BY <1>4 DEF QuizInv, DesksInv, Q!PutPublish
  <2> QED BY <1>4, <2>1, VersionPut DEF DeskOK, Q!PutPublish, Versions
<1>5. CASE Q!Leave(e)
  <2>1. DOMAIN desk' = Editors /\ DesksInv'
    BY <1>5, Seated, AwayOK DEF QuizInv, Q!Leave
  <2> QED BY <1>5, <2>1, OnlyDesks DEF Q!Leave
<1> QED BY <1>1, <1>2, <1>3, <1>4, <1>5

\* What the list shows as the latest version was released.
LEMMA LatestReleased ==
    ASSUME QuizInv, NEW v \in 1 .. MaxVersions, Q!Latest(v)
    PROVE  shownAs[v] \in Versions /\ <<v, shownAs[v].holds>> \in releases
BY DEF QuizInv, QuizTypes, ReleasesInv, ReleasedAs, Q!Latest, Q!Released

LEMMA LearnerSteps ==
    ASSUME QuizInv, NEW l \in Candidates, Q!GetQuiz(l) \/ Q!SubmitQuiz(l)
    PROVE  QuizInv'
<1>1. CASE Q!GetQuiz(l)
  <2>1. PICK v \in 1 .. MaxVersions :
            Q!Latest(v) /\ page' = [page EXCEPT ![l] = [version |-> v, holds |-> shownAs[v].holds]]
    BY <1>1 DEF Q!GetQuiz
  <2>2. shownAs[v] \in Versions /\ <<v, shownAs[v].holds>> \in releases
    BY <2>1, LatestReleased
  <2>3. [version |-> v, holds |-> shownAs[v].holds] \in Pages
    BY <2>2 DEF Versions, Pages
  <2>4. QuizTypes'
    BY <1>1, <2>1, <2>3 DEF QuizInv, QuizTypes, Q!GetQuiz
  <2>5. ReleasesInv'
    BY <1>1, <2>1, <2>2 DEF QuizInv, QuizTypes, ReleasesInv, ReleasedAs, Q!GetQuiz
  <2> QED BY <1>1, <2>4, <2>5 DEF QuizInv, DesksInv, GradedOnRelease, Q!GradedOnRelease, Q!GetQuiz
<1>2. CASE Q!SubmitQuiz(l)
  <2>1. PICK v \in 1 .. MaxVersions, answers \in Answers :
            /\ Q!Latest(v)
            /\ attempts' = Append(attempts, [version |-> v, holds |-> shownAs[v].holds, shown |-> page[l],
                                             passed |-> Q!Passed(shownAs[v].holds, answers)])
    BY <1>2 DEF Q!SubmitQuiz
  <2>2. shownAs[v] \in Versions /\ <<v, shownAs[v].holds>> \in releases
    BY <2>1, LatestReleased
  <2>3. page[l] \in Pages /\ <<page[l].version, page[l].holds>> \in releases
    BY <1>2 DEF QuizInv, QuizTypes, ReleasesInv, Q!SubmitQuiz
  <2>4. PICK passed \in BOOLEAN : passed = Q!Passed(shownAs[v].holds, answers)
    BY DEF Q!Passed
  <2>5. PICK a \in GradedAttempts :
            /\ a.version = v /\ a.holds = shownAs[v].holds /\ a.shown = page[l]
            /\ attempts' = Append(attempts, a)
    BY <2>1, <2>2, <2>3, <2>4 DEF GradedAttempts, Versions
  <2>6. QuizTypes'
    BY <1>2, <2>5 DEF QuizInv, QuizTypes, Q!SubmitQuiz
  <2>7. ReleasesInv'
    BY <1>2 DEF QuizInv, QuizTypes, ReleasesInv, ReleasedAs, Q!SubmitQuiz
  <2>8. GradedOnRelease'
    <3>1. releases' = releases /\ attempts \in Seq(GradedAttempts)
      BY <1>2 DEF QuizInv, QuizTypes, Q!SubmitQuiz
    <3>2. \A n \in DOMAIN attempts' : attempts'[n] = a \/ (n \in DOMAIN attempts /\ attempts'[n] = attempts[n])
      BY <3>1, <2>5
    <3>3. <<a.version, a.holds>> \in releases /\ <<a.shown.version, a.shown.holds>> \in releases
      BY <2>2, <2>3, <2>5
    <3>4. ASSUME NEW n \in DOMAIN attempts'
          PROVE  /\ <<attempts'[n].version, attempts'[n].holds>> \in releases
                 /\ <<attempts'[n].shown.version, attempts'[n].shown.holds>> \in releases
      BY <3>2, <3>3, <3>4 DEF QuizInv, GradedOnRelease, Q!GradedOnRelease
    <3> QED BY <3>1, <3>4 DEF GradedOnRelease, Q!GradedOnRelease
  <2> QED BY <1>2, <2>6, <2>7, <2>8 DEF QuizInv, DesksInv, Q!SubmitQuiz
<1> QED BY <1>1, <1>2

LEMMA ListSteps == ASSUME QuizInv, Q!CatchUp PROVE QuizInv'
<1>1. QuizTypes'
  BY DEF QuizInv, QuizTypes, Q!CatchUp
<1>2. ReleasesInv'
  BY DEF QuizInv, QuizTypes, ReleasesInv, ReleasedAs, Q!CatchUp
<1> QED BY <1>1, <1>2 DEF QuizInv, DesksInv, GradedOnRelease, Q!GradedOnRelease, Q!CatchUp

LEMMA QuizStep == QuizInv /\ [Q!Next]_Q!quizVars => QuizInv'
<1>1. ASSUME QuizInv, UNCHANGED Q!quizVars PROVE QuizInv'
  BY <1>1, OnlyDesks DEF QuizInv, QuizTypes, DesksInv, Q!quizVars
<1> QED BY <1>1, EditorSteps, LearnerSteps, ListSteps DEF Q!Next

LEMMA QuizAlways == Q!Spec => []QuizInv
BY QuizInit, QuizStep, PTL DEF Q!Spec

\* What is graded was published as such, under the number that the attempt keeps, and what
\* the learner was shown too (quiz_store.go:71-90, learning.go:313-330).
THEOREM AttemptsAreOnReleases == Q!Spec => []GradedOnRelease
<1>1. QuizInv => GradedOnRelease
  BY DEF QuizInv
<1> QED BY <1>1, QuizAlways, PTL

LEMMA Rewriting == QuizInv /\ [Q!Next]_Q!quizVars => [Q!RewrittenByRace]_Q!quizVars
<1> SUFFICES ASSUME QuizInv, Q!Next, NEW v \in 1 .. MaxVersions,
                    versions[v] # None, versions[v].published, versions'[v] # versions[v]
             PROVE  \E e \in Editors :
                       /\ desk'[e] # desk[e] /\ desk[e].version = v
                       /\ desk[e].at = "saveBlind" \/ desk[e].seen # versions[v]
  BY DEF Q!RewrittenByRace
<1>1. PICK e \in Editors : Q!PutSave(e) \/ Q!PutPublish(e)
  BY DEF Q!Next, Q!CheckSave, Q!ReadPublish, Q!Leave, Q!GetQuiz, Q!SubmitQuiz, Q!CatchUp
<1>2. DeskOK(desk[e]) /\ versions[v] \in Versions
  BY DEF QuizInv, QuizTypes, DesksInv
<1>3. desk[e].version = v
  BY <1>1 DEF QuizInv, QuizTypes, Q!PutSave, Q!PutPublish
<1>4. desk'[e] = Q!Away /\ desk[e].at # "away"
  BY <1>1 DEF QuizInv, QuizTypes, Q!PutSave, Q!PutPublish, Q!Sits
<1>5. desk'[e] # desk[e]
  BY <1>4 DEF Q!Away
<1>6. CASE Q!PutSave(e)
  <2>1. desk[e].at = "saveBlind" \/ Q!Editable(desk[e].seen)
    BY <1>2, <1>6 DEF DeskOK, Q!PutSave
  <2> QED BY <1>3, <1>5, <2>1 DEF Q!Editable
<1>7. CASE Q!PutPublish(e)
  <2>1. versions'[v] = [holds |-> desk[e].copy, published |-> TRUE]
    BY <1>3, <1>7 DEF QuizInv, QuizTypes, Q!PutPublish
  <2>2. desk[e].copy # versions[v].holds
    BY <1>2, <2>1 DEF Versions
  <2> QED BY <1>2, <1>3, <1>5, <1>7, <2>2 DEF DeskOK, Q!PutPublish
<1> QED BY <1>1, <1>6, <1>7

\* A version that is published is rewritten only by a save whose check could not read, or by
\* a race (quiz_store.go:40-60, 62-69).
THEOREM OnlyRacesRewriteEver == Q!Spec => OnlyRacesRewrite
BY QuizAlways, Rewriting, PTL DEF Q!Spec, OnlyRacesRewrite, Q!OnlyRacesRewrite

-----------------------------------------------------------------------------
(* Catalogue: what the writers of a course hold *)

CourseRecord == [filled : SUBSET C!Mentions, published : BOOLEAN, cover : BOOLEAN,
                 origin : {"new", "copy", "import"}]

\* What a request is about to put was made from the copy it read last; a publication was
\* allowed by the record it read first.
Prepared(j) ==
    \/ /\ j.kind = "edit" /\ j.seen = j.copy
       /\ C!Valid(j.after) /\ \E edit \in Edits : j.after = C!Corrected(j.copy, edit)
    \/ /\ j.kind = "cover" /\ j.seen = j.copy
       /\ \E cover \in BOOLEAN : j.after = [j.copy EXCEPT !.cover = cover]
    \/ /\ j.kind = "publish" /\ j.after = C!Published(j.copy, j)
       /\ j.on \in BOOLEAN /\ (j.on => C!Complete(j.seen))

ClerkSlots == {"pc", "kind", "course", "id", "edit", "on", "seen", "copy", "after", "todo"}

ClerkOK(j) ==
    /\ DOMAIN j = ClerkSlots
    /\ j.pc \in {"modules", "reread"} =>
          j.kind = "publish" /\ j.course \in DOMAIN courses /\ j.on \in BOOLEAN /\ (j.on => C!Complete(j.seen))
    /\ j.pc = "put" =>
          j.course \in DOMAIN courses /\ j.copy \in CourseRecord /\ j.after \in CourseRecord /\ Prepared(j)
    /\ j.pc \in {"modulesOf", "copy", "sections", "import"} => j.copy.filled \subseteq C!Mentions
    /\ j.pc = "sections" => j.kind \in {"import", "delete"}

ClerksInv == DOMAIN clerk = Clerks /\ \A h \in Clerks : ClerkOK(clerk[h])

LibraryInv == /\ DOMAIN library = Entries
              /\ \A l \in Entries : library[l] # None => library[l].filled \subseteq C!Mentions

CatalogueInv == courses \in Seq(CourseRecord) /\ ClerksInv /\ LibraryInv

\* What a step may do: to the courses, then to the handlers.
Added(c) == c \in CourseRecord /\ ~ C!Lacks(c) /\ courses' = Append(courses, c)
PutBy(h) == clerk[h].pc = "put" /\ courses' = [courses EXCEPT ![clerk[h].course] = clerk[h].after]
CoursesMove == courses' = courses \/ (\E c : Added(c)) \/ (\E h \in Clerks : PutBy(h))

ClerksMove == clerk' = clerk \/ \E h \in Clerks : \E j : C!Goto(h, j) /\ ClerkOK(j)

StepOK == CoursesMove /\ ClerksMove /\ LibraryInv'

LEMMA CoursesGrow ==
    ASSUME CatalogueInv, CoursesMove
    PROVE  courses' \in Seq(CourseRecord) /\ DOMAIN courses \subseteq DOMAIN courses'
<1>1. ASSUME NEW c, Added(c) PROVE courses' \in Seq(CourseRecord) /\ DOMAIN courses \subseteq DOMAIN courses'
  BY <1>1 DEF CatalogueInv, Added
<1>2. ASSUME NEW h \in Clerks, PutBy(h) PROVE courses' \in Seq(CourseRecord) /\ DOMAIN courses \subseteq DOMAIN courses'
  <2>1. clerk[h].course \in DOMAIN courses /\ clerk[h].after \in CourseRecord
    BY <1>2 DEF CatalogueInv, ClerksInv, ClerkOK, PutBy
  <2> QED BY <1>2, <2>1 DEF CatalogueInv, PutBy
<1> QED BY <1>1, <1>2 DEF CatalogueInv, CoursesMove

LEMMA CatalogueKept ==
    ASSUME CatalogueInv, StepOK
    PROVE  CatalogueInv'
<1>1. courses' \in Seq(CourseRecord) /\ DOMAIN courses \subseteq DOMAIN courses'
  BY CoursesGrow DEF StepOK
<1>2. DOMAIN clerk' = Clerks
  BY DEF CatalogueInv, ClerksInv, StepOK, ClerksMove, C!Goto
<1>3. ASSUME NEW g \in Clerks, NEW k, k = clerk'[g] PROVE ClerkOK(k)'
  <2>1. ClerkOK(k)
    BY <1>3 DEF CatalogueInv, ClerksInv, StepOK, ClerksMove, C!Goto
  <2> QED BY <1>1, <2>1 DEF ClerkOK
<1>4. ClerksInv'
  BY <1>2, <1>3 DEF ClerksInv, ClerkOK
<1> QED BY <1>1, <1>4 DEF CatalogueInv, StepOK

LEMMA ClerkIdleOK == ClerkOK(C!Idle)
BY DEF ClerkOK, ClerkSlots, C!Idle

LEMMA CatalogueInit == ASSUME C!Init PROVE CatalogueInv
<1>1. courses \in Seq(CourseRecord)
  <2>1. [C!NewCourse("new") EXCEPT !.filled = C!Mentions] \in CourseRecord
    BY DEF CourseRecord, C!NewCourse, C!Mentions
  <2> QED BY <2>1 DEF C!Init
<1>2. LibraryInv
  BY DEF LibraryInv, C!Init
<1>3. ClerksInv
  BY ClerkIdleOK DEF ClerksInv, C!Init
<1> QED BY <1>1, <1>2, <1>3 DEF CatalogueInv

-----------------------------------------------------------------------------
(* Catalogue: the requests *)

LEMMA EditFits ==
    ASSUME C!CatalogueConstants, NEW c \in CourseRecord, NEW edit \in Edits
    PROVE  C!Corrected(c, edit) \in CourseRecord /\ C!Corrected(c, edit).published = c.published
BY DEF C!CatalogueConstants, C!Corrected, CourseRecord

LEMMA CourseCreated ==
    ASSUME C!CatalogueConstants, CatalogueInv, NEW h \in Clerks, C!CreateCourse(h)
    PROVE  StepOK
<1>0. PICK edit \in Edits, open \in BOOLEAN :
          LET course == [C!Corrected(C!NewCourse("new"), edit) EXCEPT !.published = open]
          IN  C!Valid(course) /\ courses' = Append(courses, course)
  BY DEF C!CreateCourse
<1>1. PICK c : /\ c = [C!Corrected(C!NewCourse("new"), edit) EXCEPT !.published = open]
               /\ C!Valid(c) /\ courses' = Append(courses, c)
  BY <1>0
<1>2. C!NewCourse("new") \in CourseRecord
  BY DEF CourseRecord, C!NewCourse, C!Mentions
<1>3. c \in CourseRecord
  <2>1. PICK d \in CourseRecord : d = C!Corrected(C!NewCourse("new"), edit)
    BY <1>2, EditFits
  <2> QED BY <1>1, <2>1 DEF CourseRecord
<1>4. ~ C!Lacks(c)
  BY <1>1 DEF C!Lacks, C!Valid, C!Mandatory
<1>5. UNCHANGED <<clerk, library>>
  BY DEF C!CreateCourse
<1> QED BY <1>1, <1>3, <1>4, <1>5 DEF StepOK, CoursesMove, Added, ClerksMove, CatalogueInv, LibraryInv

LEMMA CourseReads ==
    ASSUME C!CatalogueConstants, CatalogueInv, NEW h \in Clerks, NEW c \in DOMAIN courses,
           C!ReadEdit(h, c) \/ C!ReadCover(h, c) \/ C!ReadPublish(h, c) \/ C!ReadSource(h, c)
    PROVE  StepOK
<1>1. UNCHANGED <<courses, library>>
  BY DEF C!ReadEdit, C!ReadCover, C!ReadPublish, C!ReadSource, C!tables
<1>2. PICK r \in CourseRecord : r = courses[c]
  BY DEF CatalogueInv
<1>3. CASE C!ReadEdit(h, c)
  <2>1. PICK edit \in Edits :
            /\ C!Valid(C!Corrected(r, edit))
            /\ C!Goto(h, [C!Idle EXCEPT !.pc = "put", !.kind = "edit", !.course = c, !.seen = r,
                                        !.copy = r, !.after = C!Corrected(r, edit)])
    BY <1>2, <1>3 DEF C!ReadEdit
  <2>2. PICK a \in CourseRecord : a = C!Corrected(r, edit)
    BY EditFits
  <2>3. ClerkOK([C!Idle EXCEPT !.pc = "put", !.kind = "edit", !.course = c, !.seen = r, !.copy = r, !.after = a])
    BY <2>1, <2>2 DEF ClerkOK, Prepared, ClerkSlots, C!Idle
  <2> QED BY <1>1, <2>1, <2>2, <2>3 DEF StepOK, CoursesMove, ClerksMove, CatalogueInv, LibraryInv
<1>4. CASE C!ReadCover(h, c)
  <2>0. PICK cover \in BOOLEAN :
            C!Goto(h, [C!Idle EXCEPT !.pc = "put", !.kind = "cover", !.course = c, !.seen = r,
                                     !.copy = r, !.after = [r EXCEPT !.cover = cover]])
    BY <1>2, <1>4 DEF C!ReadCover
  <2>1. PICK a : /\ a = [r EXCEPT !.cover = cover]
                 /\ C!Goto(h, [C!Idle EXCEPT !.pc = "put", !.kind = "cover", !.course = c, !.seen = r,
                                             !.copy = r, !.after = a])
    BY <2>0
  <2>2. a \in CourseRecord
    BY <2>1 DEF CourseRecord
  <2>3. ClerkOK([C!Idle EXCEPT !.pc = "put", !.kind = "cover", !.course = c, !.seen = r, !.copy = r, !.after = a])
    BY <2>1, <2>2 DEF ClerkOK, Prepared, ClerkSlots, C!Idle
  <2> QED BY <1>1, <2>1, <2>2, <2>3 DEF StepOK, CoursesMove, ClerksMove, CatalogueInv, LibraryInv
<1>5. CASE C!ReadPublish(h, c)
  <2>1. PICK on \in BOOLEAN, pc \in {"modules", "reread"} :
            /\ on => C!Complete(r)
            /\ C!Goto(h, [C!Idle EXCEPT !.pc = pc, !.kind = "publish", !.course = c, !.seen = r, !.on = on])
    BY <1>2, <1>5 DEF C!ReadPublish
  <2>2. ClerkOK([C!Idle EXCEPT !.pc = pc, !.kind = "publish", !.course = c, !.seen = r, !.on = on])
    BY <2>1 DEF ClerkOK, ClerkSlots, C!Idle
  <2> QED BY <1>1, <2>1, <2>2 DEF StepOK, CoursesMove, ClerksMove, CatalogueInv, LibraryInv
<1>6. CASE C!ReadSource(h, c)
  <2>1. ClerkOK([C!Idle EXCEPT !.pc = "modulesOf", !.course = c, !.copy = r])
    BY DEF ClerkOK, ClerkSlots, C!Idle, CourseRecord
  <2> QED BY <1>1, <1>2, <1>6, <2>1 DEF C!ReadSource, StepOK, CoursesMove, ClerksMove, CatalogueInv, LibraryInv
<1> QED BY <1>3, <1>4, <1>5, <1>6

LEMMA PublicationSteps ==
    ASSUME CatalogueInv, NEW h \in Clerks,
           C!CountModules(h) \/ C!ListFails(h) \/ C!SetPublished(h) \/ C!PutCourse(h)
    PROVE  StepOK
<1>1. ClerkOK(clerk[h]) /\ UNCHANGED library
  BY DEF CatalogueInv, ClerksInv, C!CountModules, C!ListFails, C!SetPublished, C!PutCourse, C!tables
<1>2. CASE C!Goto(h, C!Idle) /\ UNCHANGED courses
  BY <1>1, <1>2, ClerkIdleOK DEF StepOK, CoursesMove, ClerksMove, CatalogueInv, LibraryInv
<1>3. CASE clerk[h].pc = "modules" /\ C!Goto(h, [clerk[h] EXCEPT !.pc = "reread"]) /\ UNCHANGED courses
  <2>1. ClerkOK([clerk[h] EXCEPT !.pc = "reread"])
    BY <1>1, <1>3 DEF ClerkOK, ClerkSlots
  <2> QED BY <1>1, <1>3, <2>1 DEF StepOK, CoursesMove, ClerksMove, CatalogueInv, LibraryInv
<1>4. CASE C!SetPublished(h)
  <2>1. clerk[h].pc = "reread" /\ UNCHANGED courses
    BY <1>4 DEF C!SetPublished, C!Continue, C!tables
  <2>0. PICK r \in CourseRecord : r = courses[clerk[h].course]
    BY <1>1, <2>1 DEF ClerkOK, CatalogueInv
  <2>2. PICK a : a = C!Published(r, clerk[h])
    OBVIOUS
  <2>3. a \in CourseRecord
    BY <1>1, <2>1, <2>0, <2>2 DEF ClerkOK, CourseRecord, C!Published
  <2>4. PICK j : j = [clerk[h] EXCEPT !.pc = "put", !.copy = r, !.after = a]
    OBVIOUS
  <2>5. /\ DOMAIN j = ClerkSlots /\ j.pc = "put" /\ j.copy = r /\ j.after = a /\ j.on = clerk[h].on
        /\ j.kind = "publish" /\ j.seen = clerk[h].seen /\ j.course = clerk[h].course
    BY <1>1, <2>1, <2>4 DEF ClerkOK, ClerkSlots
  <2>6. ClerkOK(j)
    BY <1>1, <2>1, <2>2, <2>3, <2>5 DEF ClerkOK, Prepared, C!Published
  <2>7. C!Goto(h, j)
    BY <1>4, <2>0, <2>2, <2>4 DEF C!SetPublished
  <2> QED BY <1>1, <2>1, <2>6, <2>7 DEF StepOK, CoursesMove, ClerksMove, CatalogueInv, LibraryInv
<1>5. CASE C!PutCourse(h)
  <2>1. PutBy(h) /\ C!Goto(h, C!Idle)
    BY <1>5 DEF C!PutCourse, C!Continue, PutBy
  <2> QED BY <1>1, <2>1, ClerkIdleOK DEF StepOK, CoursesMove, ClerksMove, CatalogueInv, LibraryInv
<1> QED BY <1>2, <1>3, <1>4, <1>5 DEF C!CountModules, C!ListFails, C!Continue, C!tables

\* A course that is copied, from the catalogue or from the library, is a draft.
LEMMA CopyFits ==
    ASSUME NEW origin \in {"copy", "import"}, NEW filled \in SUBSET C!Mentions
    PROVE  [C!NewCourse(origin) EXCEPT !.filled = filled] \in CourseRecord
           /\ ~ C!Lacks([C!NewCourse(origin) EXCEPT !.filled = filled])
BY DEF C!NewCourse, CourseRecord, C!Lacks

LEMMA CopySteps ==
    ASSUME CatalogueInv, NEW h \in Clerks,
           C!ReadModulesOf(h) \/ C!CreateCopy(h) \/ C!Clone(h) \/ C!Import(h)
    PROVE  StepOK
<1>1. ClerkOK(clerk[h]) /\ UNCHANGED library
  BY DEF CatalogueInv, ClerksInv, C!ReadModulesOf, C!CreateCopy, C!Clone, C!Import, C!tables
<1>2. CASE C!ReadModulesOf(h)
  <2>1. PICK todo : C!Goto(h, [clerk[h] EXCEPT !.pc = "copy", !.todo = todo])
    BY <1>2 DEF C!ReadModulesOf
  <2>2. ClerkOK([clerk[h] EXCEPT !.pc = "copy", !.todo = todo])
    BY <1>1, <1>2 DEF ClerkOK, ClerkSlots, C!ReadModulesOf, C!Continue
  <2> QED BY <1>1, <1>2, <2>1, <2>2 DEF C!ReadModulesOf, C!tables, StepOK, CoursesMove, ClerksMove, CatalogueInv, LibraryInv
<1>3. CASE C!CreateCopy(h)
  <2>1. PICK filled \in SUBSET C!Mentions : filled = clerk[h].copy.filled
    BY <1>1, <1>3 DEF ClerkOK, C!CreateCopy, C!Continue
  <2>2. \E c : Added(c)
    BY <1>3, <2>1, CopyFits DEF Added, C!CreateCopy
  <2>3. ClerkOK([clerk[h] EXCEPT !.pc = "clones", !.id = Len(courses) + 1])
    BY <1>1 DEF ClerkOK, ClerkSlots
  <2> QED BY <1>1, <1>3, <2>2, <2>3 DEF C!CreateCopy, StepOK, CoursesMove, ClerksMove, CatalogueInv, LibraryInv
<1>4. CASE C!Clone(h)
  <2>1. ClerkOK([clerk[h] EXCEPT !.todo = Tail(@)])
    BY <1>1, <1>4 DEF ClerkOK, ClerkSlots, C!Clone, C!Continue
  <2> QED BY <1>1, <1>4, <2>1, ClerkIdleOK DEF C!Clone, StepOK, CoursesMove, ClerksMove, CatalogueInv, LibraryInv
<1>5. CASE C!Import(h)
  <2>1. PICK filled \in SUBSET C!Mentions : filled = clerk[h].copy.filled
    BY <1>1, <1>5 DEF ClerkOK, C!Import, C!Continue
  <2>2. \E c : Added(c)
    BY <1>5, <2>1, CopyFits DEF Added, C!Import
  <2>3. C!Goto(h, C!Idle)
    BY <1>5 DEF C!Import
  <2> QED BY <1>1, <2>2, <2>3, ClerkIdleOK DEF StepOK, CoursesMove, ClerksMove, CatalogueInv, LibraryInv
<1> QED BY <1>2, <1>3, <1>4, <1>5

LEMMA ModuleSteps ==
    ASSUME CatalogueInv, NEW h \in Clerks,
           \/ \E c \in DOMAIN courses : C!AddModule(h, c)
           \/ \E m \in DOMAIN modules : C!ReadModule(h, m)
           \/ C!PutModule(h)
    PROVE  StepOK
<1>1. UNCHANGED <<courses, library>>
  BY DEF C!AddModule, C!ReadModule, C!PutModule, C!tables
<1>2. ASSUME NEW m, C!ReadModule(h, m) PROVE ClerksMove
  <2>1. PICK part, copy, after :
            C!Goto(h, [C!Idle EXCEPT !.pc = "putModule", !.id = m, !.edit = part, !.copy = copy, !.after = after])
    BY <1>2 DEF C!ReadModule
  <2>2. ClerkOK([C!Idle EXCEPT !.pc = "putModule", !.id = m, !.edit = part, !.copy = copy, !.after = after])
    BY DEF ClerkOK, ClerkSlots, C!Idle
  <2> QED BY <2>1, <2>2 DEF ClerksMove
<1>3. ClerksMove
  BY <1>2, ClerkIdleOK DEF C!AddModule, C!PutModule, ClerksMove
<1> QED BY <1>1, <1>3 DEF StepOK, CoursesMove, CatalogueInv, LibraryInv

LEMMA LibrarySteps ==
    ASSUME C!CatalogueConstants, CatalogueInv, NEW h \in Clerks, C!EditLibrary(h), ~ C!Import(h)
    PROVE  StepOK
<1>1. ClerkOK(clerk[h]) /\ DOMAIN library = Entries
  BY DEF CatalogueInv, ClerksInv, LibraryInv
<1>2. UNCHANGED courses
  BY DEF C!EditLibrary, C!HandleSaveLibraryCourse, C!SaveEntry, C!HandleSaveLibraryModule, C!SaveSection,
     C!HandleDeleteLibraryModule, C!DeleteSection, C!HandleDeleteLibraryCourse, C!ReadEntry, C!DeleteEntry,
     C!HandleImportLibraryCourse, C!ReadSections, C!Reserve, C!tables
<1>3. ASSUME NEW l \in Entries, C!SaveEntry(h, l) PROVE StepOK
  <2>1. PICK edit \in Edits, open \in BOOLEAN : library' = [library EXCEPT ![l] = [filled |-> edit.fill, published |-> open]]
    BY <1>3 DEF C!SaveEntry
  <2>2. PICK entry : entry = [filled |-> edit.fill, published |-> open]
    OBVIOUS
  <2>3. library' = [library EXCEPT ![l] = entry] /\ entry.filled \subseteq C!Mentions
    BY <2>1, <2>2 DEF C!CatalogueConstants
  <2>4. LibraryInv'
    BY <2>3 DEF CatalogueInv, LibraryInv
  <2> QED BY <1>2, <1>3, <2>4 DEF StepOK, CoursesMove, ClerksMove, C!SaveEntry
<1>4. ASSUME UNCHANGED <<clerk, library>> PROVE StepOK
  BY <1>2, <1>4 DEF StepOK, CoursesMove, ClerksMove, CatalogueInv, LibraryInv
<1>5. ASSUME NEW kind \in {"import", "delete"}, NEW l \in Entries, C!ReadEntry(h, kind, l) PROVE StepOK
  <2>1. library[l].filled \subseteq C!Mentions /\ UNCHANGED library
    BY <1>5 DEF C!ReadEntry, CatalogueInv, LibraryInv, C!tables
  <2>2. PICK entry : entry = library[l]
    OBVIOUS
  <2>3. ClerkOK([C!Idle EXCEPT !.pc = "sections", !.kind = kind, !.course = l, !.copy = entry])
    BY <2>1, <2>2 DEF ClerkOK, ClerkSlots, C!Idle
  <2> QED BY <1>2, <1>5, <2>1, <2>2, <2>3 DEF C!ReadEntry, StepOK, CoursesMove, ClerksMove, CatalogueInv, LibraryInv
<1>6. ASSUME C!DeleteEntry(h) PROVE StepOK
  <2>1. LibraryInv'
    BY <1>6 DEF C!DeleteEntry, CatalogueInv, LibraryInv
  <2>2. ASSUME NEW k PROVE ClerkOK([clerk[h] EXCEPT !.id = @ \ {k}])
    BY <1>1, <1>6 DEF C!DeleteEntry, C!Continue, ClerkOK, ClerkSlots
  <2> QED BY <1>2, <1>6, <2>1, <2>2, ClerkIdleOK DEF C!DeleteEntry, StepOK, CoursesMove, ClerksMove
<1>7. ASSUME C!ReadSections(h) PROVE StepOK
  <2>1. PICK kind, seen, id : /\ C!Goto(h, [clerk[h] EXCEPT !.pc = kind, !.seen = seen, !.id = id])
                              /\ kind = clerk[h].kind
    BY <1>7 DEF C!ReadSections
  <2>2. clerk[h].kind \in {"import", "delete"} /\ clerk[h].copy.filled \subseteq C!Mentions
    BY <1>1, <1>7 DEF C!ReadSections, C!Continue, ClerkOK
  <2>3. ClerkOK([clerk[h] EXCEPT !.pc = kind, !.seen = seen, !.id = id])
    BY <1>1, <2>1, <2>2 DEF ClerkOK, ClerkSlots
  <2> QED BY <1>2, <1>7, <2>1, <2>3 DEF C!ReadSections, C!tables, StepOK, CoursesMove, ClerksMove, CatalogueInv, LibraryInv
<1> QED BY <1>3, <1>4, <1>5, <1>6, <1>7 DEF C!EditLibrary, C!HandleSaveLibraryCourse, C!HandleSaveLibraryModule,
       C!SaveSection, C!HandleDeleteLibraryModule, C!DeleteSection, C!HandleDeleteLibraryCourse,
       C!HandleImportLibraryCourse, C!Reserve

LEMMA CatalogueStep ==
    ASSUME C!CatalogueConstants, CatalogueInv, [C!Next]_C!vars
    PROVE  StepOK
<1>1. ASSUME NEW h \in Clerks, C!EditCourses(h) PROVE StepOK
  BY <1>1, CourseCreated, CourseReads, PublicationSteps, CopySteps, ModuleSteps DEF C!EditCourses
<1>2. ASSUME NEW h \in Clerks, C!EditLibrary(h) PROVE StepOK
  BY <1>2, CopySteps, LibrarySteps
<1>3. ASSUME NEW h \in Clerks, C!GiveUp(h) PROVE StepOK
  BY <1>3, ClerkIdleOK DEF C!GiveUp, C!tables, StepOK, CoursesMove, ClerksMove, CatalogueInv, LibraryInv
<1>4. (\E m \in DOMAIN modules : C!Index(m)) \/ UNCHANGED C!vars => StepOK
  BY DEF C!Index, C!vars, C!tables, StepOK, CoursesMove, ClerksMove, CatalogueInv, LibraryInv
<1> QED BY <1>1, <1>2, <1>3, <1>4 DEF C!Next

LEMMA CatalogueAlways == ASSUME C!CatalogueConstants PROVE C!Spec => []CatalogueInv
<1>1. C!Init => CatalogueInv
  BY CatalogueInit
<1>2. CatalogueInv /\ [C!Next]_C!vars => CatalogueInv'
  BY CatalogueStep, CatalogueKept
<1> QED BY <1>1, <1>2, PTL DEF C!Spec

-----------------------------------------------------------------------------
(* Catalogue: theorems *)

\* A course that is created, or put over the record it was made from.
LEMMA CourseWritten ==
    ASSUME CatalogueInv, CoursesMove
    PROVE  \A c \in DOMAIN courses' :
              \/ c \in DOMAIN courses /\ courses'[c] = courses[c]
              \/ c \notin DOMAIN courses /\ ~ C!Lacks(courses'[c])
              \/ /\ c \in DOMAIN courses
                 /\ \E h \in Clerks : C!Puts(h, c) /\ courses'[c] = clerk[h].after
<1>1. ASSUME NEW x, Added(x), NEW c \in DOMAIN courses'
      PROVE  \/ c \in DOMAIN courses /\ courses'[c] = courses[c]
             \/ c \notin DOMAIN courses /\ ~ C!Lacks(courses'[c])
  <2>1. courses \in Seq(CourseRecord) /\ courses' = Append(courses, x) /\ ~ C!Lacks(x)
    BY <1>1 DEF CatalogueInv, Added
  <2>2. c \in DOMAIN courses => courses'[c] = courses[c]
    BY <2>1
  <2>3. c \notin DOMAIN courses => courses'[c] = x
    BY <1>1, <2>1
  <2> QED BY <2>1, <2>2, <2>3
<1>2. ASSUME NEW h \in Clerks, PutBy(h), NEW c \in DOMAIN courses'
      PROVE  /\ c \in DOMAIN courses
             /\ \/ courses'[c] = courses[c]
                \/ C!Puts(h, c) /\ courses'[c] = clerk[h].after
  BY <1>2 DEF CatalogueInv, PutBy, C!Puts
<1> QED BY <1>1, <1>2 DEF CoursesMove

\* A published course misses its audience or its duration only by a race (course_publish.go:48-68,
\* service.go:279-320, model.go:112-130).
THEOREM OnlyRacesEverPublishIncomplete ==
    ASSUME C!CatalogueConstants PROVE C!Spec => OnlyRacesPublishIncomplete
<1>1. ASSUME CatalogueInv, [C!Next]_C!vars PROVE C!PublishedByRace
  <2>1. ASSUME NEW c \in DOMAIN courses', C!Lacks(courses'[c]), c \in DOMAIN courses => ~ C!Lacks(courses[c])
        PROVE  \E h \in Clerks : C!Puts(h, c) /\ (clerk[h].seen # courses[c] \/ clerk[h].copy # courses[c])
    <3>1. PICK h \in Clerks : C!Puts(h, c) /\ courses'[c] = clerk[h].after /\ c \in DOMAIN courses
      BY <1>1, <2>1, CatalogueStep, CourseWritten DEF StepOK
    <3>2. PICK j : j = clerk[h] /\ j.copy \in CourseRecord /\ Prepared(j)
      BY <1>1, <3>1 DEF CatalogueInv, ClerksInv, ClerkOK, C!Puts
    <3>3. ASSUME j.seen = courses[c], j.copy = courses[c] PROVE FALSE
      <4>1. CASE j.kind = "edit" /\ C!Valid(j.after)
        BY <2>1, <3>1, <3>2, <4>1 DEF C!Lacks, C!Valid, C!Mandatory
      <4>2. ASSUME NEW cover \in BOOLEAN, j.after = [j.copy EXCEPT !.cover = cover] PROVE FALSE
        BY <2>1, <3>1, <3>2, <3>3, <4>2 DEF C!Lacks, CourseRecord
      <4>3. CASE j.after = C!Published(j.copy, j) /\ j.on \in BOOLEAN /\ (j.on => C!Complete(j.seen))
        BY <2>1, <3>1, <3>2, <3>3, <4>3 DEF C!Lacks, C!Published, C!Complete, C!Programme, C!Mentions, CourseRecord
      <4> QED BY <3>2, <4>1, <4>2, <4>3 DEF Prepared
    <3> QED BY <3>1, <3>2, <3>3
  <2> QED BY <2>1 DEF C!PublishedByRace
<1>2. C!Spec => []CatalogueInv
  BY CatalogueAlways
<1> QED BY <1>1, <1>2, PTL DEF C!Spec, OnlyRacesPublishIncomplete, C!OnlyRacesPublishIncomplete

\* A request changes of a course what it is about, and puts the rest back only over a
\* change made after its last read (service.go:46-58, 274-320).
THEOREM OnlyStaleWritesEverRevert == ASSUME C!CatalogueConstants PROVE C!Spec => OnlyStaleWritesRevert
<1>1. ASSUME CatalogueInv, [C!Next]_C!vars PROVE C!RevertedByStaleWrite
  <2>1. ASSUME NEW c \in DOMAIN courses, courses'[c] # courses[c]
        PROVE  /\ courses'[c].filled # courses[c].filled       => C!PutsLate(c) \/ C!PutsFor("edit", c)
               /\ courses'[c].cover # courses[c].cover         => C!PutsLate(c) \/ C!PutsFor("cover", c)
               /\ courses'[c].published # courses[c].published => C!PutsLate(c) \/ C!PutsFor("publish", c)
    <3>1. c \in DOMAIN courses'
      BY <1>1, CatalogueStep, CoursesGrow DEF StepOK
    <3>2. PICK h \in Clerks : C!Puts(h, c) /\ courses'[c] = clerk[h].after
      BY <1>1, <2>1, <3>1, CatalogueStep, CourseWritten DEF StepOK
    <3>3. PICK j, a : j = clerk[h] /\ a = j.after /\ j.copy \in CourseRecord /\ Prepared(j)
      BY <1>1, <3>2 DEF CatalogueInv, ClerksInv, ClerkOK, C!Puts
    <3>4. j.kind = "edit" \/ (a.filled = j.copy.filled)
      BY <3>3 DEF Prepared, CourseRecord, C!Published
    <3>5. j.kind = "cover" \/ (a.cover = j.copy.cover)
      BY <3>3 DEF Prepared, CourseRecord, C!Published, C!Corrected
    <3>6. j.kind = "publish" \/ (a.published = j.copy.published)
      BY <3>3 DEF Prepared, CourseRecord, C!Published, C!Corrected
    <3>7. C!PutsLate(c) \/ (j.copy = courses[c] /\ courses'[c] = a)
      BY <3>2, <3>3 DEF C!PutsLate
    <3>8. \A kind : j.kind = kind => C!PutsFor(kind, c)
      BY <3>2, <3>3 DEF C!PutsFor
    <3> QED BY <3>4, <3>5, <3>6, <3>7, <3>8
  <2> QED BY <2>1 DEF C!RevertedByStaleWrite
<1>2. C!Spec => []CatalogueInv
  BY CatalogueAlways
<1> QED BY <1>1, <1>2, PTL DEF C!Spec, OnlyStaleWritesRevert, C!OnlyStaleWritesRevert

-----------------------------------------------------------------------------
(* Attribution: what was seen, and what has changed since *)

JournalEntry == [session : Nat, linked : BOOLEAN]

StoreInv ==
    /\ sessions \in Seq(A!PlannedSession) /\ agenda \in Seq(A!PlannedSession \cup {None})
    /\ files \in Seq(A!OpenedFile) /\ pipeline \in Seq(A!OpenedFile \cup {None})
    /\ journal \in Seq(Seq(JournalEntry))
    /\ undone \in Seq(Nat)
    /\ Len(agenda) = Len(sessions) /\ Len(pipeline) = Len(files) /\ Len(journal) = Len(files)
    /\ Len(undone) = Len(files)

\* No session that w met is open for its course; no file that it was shown is its learner's,
\* for its course, unless it was changed since.
NoneMet(w) ==
    \A s \in w.met : s \in DOMAIN sessions /\ (sessions[s].course # w.course \/ sessions[s].closed)
NoneShown(w) ==
    \A seen \in w.shown :
        /\ seen[1] \in DOMAIN files /\ seen[2] \in Nat /\ seen[2] <= A!Changes(seen[1])
        /\ \/ files[seen[1]].learner # w.learner \/ files[seen[1]].course # w.course
           \/ A!Changes(seen[1]) > seen[2]

WorkSlots == {"pc", "learner", "course", "session", "bare", "file", "copy", "met", "shown"}

WorkOK(w) ==
    /\ DOMAIN w = WorkSlots
    /\ w.pc \in {"session", "open", "file", "openFile"} => w.learner \in Learners /\ w.course \in Courses
    /\ w.pc = "session" => w.session \in DOMAIN sessions \cup {None} /\ w.met = {}
    /\ w.pc \in {"file", "openFile", "fund", "put", "check", "enroll", "write"} => w.session \in DOMAIN sessions
    /\ w.pc \in {"check", "enroll", "write"} => w.file \in DOMAIN files \cup {None}
    /\ w.pc \in {"fund", "put"} => w.file \in DOMAIN files
    /\ w.pc = "put" => w.copy \in A!OpenedFile
    /\ w.pc \in {"session", "open", "file", "openFile", "fund", "check", "enroll"} => w.copy = None
    /\ w.pc = "write" /\ w.copy # None => w.file # None /\ w.copy \in A!OpenedFile
    /\ w.pc = "open" => NoneMet(w)
    /\ w.pc \in {"session", "open", "file"} => w.file = None /\ w.shown = {}
    /\ w.pc = "openFile" => NoneShown(w)

WorksInv == DOMAIN work = Handlers /\ \A h \in Handlers : WorkOK(work[h])

AttributionInv == StoreInv /\ WorksInv /\ published \subseteq Courses

\* Sessions close; a file is put only as a change of it is counted.
StoreGrows ==
    /\ DOMAIN sessions \subseteq DOMAIN sessions' /\ DOMAIN files \subseteq DOMAIN files'
    /\ \A s \in DOMAIN sessions : /\ sessions'[s].course = sessions[s].course
                                  /\ sessions[s].closed => sessions'[s].closed
    /\ \A f \in DOMAIN files : /\ A!Changes(f) \in Nat /\ A!Changes(f)' \in Nat
                               /\ \/ files'[f] = files[f] /\ A!Changes(f)' = A!Changes(f)
                                  \/ A!Changes(f)' > A!Changes(f)

WorkMoves == work' = work \/ \E h \in Handlers : \E w : A!Become(h, w) /\ (WorkOK(w) \/ WorkOK(w)')

LEMMA WorkGrows ==
    ASSUME StoreGrows, NEW w, WorkOK(w)
    PROVE  WorkOK(w)'
<1>1. NoneMet(w) => NoneMet(w)'
  BY DEF NoneMet, StoreGrows
<1>2. NoneShown(w) => NoneShown(w)'
  <2> SUFFICES ASSUME NoneShown(w), NEW seen \in w.shown
               PROVE  /\ seen[1] \in DOMAIN files' /\ seen[2] \in Nat /\ seen[2] <= A!Changes(seen[1])'
                      /\ \/ files'[seen[1]].learner # w.learner \/ files'[seen[1]].course # w.course
                         \/ A!Changes(seen[1])' > seen[2]
    BY DEF NoneShown, A!Changes
  <2>1. PICK f \in DOMAIN files : f = seen[1]
    BY DEF NoneShown
  <2>2. PICK n \in Nat, m \in Nat : n = A!Changes(f) /\ m = A!Changes(f)'
    BY DEF StoreGrows
  <2>3. PICK k \in Nat : k = seen[2] /\ k <= n /\ (files[f].learner # w.learner \/ files[f].course # w.course \/ n > k)
    BY <2>1, <2>2 DEF NoneShown
  <2>4. f \in DOMAIN files' /\ ((files'[f] = files[f] /\ m = n) \/ m > n)
    BY <2>2 DEF StoreGrows
  <2> QED BY <2>1, <2>2, <2>3, <2>4
<1> QED BY <1>1, <1>2 DEF WorkOK, StoreGrows

LEMMA WorksKept ==
    ASSUME WorksInv, StoreGrows, WorkMoves
    PROVE  WorksInv'
<1>1. DOMAIN work' = Handlers
  BY DEF WorksInv, WorkMoves, A!Become
<1>2. ASSUME NEW g \in Handlers, NEW k, k = work'[g] PROVE WorkOK(k)'
  <2>1. WorkOK(k) \/ WorkOK(k)'
    <3>1. CASE work' = work
      BY <1>2, <3>1 DEF WorksInv
    <3>2. ASSUME NEW h \in Handlers, NEW w, A!Become(h, w), WorkOK(w) \/ WorkOK(w)' PROVE WorkOK(k) \/ WorkOK(k)'
      <4>1. k = IF g = h THEN w ELSE work[g]
        BY <1>2, <3>2 DEF WorksInv, A!Become
      <4> QED BY <3>2, <4>1 DEF WorksInv
    <3> QED BY <3>1, <3>2 DEF WorkMoves
  <2> QED BY <2>1, WorkGrows
<1> QED BY <1>1, <1>2 DEF WorksInv, WorkOK, NoneMet, NoneShown, A!Changes

LEMMA RestOK == WorkOK(A!Rest)
BY DEF WorkOK, WorkSlots, A!Rest

LEMMA AttributionInit == A!Init => AttributionInv
<1> SUFFICES ASSUME A!Init PROVE AttributionInv
  OBVIOUS
<1>1. StoreInv
  BY DEF A!Init, StoreInv
<1>2. WorksInv
  BY RestOK DEF A!Init, WorksInv
<1> QED BY <1>1, <1>2 DEF AttributionInv, A!Init

-----------------------------------------------------------------------------
(* Attribution: the store *)

LEMMA ChangesCounted ==
    ASSUME StoreInv, NEW f \in DOMAIN files
    PROVE  /\ journal[f] \in Seq(JournalEntry) /\ undone[f] \in Nat
           /\ Len(journal[f]) \in Nat /\ A!Changes(f) \in Nat
<1>1. f \in DOMAIN journal /\ f \in DOMAIN undone
  BY DEF StoreInv
<1>2. journal[f] \in Seq(JournalEntry) /\ undone[f] \in Nat
  BY <1>1 DEF StoreInv
<1> QED BY <1>2 DEF A!Changes

LEMMA StoreKept ==
    ASSUME StoreInv, UNCHANGED <<sessions, agenda, files, pipeline, journal, undone>>
    PROVE  StoreInv' /\ StoreGrows
<1>1. \A f \in DOMAIN files : A!Changes(f) \in Nat /\ A!Changes(f)' = A!Changes(f)
  BY ChangesCounted DEF A!Changes
<1> QED BY <1>1 DEF StoreInv, StoreGrows

LEMMA SessionOpened ==
    ASSUME StoreInv, NEW c \in Courses, A!OpenSession(c), UNCHANGED <<files, pipeline, journal, undone>>
    PROVE  StoreInv' /\ StoreGrows /\ Len(sessions) + 1 \in DOMAIN sessions'
<1>1. [course |-> c, closed |-> FALSE] \in A!PlannedSession
  BY DEF A!PlannedSession
<1>2. PICK s \in A!PlannedSession : sessions' = Append(sessions, s) /\ agenda' = Append(agenda, None)
  BY <1>1 DEF A!OpenSession
<1>3. /\ sessions' \in Seq(A!PlannedSession) /\ Len(sessions') = Len(sessions) + 1
      /\ DOMAIN sessions' = 1 .. Len(sessions) + 1 /\ Len(sessions) \in Nat
      /\ DOMAIN sessions = 1 .. Len(sessions)
      /\ \A k \in DOMAIN sessions : sessions'[k] = sessions[k]
  BY <1>2 DEF StoreInv
<1>4. agenda' \in Seq(A!PlannedSession \cup {None}) /\ Len(agenda') = Len(agenda) + 1
  BY <1>2 DEF StoreInv
<1>5. \A f \in DOMAIN files : A!Changes(f) \in Nat /\ A!Changes(f)' = A!Changes(f)
  BY ChangesCounted DEF A!Changes
<1> QED BY <1>3, <1>4, <1>5 DEF StoreInv, StoreGrows

LEMMA FileOpened ==
    ASSUME StoreInv, NEW l \in Learners, NEW c \in Courses, A!OpenFile(l, c), UNCHANGED <<sessions, agenda>>
    PROVE  StoreInv' /\ StoreGrows /\ Len(files) + 1 \in DOMAIN files'
<1>1. [learner |-> l, course |-> c, session |-> None] \in A!OpenedFile
  BY DEF A!OpenedFile
<1>2. PICK f \in A!OpenedFile : /\ files' = Append(files, f) /\ pipeline' = Append(pipeline, None)
                                /\ journal' = Append(journal, << >>) /\ undone' = Append(undone, 0)
  BY <1>1 DEF A!OpenFile
<1>3. /\ files' \in Seq(A!OpenedFile) /\ Len(files') = Len(files) + 1 /\ Len(files) \in Nat
      /\ DOMAIN files' = 1 .. Len(files) + 1 /\ DOMAIN files = 1 .. Len(files)
      /\ \A k \in DOMAIN files : files'[k] = files[k]
  BY <1>2 DEF StoreInv
<1>4. pipeline' \in Seq(A!OpenedFile \cup {None}) /\ Len(pipeline') = Len(pipeline) + 1
  BY <1>2 DEF StoreInv
<1>5. << >> \in Seq(JournalEntry)
  OBVIOUS
<1>6. /\ journal' \in Seq(Seq(JournalEntry)) /\ Len(journal') = Len(journal) + 1
      /\ \A k \in DOMAIN journal : journal'[k] = journal[k]
      /\ DOMAIN journal = 1 .. Len(journal)
  BY <1>2, <1>5 DEF StoreInv
<1>7. /\ undone' \in Seq(Nat) /\ Len(undone') = Len(undone) + 1
      /\ \A k \in DOMAIN undone : undone'[k] = undone[k]
      /\ DOMAIN undone = 1 .. Len(undone)
  BY <1>2 DEF StoreInv
<1>8. \A k \in DOMAIN files : A!Changes(k) \in Nat /\ A!Changes(k)' = A!Changes(k)
  BY <1>3, <1>6, <1>7, ChangesCounted DEF StoreInv, A!Changes
<1> QED BY <1>3, <1>4, <1>6, <1>7, <1>8 DEF StoreInv, StoreGrows

LEMMA EnrolmentRecorded ==
    ASSUME StoreInv, NEW f \in DOMAIN files, NEW e \in JournalEntry, NEW r \in A!OpenedFile,
           files' = [files EXCEPT ![f] = r], journal' = [journal EXCEPT ![f] = Append(@, e)],
           UNCHANGED <<sessions, agenda, pipeline, undone>>
    PROVE  StoreInv' /\ StoreGrows
<1>1. files' \in Seq(A!OpenedFile) /\ Len(files') = Len(files) /\ DOMAIN files' = DOMAIN files
      /\ \A k \in DOMAIN files : k # f => files'[k] = files[k]
  BY DEF StoreInv
<1>2. DOMAIN journal = DOMAIN files /\ journal \in Seq(Seq(JournalEntry))
  BY DEF StoreInv
<1>3. PICK old, new : old = journal[f] /\ new = Append(journal[f], e)
  OBVIOUS
<1>4. old \in Seq(JournalEntry)
  BY <1>2, <1>3
<1>5. new \in Seq(JournalEntry) /\ Len(new) = Len(old) + 1 /\ Len(old) \in Nat
  BY <1>3, <1>4
<1>6. journal' = [journal EXCEPT ![f] = new]
  BY <1>3
<1>7. journal' \in Seq(Seq(JournalEntry)) /\ Len(journal') = Len(journal) /\ journal'[f] = new
      /\ \A k \in DOMAIN files : k # f => journal'[k] = journal[k]
  BY <1>2, <1>5, <1>6
<1>8. /\ A!Changes(f)' \in Nat /\ A!Changes(f)' > A!Changes(f)
      /\ \A k \in DOMAIN files : A!Changes(k) \in Nat /\ (k # f => A!Changes(k)' = A!Changes(k))
  BY <1>3, <1>5, <1>7, ChangesCounted DEF A!Changes
<1> QED BY <1>1, <1>7, <1>8 DEF StoreInv, StoreGrows

LEMMA FundingPut ==
    ASSUME StoreInv, NEW f \in DOMAIN files, NEW r \in A!OpenedFile,
           files' = [files EXCEPT ![f] = r],
           undone' = IF files[f] = r THEN undone ELSE [undone EXCEPT ![f] = @ + 1],
           UNCHANGED <<sessions, agenda, pipeline, journal>>
    PROVE  StoreInv' /\ StoreGrows
<1>1. files' \in Seq(A!OpenedFile) /\ Len(files') = Len(files) /\ DOMAIN files' = DOMAIN files
      /\ files'[f] = r /\ \A k \in DOMAIN files : k # f => files'[k] = files[k]
  BY DEF StoreInv
<1>2. DOMAIN undone = DOMAIN files /\ undone \in Seq(Nat)
  BY DEF StoreInv
<1>3. PICK n \in Nat : n = undone[f]
  BY <1>2
<1>4. /\ undone' \in Seq(Nat) /\ Len(undone') = Len(undone)
      /\ undone'[f] = IF files[f] = r THEN n ELSE n + 1
      /\ \A k \in DOMAIN files : k # f => undone'[k] = undone[k]
  BY <1>2, <1>3
<1>5. \A k \in DOMAIN files : /\ A!Changes(k) \in Nat
                              /\ A!Changes(k)' = Len(journal[k]) + undone'[k]
                              /\ A!Changes(k) = Len(journal[k]) + undone[k]
  BY ChangesCounted DEF A!Changes
<1>6. StoreInv'
  BY <1>1, <1>4 DEF StoreInv
<1>7. \A k \in DOMAIN files : /\ A!Changes(k) \in Nat /\ A!Changes(k)' \in Nat
                              /\ \/ files'[k] = files[k] /\ A!Changes(k)' = A!Changes(k)
                                 \/ A!Changes(k)' > A!Changes(k)
  <2> TAKE k \in DOMAIN files
  <2>1. CASE k # f
    BY <1>1, <1>4, <1>5, <2>1
  <2>2. CASE k = f /\ files[f] = r
    BY <1>1, <1>3, <1>4, <1>5, <2>2
  <2>3. CASE k = f /\ files[f] # r
    <3>1. A!Changes(k) = Len(journal[k]) + n /\ A!Changes(k)' = Len(journal[k]) + (n + 1)
      BY <1>3, <1>4, <1>5, <2>3
    <3>2. Len(journal[k]) \in Nat
      BY <1>2 DEF StoreInv
    <3> HIDE DEF A!Changes
    <3> QED BY <3>1, <3>2, <1>3
  <2> QED BY <2>1, <2>2, <2>3
<1> QED BY <1>1, <1>6, <1>7 DEF StoreGrows

-----------------------------------------------------------------------------
(* Attribution: the requests *)

StoreStepOK == StoreInv' /\ StoreGrows /\ WorkMoves

LEMMA OneByOne ==
    ASSUME AttributionInv, NEW h \in Handlers,
           \/ A!PlanSession(h) \/ A!CreateFile(h) \/ A!EnrollAlone(h) \/ A!SetPublished(h)
           \/ A!CloseSession(h) \/ A!Attribute(h) \/ A!GiveUp(h)
    PROVE  StoreStepOK
<1>1. CASE A!PlanSession(h)
  BY <1>1, SessionOpened DEF A!PlanSession, AttributionInv, StoreStepOK, WorkMoves
<1>2. CASE A!CreateFile(h)
  BY <1>2, FileOpened DEF A!CreateFile, AttributionInv, StoreStepOK, WorkMoves
<1>3. CASE A!EnrollAlone(h)
  <2>1. PICK l \in Learners, s \in DOMAIN sessions, f \in DOMAIN files \cup {None} :
            A!Become(h, [A!Rest EXCEPT !.pc = "enroll", !.learner = l, !.session = s, !.file = f])
    BY <1>3 DEF A!EnrollAlone
  <2>2. WorkOK([A!Rest EXCEPT !.pc = "enroll", !.learner = l, !.session = s, !.file = f])
    BY DEF WorkOK, WorkSlots, A!Rest
  <2> QED BY <1>3, <2>1, <2>2, StoreKept DEF A!EnrollAlone, A!store, AttributionInv, StoreStepOK, WorkMoves
<1>4. CASE A!SetPublished(h)
  BY <1>4, StoreKept DEF A!SetPublished, AttributionInv, StoreStepOK, WorkMoves
<1>5. CASE A!CloseSession(h)
  <2>1. PICK s \in DOMAIN sessions : sessions' = [sessions EXCEPT ![s].closed = TRUE]
    BY <1>5 DEF A!CloseSession
  <2>2. PICK r : r = [sessions[s] EXCEPT !.closed = TRUE]
    OBVIOUS
  <2>3. sessions \in Seq(A!PlannedSession) /\ sessions[s] \in A!PlannedSession
    BY DEF AttributionInv, StoreInv
  <2>4. r \in A!PlannedSession /\ r.course = sessions[s].course /\ r.closed
    BY <2>2, <2>3 DEF A!PlannedSession
  <2>5. sessions' = [sessions EXCEPT ![s] = r]
    BY <2>1, <2>2
  <2>6. sessions' \in Seq(A!PlannedSession) /\ Len(sessions') = Len(sessions) /\ DOMAIN sessions' = DOMAIN sessions
        /\ \A k \in DOMAIN sessions : sessions'[k] = IF k = s THEN r ELSE sessions[k]
    BY <2>3, <2>4, <2>5
  <2>7. UNCHANGED <<agenda, files, pipeline, journal, undone, work>>
    BY <1>5 DEF A!CloseSession
  <2>8. \A f \in DOMAIN files : A!Changes(f) \in Nat /\ A!Changes(f)' = A!Changes(f)
    BY <2>7, ChangesCounted DEF AttributionInv, A!Changes
  <2> QED BY <2>4, <2>6, <2>7, <2>8 DEF AttributionInv, StoreInv, StoreStepOK, StoreGrows, WorkMoves
<1>6. CASE A!Attribute(h)
  <2>1. PICK l \in Learners, c \in Courses, wanted \in DOMAIN sessions \cup {None}, bare \in BOOLEAN :
            A!Become(h, [A!Rest EXCEPT !.pc = "session", !.learner = l, !.course = c, !.session = wanted,
                                       !.bare = bare])
    BY <1>6 DEF A!Attribute, AttributionInv
  <2>2. WorkOK([A!Rest EXCEPT !.pc = "session", !.learner = l, !.course = c, !.session = wanted, !.bare = bare])
    BY DEF WorkOK, WorkSlots, A!Rest
  <2> QED BY <1>6, <2>1, <2>2, StoreKept DEF A!Attribute, A!store, AttributionInv, StoreStepOK, WorkMoves
<1>7. CASE A!GiveUp(h)
  BY <1>7, RestOK, StoreKept DEF A!GiveUp, A!store, AttributionInv, StoreStepOK, WorkMoves
<1> QED BY <1>1, <1>2, <1>3, <1>4, <1>5, <1>6, <1>7

\* A handler that only reads.
LEMMA OnlyLooks ==
    ASSUME AttributionInv, UNCHANGED A!store, NEW h \in Handlers, NEW w, A!Become(h, w), WorkOK(w)
    PROVE  StoreStepOK
BY StoreKept DEF A!store, AttributionInv, StoreStepOK, WorkMoves

LEMMA SessionTaken ==
    ASSUME A!AttributionConstants, AttributionInv, NEW h \in Handlers,
           A!TakeWanted(h) \/ A!TakeOpen(h) \/ A!AgendaFails(h)
    PROVE  StoreStepOK
<1> DEFINE w == work[h]
<1>1. WorkOK(w) /\ w.pc = "session" /\ UNCHANGED A!store
  BY DEF AttributionInv, WorksInv, A!TakeWanted, A!TakeOpen, A!AgendaFails, A!Step
<1>2. DOMAIN agenda = DOMAIN sessions
  BY DEF AttributionInv, StoreInv
<1>3. ASSUME NEW s \in DOMAIN sessions, A!Become(h, [w EXCEPT !.pc = "file", !.session = s]) PROVE StoreStepOK
  <2>1. WorkOK([w EXCEPT !.pc = "file", !.session = s])
    BY <1>1 DEF WorkOK, WorkSlots
  <2> HIDE DEF w
  <2> QED BY <1>1, <1>3, <2>1, OnlyLooks
<1>4. ASSUME A!Become(h, [w EXCEPT !.pc = "open"]) PROVE StoreStepOK
  <2>1. WorkOK([w EXCEPT !.pc = "open"])
    BY <1>1 DEF WorkOK, WorkSlots, NoneMet
  <2> HIDE DEF w
  <2> QED BY <1>1, <1>4, <2>1, OnlyLooks
<1>5. ASSUME A!TakeWanted(h) PROVE StoreStepOK
  <2>1. WorkOK([w EXCEPT !.pc = "file"])
    BY <1>1, <1>5 DEF WorkOK, WorkSlots, A!TakeWanted
  <2>2. A!Become(h, A!Rest) \/ A!Become(h, [w EXCEPT !.pc = "file"])
    BY <1>5 DEF A!TakeWanted
  <2> HIDE DEF w
  <2> QED BY <1>1, <2>1, <2>2, RestOK, OnlyLooks
<1>6. ASSUME NEW batch \in A!AgendaPages, A!OpenOnes(w.course, batch) = {},
             A!Become(h, [w EXCEPT !.pc = "open", !.met = A!InAgenda(batch)])
      PROVE  StoreStepOK
  <2>1. ASSUME NEW s \in A!InAgenda(batch)
        PROVE  s \in DOMAIN sessions /\ (sessions[s].course # w.course \/ sessions[s].closed)
    <3>1. s \in batch /\ s \in DOMAIN sessions /\ agenda[s] = sessions[s]
      BY <1>2, <2>1 DEF A!InAgenda, A!AgendaPages, A!Listed
    <3> QED BY <1>6, <3>1 DEF A!OpenOnes
  <2>2. PICK v : v = [w EXCEPT !.pc = "open", !.met = A!InAgenda(batch)]
    OBVIOUS
  <2>3. /\ DOMAIN v = WorkSlots /\ v.pc = "open" /\ v.met = A!InAgenda(batch) /\ v.course = w.course
        /\ v.learner = w.learner /\ v.copy = w.copy /\ v.shown = w.shown /\ v.file = w.file
    BY <1>1, <2>2 DEF WorkOK, WorkSlots
  <2>4. WorkOK(v)
    BY <1>1, <2>1, <2>3 DEF WorkOK, NoneMet
  <2> HIDE DEF w
  <2> QED BY <1>1, <1>6, <2>2, <2>4, OnlyLooks
<1>7. ASSUME A!TakeOpen(h) PROVE StoreStepOK
  <2>1. PICK batch \in A!AgendaPages :
            \/ \E s \in A!OpenOnes(w.course, batch) : A!Become(h, [w EXCEPT !.pc = "file", !.session = s])
            \/ A!OpenOnes(w.course, batch) = {} /\ A!Become(h, [w EXCEPT !.pc = "open", !.met = A!InAgenda(batch)])
    BY <1>7 DEF A!TakeOpen
  <2>2. A!OpenOnes(w.course, batch) \subseteq DOMAIN sessions
    BY <1>2, <2>1 DEF A!OpenOnes, A!AgendaPages, A!Listed
  <2> HIDE DEF w
  <2> QED BY <1>3, <1>6, <2>1, <2>2
<1> QED BY <1>4, <1>5, <1>7 DEF A!AgendaFails

LEMMA FileTaken ==
    ASSUME A!AttributionConstants, AttributionInv, NEW h \in Handlers, A!TakeFile(h) \/ A!PipelineFails(h)
    PROVE  StoreStepOK
<1> DEFINE w == work[h]
<1>1. WorkOK(w) /\ w.pc = "file" /\ UNCHANGED A!store
  BY DEF AttributionInv, WorksInv, A!TakeFile, A!PipelineFails, A!Step
<1>2. DOMAIN pipeline = DOMAIN files
  BY DEF AttributionInv, StoreInv
<1>3. ASSUME A!Become(h, [w EXCEPT !.pc = "check"]), w.bare PROVE StoreStepOK
  <2>1. WorkOK([w EXCEPT !.pc = "check"])
    BY <1>1, <1>3 DEF WorkOK, WorkSlots
  <2> HIDE DEF w
  <2> QED BY <1>1, <1>3, <2>1, OnlyLooks
<1>4. ASSUME NEW f \in DOMAIN files, A!Become(h, [w EXCEPT !.pc = "check", !.file = f]) PROVE StoreStepOK
  <2>1. WorkOK([w EXCEPT !.pc = "check", !.file = f])
    BY <1>1 DEF WorkOK, WorkSlots
  <2> HIDE DEF w
  <2> QED BY <1>1, <1>4, <2>1, OnlyLooks
<1>5. ASSUME A!Become(h, [w EXCEPT !.pc = "openFile"]) PROVE StoreStepOK
  <2>1. WorkOK([w EXCEPT !.pc = "openFile"])
    BY <1>1 DEF WorkOK, WorkSlots, NoneShown
  <2> HIDE DEF w
  <2> QED BY <1>1, <1>5, <2>1, OnlyLooks
<1>6. ASSUME NEW batch \in A!PipelinePages, A!Theirs(w.learner, w.course, batch) = {},
             A!Become(h, [w EXCEPT !.pc = "openFile", !.shown = A!InPipeline(batch)])
      PROVE  StoreStepOK
  <2>1. ASSUME NEW seen \in A!InPipeline(batch)
        PROVE  /\ seen[1] \in DOMAIN files /\ seen[2] \in Nat /\ seen[2] <= A!Changes(seen[1])
               /\ files[seen[1]].learner # w.learner \/ files[seen[1]].course # w.course
    <3>1. PICK f \in batch : pipeline[f] = files[f] /\ seen = <<f, A!Changes(f)>>
      BY DEF A!InPipeline
    <3>2. f \in DOMAIN files
      BY <1>2 DEF A!PipelinePages, A!Listed
    <3>3. A!Changes(f) \in Nat
      BY <3>2, ChangesCounted DEF AttributionInv
    <3>4. files[f].learner # w.learner \/ files[f].course # w.course
      BY <1>6, <3>1 DEF A!Theirs
    <3> QED BY <3>1, <3>2, <3>3, <3>4
  <2>3. PICK v : v = [w EXCEPT !.pc = "openFile", !.shown = A!InPipeline(batch)]
    OBVIOUS
  <2>4. /\ DOMAIN v = WorkSlots /\ v.pc = "openFile" /\ v.shown = A!InPipeline(batch) /\ v.course = w.course
        /\ v.learner = w.learner /\ v.copy = w.copy /\ v.session = w.session
    BY <1>1, <2>3 DEF WorkOK, WorkSlots
  <2>5. WorkOK(v)
    BY <1>1, <2>1, <2>4 DEF WorkOK, NoneShown
  <2> HIDE DEF w
  <2> QED BY <1>1, <1>6, <2>3, <2>5, OnlyLooks
<1>7. ASSUME A!TakeFile(h), ~ w.bare PROVE StoreStepOK
  <2>1. PICK batch \in A!PipelinePages :
            \/ \E f \in A!Theirs(w.learner, w.course, batch) : A!Become(h, [w EXCEPT !.pc = "check", !.file = f])
            \/ /\ A!Theirs(w.learner, w.course, batch) = {}
               /\ A!Become(h, [w EXCEPT !.pc = "openFile", !.shown = A!InPipeline(batch)])
    BY <1>7 DEF A!TakeFile
  <2>2. A!Theirs(w.learner, w.course, batch) \subseteq DOMAIN files
    BY <1>2, <2>1 DEF A!Theirs, A!PipelinePages, A!Listed
  <2> HIDE DEF w
  <2> QED BY <1>4, <1>6, <2>1, <2>2
<1> QED BY <1>3, <1>5, <1>7 DEF A!TakeFile, A!PipelineFails

LEMMA OpenedByAttribution ==
    ASSUME AttributionInv, NEW h \in Handlers, A!CreateSession(h) \/ A!OpenTheirs(h)
    PROVE  StoreStepOK
<1>1. WorkOK(work[h])
  BY DEF AttributionInv, WorksInv
<1>2. CASE A!CreateSession(h)
  <2>1. StoreInv' /\ StoreGrows /\ Len(sessions) + 1 \in DOMAIN sessions'
    BY <1>1, <1>2, SessionOpened DEF A!CreateSession, A!Step, WorkOK, AttributionInv
  <2>2. PICK v : v = [work[h] EXCEPT !.pc = "file", !.session = Len(sessions) + 1]
    OBVIOUS
  <2>3. /\ DOMAIN v = WorkSlots /\ v.pc = "file" /\ v.session = Len(sessions) + 1 /\ v.copy = None /\ v.shown = {}
        /\ v.file = None /\ v.learner \in Learners /\ v.course \in Courses
    BY <1>1, <1>2, <2>2 DEF WorkOK, WorkSlots, A!CreateSession, A!Step
  <2>4. WorkOK(v)'
    BY <2>1, <2>3 DEF WorkOK
  <2> QED BY <1>2, <2>1, <2>2, <2>4 DEF A!CreateSession, StoreStepOK, WorkMoves
<1>3. CASE A!OpenTheirs(h)
  <2>1. PICK l \in Learners, c \in Courses : A!OpenFile(l, c)
    BY <1>1, <1>3 DEF A!OpenTheirs, A!Step, WorkOK
  <2>2. StoreInv' /\ StoreGrows /\ Len(files) + 1 \in DOMAIN files'
    BY <1>3, <2>1, FileOpened DEF A!OpenTheirs, AttributionInv
  <2>3. PICK pc \in {"fund", "check"} : A!Become(h, [work[h] EXCEPT !.pc = pc, !.file = Len(files) + 1])
    BY <1>3 DEF A!OpenTheirs
  <2>4. PICK v : v = [work[h] EXCEPT !.pc = pc, !.file = Len(files) + 1]
    OBVIOUS
  <2>5. /\ DOMAIN v = WorkSlots /\ v.pc = pc /\ v.session \in DOMAIN sessions /\ v.copy = None
        /\ v.file = Len(files) + 1
    BY <1>1, <1>3, <2>4 DEF WorkOK, WorkSlots, A!OpenTheirs, A!Step
  <2>6. WorkOK(v)'
    BY <2>2, <2>5 DEF WorkOK, StoreGrows
  <2> QED BY <2>2, <2>3, <2>4, <2>6 DEF StoreStepOK, WorkMoves
<1> QED BY <1>2, <1>3

LEMMA FundingSteps ==
    ASSUME AttributionInv, NEW h \in Handlers, A!ReadFunding(h) \/ A!PutFunding(h) \/ A!FundingFails(h)
    PROVE  StoreStepOK
<1>1. PICK w : w = work[h] /\ WorkOK(w) /\ w.pc \in {"fund", "put"}
  BY DEF AttributionInv, WorksInv, A!ReadFunding, A!PutFunding, A!FundingFails, A!Step
<1>2. PICK f \in DOMAIN files : f = w.file
  BY <1>1 DEF WorkOK
<1>3. WorkOK([w EXCEPT !.pc = "check", !.copy = None])
  BY <1>1 DEF WorkOK, WorkSlots
<1>4. CASE A!ReadFunding(h)
  <2>1. PICK copy \in A!OpenedFile : copy = files[f]
    BY DEF AttributionInv, StoreInv
  <2>2. WorkOK([w EXCEPT !.pc = "put", !.copy = copy])
    BY <1>1, <2>1 DEF WorkOK, WorkSlots
  <2> QED BY <1>1, <1>2, <1>4, <2>1, <2>2, OnlyLooks DEF A!ReadFunding
<1>5. CASE A!PutFunding(h)
  <2>1. PICK copy \in A!OpenedFile : copy = w.copy
    BY <1>1, <1>5 DEF WorkOK, A!PutFunding, A!Step
  <2>2. StoreInv' /\ StoreGrows
    BY <1>1, <1>2, <1>5, <2>1, FundingPut DEF A!PutFunding, AttributionInv
  <2> QED BY <1>1, <1>3, <1>5, <2>2 DEF A!PutFunding, StoreStepOK, WorkMoves
<1>6. CASE A!FundingFails(h)
  BY <1>1, <1>3, <1>6, OnlyLooks DEF A!FundingFails
<1> QED BY <1>4, <1>5, <1>6

LEMMA EnrolmentSteps ==
    ASSUME AttributionInv, NEW h \in Handlers, A!CheckEnrolled(h) \/ A!ReadForEnroll(h) \/ A!LinkFails(h)
    PROVE  StoreStepOK
<1>1. WorkOK(work[h]) /\ UNCHANGED A!store
  BY DEF AttributionInv, WorksInv, A!CheckEnrolled, A!ReadForEnroll, A!LinkFails
<1>2. PICK w : w = work[h] /\ w.pc \in {"check", "enroll"}
  BY DEF A!CheckEnrolled, A!ReadForEnroll, A!LinkFails, A!Step
<1>3. ASSUME A!Become(h, A!Rest) PROVE StoreStepOK
  BY <1>1, <1>3, RestOK, OnlyLooks
<1>4. ASSUME A!Become(h, [w EXCEPT !.pc = "enroll"]) PROVE StoreStepOK
  <2>1. WorkOK([w EXCEPT !.pc = "enroll"])
    BY <1>1, <1>2 DEF WorkOK, WorkSlots
  <2> QED BY <1>1, <1>4, <2>1, OnlyLooks
<1>5. ASSUME A!LinkFails(h) PROVE StoreStepOK
  <2>1. WorkOK([w EXCEPT !.pc = "write"])
    BY <1>1, <1>2 DEF WorkOK, WorkSlots
  <2> QED BY <1>1, <1>2, <1>5, <2>1, OnlyLooks DEF A!LinkFails
<1>6. ASSUME A!ReadForEnroll(h), ~ A!Become(h, A!Rest) PROVE StoreStepOK
  <2>1. PICK copy : /\ copy = IF w.file = None THEN None ELSE files[w.file]
                    /\ A!Become(h, [w EXCEPT !.pc = "write", !.copy = copy])
    BY <1>2, <1>6 DEF A!ReadForEnroll
  <2>2. copy # None => w.file # None /\ copy \in A!OpenedFile
    BY <1>1, <1>2, <2>1 DEF WorkOK, AttributionInv, StoreInv
  <2>3. WorkOK([w EXCEPT !.pc = "write", !.copy = copy])
    BY <1>1, <1>2, <2>2 DEF WorkOK, WorkSlots
  <2> QED BY <1>1, <2>1, <2>3, OnlyLooks
<1> QED BY <1>2, <1>3, <1>4, <1>5, <1>6 DEF A!CheckEnrolled

LEMMA EnrolmentStep ==
    ASSUME AttributionInv, NEW h \in Handlers, A!Enroll(h)
    PROVE  StoreStepOK
<1>1. PICK w : w = work[h] /\ WorkOK(w) /\ w.pc = "write"
  BY DEF AttributionInv, WorksInv, A!Enroll, A!Step
<1>2. /\ w.session \in DOMAIN sessions /\ w.file \in DOMAIN files \cup {None}
      /\ w.copy # None => w.file # None /\ w.copy \in A!OpenedFile
  BY <1>1 DEF WorkOK
<1>3. A!Become(h, A!Rest) /\ UNCHANGED <<sessions, agenda, pipeline, undone>>
  BY DEF A!Enroll
<1>4. CASE A!Enrolled(w.session, w.learner) \/ w.file = None
  <2>1. UNCHANGED <<files, journal>>
    BY <1>1, <1>2, <1>4 DEF A!Enroll
  <2> QED BY <1>3, <2>1, RestOK, StoreKept DEF AttributionInv, StoreStepOK, WorkMoves
<1>5. CASE ~ A!Enrolled(w.session, w.learner) /\ w.file # None
  <2>1. PICK f \in DOMAIN files : f = w.file
    BY <1>2, <1>5
  <2>2. PICK s \in DOMAIN sessions : s = w.session
    BY <1>2
  <2>3. s \in Nat /\ sessions[s].course \in Courses
    <3>1. sessions[s] \in A!PlannedSession /\ s \in Nat
      BY DEF AttributionInv, StoreInv
    <3> QED BY <3>1 DEF A!PlannedSession
  <2>4. PICK linked \in BOOLEAN : linked = (w.copy # None)
    OBVIOUS
  <2>5. PICK e \in JournalEntry : e = [session |-> s, linked |-> linked]
    BY <2>3 DEF JournalEntry
  <2>6. journal' = [journal EXCEPT ![f] = Append(@, e)]
    BY <1>1, <1>5, <2>1, <2>2, <2>4, <2>5 DEF A!Enroll
  <2>7. PICK r \in A!OpenedFile : files' = [files EXCEPT ![f] = r]
    <3>1. CASE w.copy = None
      <4>1. files' = files /\ files = [files EXCEPT ![f] = files[f]] /\ files[f] \in A!OpenedFile
        BY <1>1, <3>1 DEF A!Enroll, AttributionInv, StoreInv
      <4> QED BY <4>1
    <3>2. CASE w.copy # None
      <4>1. A!Linked(w.copy, s) \in A!OpenedFile
        BY <1>2, <2>3, <3>2 DEF A!Linked, A!OpenedFile
      <4>2. files' = [files EXCEPT ![f] = A!Linked(w.copy, s)]
        BY <1>1, <1>5, <2>1, <2>2, <3>2 DEF A!Enroll
      <4> QED BY <4>1, <4>2
    <3> QED BY <3>1, <3>2
  <2>8. StoreInv' /\ StoreGrows
    BY <1>3, <2>6, <2>7, EnrolmentRecorded DEF AttributionInv
  <2> QED BY <1>3, <2>8, RestOK DEF StoreStepOK, WorkMoves
<1> QED BY <1>4, <1>5

LEMMA IndexStep ==
    ASSUME AttributionInv, A!Index
    PROVE  StoreStepOK
<1>1. UNCHANGED <<sessions, files, journal, undone, work>>
  BY DEF A!Index
<1>2. agenda' \in Seq(A!PlannedSession \cup {None}) /\ Len(agenda') = Len(agenda)
  <2>1. ASSUME NEW s \in DOMAIN sessions, agenda' = [agenda EXCEPT ![s] = sessions[s]]
        PROVE  agenda' \in Seq(A!PlannedSession \cup {None}) /\ Len(agenda') = Len(agenda)
    <3>1. PICK r \in A!PlannedSession \cup {None} : r = sessions[s]
      BY DEF AttributionInv, StoreInv
    <3> QED BY <2>1, <3>1 DEF AttributionInv, StoreInv
  <2> QED BY <2>1 DEF A!Index, AttributionInv, StoreInv
<1>3. pipeline' \in Seq(A!OpenedFile \cup {None}) /\ Len(pipeline') = Len(pipeline)
  <2>1. ASSUME NEW f \in DOMAIN files, pipeline' = [pipeline EXCEPT ![f] = files[f]]
        PROVE  pipeline' \in Seq(A!OpenedFile \cup {None}) /\ Len(pipeline') = Len(pipeline)
    <3>1. PICK r \in A!OpenedFile \cup {None} : r = files[f]
      BY DEF AttributionInv, StoreInv
    <3> QED BY <2>1, <3>1 DEF AttributionInv, StoreInv
  <2> QED BY <2>1 DEF A!Index, AttributionInv, StoreInv
<1>4. \A f \in DOMAIN files : A!Changes(f) \in Nat /\ A!Changes(f)' = A!Changes(f)
  BY <1>1, ChangesCounted DEF AttributionInv, A!Changes
<1> QED BY <1>1, <1>2, <1>3, <1>4 DEF AttributionInv, StoreInv, StoreStepOK, StoreGrows, WorkMoves

LEMMA AttributionStep ==
    ASSUME A!AttributionConstants, AttributionInv, [A!Next]_A!attributionVars
    PROVE  AttributionInv'
<1>1. StoreStepOK
  <2>1. ASSUME NEW h \in Handlers, A!HandleAttribuerFormation(h) PROVE StoreStepOK
    BY <2>1, OneByOne, SessionTaken, FileTaken, OpenedByAttribution, FundingSteps,
       EnrolmentSteps DEF A!HandleAttribuerFormation
  <2>2. ASSUME NEW h \in Handlers, A!HandleEnroll(h) PROVE StoreStepOK
    BY <2>2, OneByOne, EnrolmentSteps, EnrolmentStep DEF A!HandleEnroll
  <2>3. CASE UNCHANGED A!attributionVars
    BY <2>3, StoreKept DEF A!attributionVars, A!store, AttributionInv, StoreStepOK, WorkMoves
  <2> QED BY <2>1, <2>2, <2>3, OneByOne, IndexStep DEF A!Next
<1>2. published' \subseteq Courses
  BY DEF AttributionInv, A!Next, A!HandleAttribuerFormation, A!Attribute, A!TakeWanted, A!TakeOpen,
     A!AgendaFails, A!CreateSession, A!TakeFile, A!PipelineFails, A!OpenTheirs, A!ReadFunding, A!PutFunding,
     A!FundingFails, A!CheckEnrolled,
     A!HandleEnroll, A!EnrollAlone, A!ReadForEnroll, A!LinkFails, A!Enroll, A!PlanSession, A!CreateFile,
     A!SetPublished, A!CloseSession, A!GiveUp, A!Index, A!attributionVars, A!store
<1> QED BY <1>1, <1>2, WorksKept DEF AttributionInv, StoreStepOK

LEMMA AttributionAlways == ASSUME A!AttributionConstants PROVE A!Spec => []AttributionInv
<1>1. AttributionInv /\ [A!Next]_A!attributionVars => AttributionInv'
  BY AttributionStep
<1> QED BY <1>1, AttributionInit, PTL DEF A!Spec

\* An attribution opens a second session, or a second file, only beside one that it could not
\* see, for its index, its page or its list, or that changed since (attribution.go:117-137,
\* 176-259).
THEOREM DuplicatesOnlyEverUnseen == ASSUME A!AttributionConstants PROVE A!Spec => DuplicatesOnlyUnseen
<1>1. ASSUME AttributionInv PROVE A!DuplicatedUnseen
  <2>1. ASSUME NEW h \in Handlers
        PROVE  /\ work[h].pc = "open" => NoneMet(work[h])
               /\ work[h].pc = "openFile" => NoneShown(work[h])
    BY <1>1 DEF AttributionInv, WorksInv, WorkOK
  <2> QED BY <2>1 DEF A!DuplicatedUnseen, NoneMet, NoneShown
<1>2. A!Spec => []AttributionInv
  BY AttributionAlways
<1>3. AttributionInv /\ [A!Next]_A!attributionVars => [A!DuplicatedUnseen]_A!attributionVars
  BY <1>1
<1> QED BY <1>2, <1>3, PTL DEF A!Spec, DuplicatesOnlyUnseen, A!DuplicatesOnlyUnseen
=============================================================================
