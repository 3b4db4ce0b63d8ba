---------------------------- MODULE CrmFileProofs ----------------------------
(***************************************************************************)
(* Proofs about CrmFile, for every set of files, stages, sessions, facts   *)
(* and handlers: how the stage of a file may leave its chain, what its     *)
(* count of pieces rests on, and that enrollments are journalled once.     *)
(***************************************************************************)
EXTENDS CrmFile, FiniteSetTheorems, TLAPS

-----------------------------------------------------------------------------
(* The inductive invariant *)

Arguments == Stages \cup Fundings \cup Sessions \cup {None} \cup SUBSET Pieces

Jobs == [pc : {"idle", "write", "done", "failed"}, kind : AllKinds, file : Files,
         copy : Item \cup {NoFile}, arg : Arguments]

TypeInv ==
    /\ files \in [Files -> Item \cup {NoFile}]
    /\ history \in [Files -> Seq(Entry)]
    /\ \A f \in Files : \A k \in DOMAIN history[f] :
           history[f][k].to # None => history[f][k].from # history[f][k].to
    /\ closed \subseteq Sessions /\ enrolled \subseteq Sessions \X Files
    /\ job \in [Handlers -> Jobs]

\* What an item says of its file is in the chain and in the enrollments.
Backed(c, f) ==
    /\ c.pieces \subseteq ComputeProof(history[f], TRUE)
    /\ c.session # None => <<c.session, f>> \in enrolled

\* What a handler at work read, and what it will write.
JobOK(j) ==
    j.pc # "idle" =>
        /\ j.kind # "enroll" => j.copy # NoFile
        /\ j.copy # NoFile => j.copy \in Item /\ Backed(j.copy, j.file)
        /\ j.kind = "move" => j.arg \in Stages /\ j.copy.stage # j.arg
        /\ j.kind = "fund" => j.arg \in Fundings
        /\ j.kind = "enroll" => j.arg \in Sessions
        /\ j.kind = "proof" /\ j.arg # None =>
              j.arg \in SUBSET Pieces /\ j.arg \subseteq ComputeProof(history[j.file], TRUE)

JobsInv == \A h \in Handlers : JobOK(job[h])

FilesInv == \A f \in Files : files[f] # NoFile => Backed(files[f], f)

\* The chain of f has the enrollment of s never, or once.
Ranks(f, s) == {k \in DOMAIN history[f] : history[f][k] = Enrolled(s)}

EnrolledInv ==
    \A f \in Files, s \in Sessions :
        IF <<s, f>> \in enrolled THEN \E k : Ranks(f, s) = {k} ELSE Ranks(f, s) = {}

-----------------------------------------------------------------------------
(* Entries *)

LEMMA EntryShapes ==
    /\ \A e \in Entry : e.from \in Stages \cup {None} /\ e.to \in Stages \cup {None}
    /\ Created \in Entry /\ Created.to = None
    /\ \A e \in Facts : e \in Entry /\ e.to = None
    /\ \A s \in Sessions : Enrolled(s) \in Entry /\ Enrolled(s).to = None
    /\ \A x, y \in Stages : /\ Moved(x, y) \in Entry /\ Moved(x, y).from = x /\ Moved(x, y).to = y
<1>1. \A e \in Facts : e \in Entry /\ e.to = None /\ e.from = None
  BY FileConstants DEF Fact, Entry
<1>2. Created \in Entry /\ Created.to = None /\ Created.from = None
  BY DEF Entry, Created, Fact
<1>3. \A s \in Sessions : Enrolled(s) \in Entry /\ Enrolled(s).to = None /\ Enrolled(s).from = None
  BY DEF Entry, Enrolled, Fact
<1>4. \A x, y \in Stages : /\ Moved(x, y) \in Entry /\ Moved(x, y).from = x /\ Moved(x, y).to = y
  <2>1. \A x, y \in Stages : Moved(x, y) \in Entry
    BY DEF Entry
  <2>2. \A x, y \in Stages : Moved(x, y).from = x /\ Moved(x, y).to = y
    BY DEF Moved, Fact
  <2> QED BY <2>1, <2>2
<1>5. \A e \in Entry : e.from \in Stages \cup {None} /\ e.to \in Stages \cup {None}
  BY <1>1, <1>2, <1>3, <1>4 DEF Entry
<1> QED BY <1>1, <1>2, <1>3, <1>4, <1>5

\* Which entries are the enrollment of s.
LEMMA EnrolledOnce ==
    ASSUME NEW s \in Sessions
    PROVE  /\ Created # Enrolled(s)
           /\ \A e \in Facts : e # Enrolled(s)
           /\ \A x, y \in Stages : Moved(x, y) # Enrolled(s)
           /\ \A t \in Sessions : t # s => Enrolled(t) # Enrolled(s)
<1>1. Enrolled(s).action = "file.stage_changed" /\ Created.action = "file.created"
  BY DEF Enrolled, Created, Fact
<1>2. \A e \in Facts : e.action # "file.stage_changed"
  BY FileConstants
<1>3. \A x, y \in Stages : Moved(x, y) # Enrolled(s)
  BY EntryShapes, FileConstants
<1>4. \A t \in Sessions : Enrolled(t).ref = t
  BY DEF Enrolled, Fact
<1> QED BY <1>1, <1>2, <1>3, <1>4

LEMMA AppendRanks ==
    ASSUME NEW q \in Seq(Entry), NEW e \in Entry
    PROVE  /\ DOMAIN Append(q, e) = DOMAIN q \cup {Len(q) + 1}
           /\ Append(q, e)[Len(q) + 1] = e
           /\ \A k \in DOMAIN q : Append(q, e)[k] = q[k] /\ k < Len(q) + 1
           /\ Len(q) \in Nat /\ DOMAIN q = 1 .. Len(q) /\ Len(Append(q, e)) = Len(q) + 1
           /\ Append(q, e) \in Seq(Entry)
OBVIOUS

-----------------------------------------------------------------------------
(* Pieces *)

LEMMA ProofIsPieces ==
    ASSUME NEW chain, NEW identity \in BOOLEAN
    PROVE  ComputeProof(chain, identity) \subseteq Pieces
BY DEF ComputeProof, Pieces, PieceOf, SignedKinds, SignedPieces, QuizPieces

\* A chain that grows proves no less.
LEMMA ProofGrows ==
    ASSUME NEW chain \in Seq(Entry), NEW e \in Entry
    PROVE  ComputeProof(chain, TRUE) \subseteq ComputeProof(Append(chain, e), TRUE)
<1> DEFINE longer == Append(chain, e)
<1>1. /\ DOMAIN chain \subseteq DOMAIN longer /\ \A k \in DOMAIN chain : longer[k] = chain[k]
      /\ DOMAIN chain = 1 .. Len(chain) /\ Len(chain) \in Nat
  BY AppendRanks
<1> HIDE DEF longer
<1>2. {PieceOf[chain[k].action] : k \in {j \in DOMAIN chain : chain[j].action \in DOMAIN PieceOf}}
        \subseteq {PieceOf[longer[k].action] :
                        k \in {j \in DOMAIN longer : longer[j].action \in DOMAIN PieceOf}}
  BY <1>1
<1>3. {kind \in QuizPieces : \E k \in DOMAIN chain :
                                chain[k].action = "quiz.submitted" /\ chain[k].kind = kind}
        \subseteq {kind \in QuizPieces : \E k \in DOMAIN longer :
                                longer[k].action = "quiz.submitted" /\ longer[k].kind = kind}
  BY <1>1
<1>4. SignedKinds(chain) \subseteq SignedKinds(longer)
  <2>1. \A k \in DOMAIN chain : SentBefore(longer, k) = SentBefore(chain, k)
    BY <1>1 DEF SentBefore, Names
  <2>2. \A k \in DOMAIN chain : \A j \in SentBefore(chain, k) : j \in DOMAIN chain
    BY <1>1 DEF SentBefore
  <2> QED BY <1>1, <2>1, <2>2 DEF SignedKinds
<1> QED BY <1>2, <1>3, <1>4 DEF ComputeProof, longer

LEMMA IdentityAdds ==
    ASSUME NEW chain, NEW identity \in BOOLEAN
    PROVE  ComputeProof(chain, identity) \subseteq ComputeProof(chain, TRUE)
BY DEF ComputeProof

-----------------------------------------------------------------------------
(* How chains and enrollments grow *)

\* What a step may append to the chain of f.
Appends(f, e) == history' = [history EXCEPT ![f] = Append(@, e)]

LEMMA HistoryMoves ==
    ASSUME TypeInv, JobsInv, [Next]_vars
    PROVE  \/ history' = history /\ enrolled' = enrolled
           \/ \E f \in Files : \/ CreateFile(f) /\ Appends(f, Created) /\ enrolled' = enrolled
                               \/ \E e \in Facts : Appends(f, e) /\ enrolled' = enrolled
           \/ \E h \in Handlers :
                 \/ /\ WriteMove(h) /\ enrolled' = enrolled
                    /\ Appends(job[h].file, Moved(job[h].copy.stage, job[h].arg))
                 \/ /\ WriteEnroll(h) /\ enrolled' = enrolled \cup {<<job[h].arg, job[h].file>>}
                    /\ <<job[h].arg, job[h].file>> \notin enrolled
                    /\ Appends(job[h].file, Enrolled(job[h].arg))
<1>1. ASSUME NEW f \in Files, CreateFile(f)
      PROVE  Appends(f, Created) /\ enrolled' = enrolled
  <2>1. Append(history[f], Created) = <<Created>>
    BY <1>1 DEF CreateFile
  <2> QED BY <1>1, <2>1 DEF CreateFile, Appends
<1>2. ASSUME NEW f \in Files, NEW e \in Facts, RecordFact(f, e)
      PROVE  Appends(f, e) /\ enrolled' = enrolled
  BY <1>2 DEF RecordFact, Appends
<1>3. ASSUME NEW h \in Handlers, WriteMove(h)
      PROVE  Appends(job[h].file, Moved(job[h].copy.stage, job[h].arg)) /\ enrolled' = enrolled
  BY <1>3 DEF WriteMove, Appends
<1>4. ASSUME NEW h \in Handlers, WriteEnroll(h)
      PROVE  /\ enrolled' = enrolled \cup {<<job[h].arg, job[h].file>>}
             /\ <<job[h].arg, job[h].file>> \notin enrolled
             /\ Appends(job[h].file, Enrolled(job[h].arg))
  BY <1>4 DEF WriteEnroll, Appends
<1>5. \/ history' = history /\ enrolled' = enrolled
      \/ \E f \in Files : CreateFile(f) \/ \E e \in Facts : RecordFact(f, e)
      \/ \E h \in Handlers : WriteMove(h) \/ WriteEnroll(h)
  BY DEF Next, Handle, ReadMove, ReadFund, ReadForProof, ReadEnroll, Take, ReadTimeline, WriteFund,
         WriteProof, GiveUp, CloseSession, vars
<1> QED BY <1>1, <1>2, <1>3, <1>4, <1>5

LEMMA ChainsGrow ==
    ASSUME TypeInv, JobsInv, [Next]_vars
    PROVE  /\ history' \in [Files -> Seq(Entry)] /\ enrolled \subseteq enrolled'
           /\ \A f \in Files :
                 history'[f] = history[f] \/ \E e \in Entry : history'[f] = Append(history[f], e)
<1>1. ASSUME NEW f \in Files, NEW e \in Entry, Appends(f, e)
      PROVE  /\ history' \in [Files -> Seq(Entry)]
             /\ \A g \in Files :
                   history'[g] = history[g] \/ \E x \in Entry : history'[g] = Append(history[g], x)
  <2>1. history \in [Files -> Seq(Entry)] /\ Append(history[f], e) \in Seq(Entry)
    BY AppendRanks DEF TypeInv
  <2> QED BY <1>1, <2>1 DEF Appends
<1>2. ASSUME NEW h \in Handlers, WriteMove(h)
      PROVE  job[h].file \in Files /\ Moved(job[h].copy.stage, job[h].arg) \in Entry
  BY <1>2, EntryShapes DEF WriteMove, TypeInv, Jobs, JobsInv, JobOK, Item
<1>3. ASSUME NEW h \in Handlers, WriteEnroll(h)
      PROVE  job[h].file \in Files /\ Enrolled(job[h].arg) \in Entry
  BY <1>3, EntryShapes DEF WriteEnroll, TypeInv, Jobs, JobsInv, JobOK
<1>4. enrolled \subseteq enrolled'
  BY HistoryMoves
<1>5. \/ history' = history
      \/ \E f \in Files, e \in Entry : Appends(f, e)
  BY <1>2, <1>3, HistoryMoves, EntryShapes
<1> QED BY <1>1, <1>4, <1>5 DEF TypeInv

\* What an item says stays backed.
LEMMA BackedStays ==
    ASSUME TypeInv, JobsInv, [Next]_vars, NEW c, NEW f \in Files, Backed(c, f)
    PROVE  Backed(c, f)'
<1>1. ComputeProof(history[f], TRUE) \subseteq ComputeProof(history'[f], TRUE)
  BY ChainsGrow, ProofGrows DEF TypeInv
<1> QED BY <1>1, ChainsGrow DEF Backed

LEMMA JobStays ==
    ASSUME TypeInv, JobsInv, [Next]_vars, NEW j, j.file \in Files, JobOK(j)
    PROVE  JobOK(j)'
<1>1. ComputeProof(history[j.file], TRUE) \subseteq ComputeProof(history'[j.file], TRUE)
  BY ChainsGrow, ProofGrows DEF TypeInv
<1>2. PICK c : c = j.copy
  OBVIOUS
<1>3. Backed(c, j.file) => Backed(c, j.file)'
  BY BackedStays
<1> QED BY <1>1, <1>2, <1>3 DEF JobOK

-----------------------------------------------------------------------------
(* The invariant is kept *)

LEMMA JobMoves ==
    ASSUME TypeInv, JobsInv, [Next]_vars, NEW h \in Handlers, NEW j \in Jobs, JobOK(j)',
           job' = [job EXCEPT ![h] = j]
    PROVE  job' \in [Handlers -> Jobs] /\ JobsInv'
<1>1. job' \in [Handlers -> Jobs] /\ \A g \in Handlers : job'[g] = IF g = h THEN j ELSE job[g]
  BY DEF TypeInv
<1>2. ASSUME NEW g \in Handlers
      PROVE  JobOK(job[g])'
  <2>1. CASE g = h
    <3>1. job'[g] = j
      BY <1>1, <2>1
    <3> QED BY <3>1 DEF JobOK
  <2>2. CASE g # h
    <3>1. PICK k \in Jobs : k = job[g] /\ JobOK(k)
      BY DEF TypeInv, JobsInv
    <3>2. job'[g] = k /\ JobOK(k)'
      BY <1>1, <2>2, <3>1, JobStays DEF Jobs
    <3> QED BY <3>2 DEF JobOK
  <2> QED BY <2>1, <2>2
<1> QED BY <1>1, <1>2 DEF JobsInv

\* A handler that ends keeps its copy.
LEMMA JobEnds ==
    ASSUME TypeInv, JobsInv, [Next]_vars, NEW h \in Handlers, NEW pc \in {"done", "failed"},
           job[h].pc # "idle", job' = [job EXCEPT ![h].pc = pc]
    PROVE  job' \in [Handlers -> Jobs] /\ JobsInv'
<1>1. PICK k \in Jobs : k = job[h] /\ JobOK(k)
  BY DEF TypeInv, JobsInv
<1>2. PICK j : j = [k EXCEPT !.pc = pc]
  OBVIOUS
<1>3. j \in Jobs /\ j.file = k.file /\ j.kind = k.kind /\ j.copy = k.copy /\ j.arg = k.arg
  BY <1>2 DEF Jobs
<1>4. JobOK(k)'
  BY <1>1, JobStays DEF Jobs
<1>5. JobOK(j)'
  BY <1>1, <1>3, <1>4 DEF JobOK
<1>6. job' = [job EXCEPT ![h] = j]
  BY <1>1, <1>2 DEF TypeInv
<1> QED BY <1>3, <1>5, <1>6, JobMoves

\* A handler that starts has a copy that is backed.
LEMMA JobTakes ==
    ASSUME TypeInv, JobsInv, FilesInv, [Next]_vars, NEW h \in Handlers, NEW kind \in AllKinds,
           NEW f \in Files, NEW arg \in Arguments, Take(h, kind, f, arg),
           kind # "enroll" => files[f] # NoFile,
           kind = "move" => arg \in Stages /\ files[f].stage # arg,
           kind = "fund" => arg \in Fundings,
           kind = "enroll" => arg \in Sessions,
           kind = "proof" => arg = None
    PROVE  job' \in [Handlers -> Jobs] /\ JobsInv'
<1>1. PICK j : j = [pc |-> "write", kind |-> kind, file |-> f, copy |-> files[f], arg |-> arg]
  OBVIOUS
<1>2. j \in Jobs /\ JobOK(j)
  BY <1>1 DEF Jobs, TypeInv, JobOK, FilesInv
<1>3. JobOK(j)' /\ job' = [job EXCEPT ![h] = j]
  BY <1>1, <1>2, JobStays DEF Jobs, Take
<1> QED BY <1>2, <1>3, JobMoves

LEMMA JobsStep ==
    ASSUME TypeInv, JobsInv, FilesInv, [Next]_vars
    PROVE  job' \in [Handlers -> Jobs] /\ JobsInv'
<1>1. ASSUME NEW h \in Handlers, NEW f \in Files, NEW to \in Stages, ReadMove(h, f, to)
      PROVE  job' \in [Handlers -> Jobs] /\ JobsInv'
  BY <1>1, JobTakes DEF ReadMove, AllKinds, Arguments
<1>2. ASSUME NEW h \in Handlers, NEW f \in Files, NEW source \in Fundings, ReadFund(h, f, source)
      PROVE  job' \in [Handlers -> Jobs] /\ JobsInv'
  BY <1>2, JobTakes DEF ReadFund, AllKinds, Arguments
<1>3. ASSUME NEW h \in Handlers, NEW f \in Files, ReadForProof(h, f)
      PROVE  job' \in [Handlers -> Jobs] /\ JobsInv'
  BY <1>3, JobTakes DEF ReadForProof, AllKinds, Arguments
<1>4. ASSUME NEW h \in Handlers, NEW f \in Files, NEW s \in Sessions, ReadEnroll(h, f, s)
      PROVE  job' \in [Handlers -> Jobs] /\ JobsInv'
  BY <1>4, JobTakes DEF ReadEnroll, AllKinds, Arguments
<1>5. ASSUME NEW h \in Handlers, WriteMove(h) \/ WriteFund(h) \/ WriteProof(h) \/ WriteEnroll(h) \/ GiveUp(h)
      PROVE  job' \in [Handlers -> Jobs] /\ JobsInv'
  BY <1>5, JobEnds DEF WriteMove, WriteFund, WriteProof, WriteEnroll, GiveUp, End
<1>6. ASSUME NEW h \in Handlers, NEW identity \in BOOLEAN, ReadTimeline(h, identity)
      PROVE  job' \in [Handlers -> Jobs] /\ JobsInv'
  <2>1. PICK k \in Jobs : k = job[h] /\ JobOK(k) /\ k.pc = "write" /\ k.kind = "proof"
    BY <1>6 DEF ReadTimeline, TypeInv, JobsInv
  <2>2. PICK pieces : pieces = ComputeProof(history[k.file], identity)
    OBVIOUS
  <2>3. job' = [job EXCEPT ![h].pc = "done"] \/ job' = [job EXCEPT ![h].arg = pieces]
    BY <1>6, <2>1, <2>2 DEF ReadTimeline
  <2>4. CASE job' = [job EXCEPT ![h].pc = "done"]
    BY <2>1, <2>4, JobEnds
  <2>5. CASE job' = [job EXCEPT ![h].arg = pieces]
    <3>1. pieces \in SUBSET Pieces /\ pieces \subseteq ComputeProof(history[k.file], TRUE)
      BY <2>2, ProofIsPieces, IdentityAdds
    <3>2. PICK j : j = [k EXCEPT !.arg = pieces]
      OBVIOUS
    <3>3. /\ j \in Jobs /\ j.pc = k.pc /\ j.kind = k.kind /\ j.file = k.file /\ j.copy = k.copy
          /\ j.arg = pieces
      BY <3>1, <3>2 DEF Jobs, Arguments
    <3>4. JobOK(j)
      BY <2>1, <3>1, <3>3 DEF JobOK
    <3>5. JobOK(j)'
      BY <3>3, <3>4, JobStays DEF Jobs
    <3>6. job' = [job EXCEPT ![h] = j]
      BY <2>1, <2>5, <3>2 DEF TypeInv
    <3> QED BY <3>3, <3>5, <3>6, JobMoves
  <2> QED BY <2>3, <2>4, <2>5
<1>7. CASE UNCHANGED job
  <2>1. ASSUME NEW g \in Handlers PROVE JobOK(job[g])'
    <3>1. PICK k \in Jobs : k = job[g] /\ JobOK(k)
      BY DEF TypeInv, JobsInv
    <3>2. job'[g] = k /\ JobOK(k)'
      BY <1>7, <3>1, JobStays DEF Jobs
    <3> QED BY <3>2 DEF JobOK
  <2> QED BY <1>7, <2>1 DEF JobsInv, TypeInv
<1>8. \/ UNCHANGED job \/ \E h \in Handlers : Handle(h)
  BY DEF Next, CreateFile, RecordFact, CloseSession, vars
<1> QED BY <1>1, <1>2, <1>3, <1>4, <1>5, <1>6, <1>7, <1>8 DEF Handle

LEMMA FileWrites ==
    ASSUME TypeInv, JobsInv, FilesInv, [Next]_vars, NEW f \in Files, NEW c \in Item, Backed(c, f)',
           files' = files \/ files' = [files EXCEPT ![f] = c]
    PROVE  files' \in [Files -> Item \cup {NoFile}] /\ FilesInv'
<1>1. /\ files' \in [Files -> Item \cup {NoFile}]
      /\ \A g \in Files : files'[g] = files[g] \/ (g = f /\ files'[g] = c)
  BY DEF TypeInv
<1>2. ASSUME NEW g \in Files, files'[g] # NoFile
      PROVE  Backed(files[g], g)'
  <2>1. PICK d : d = files'[g]
    OBVIOUS
  <2>2. CASE d = files[g]
    <3>1. Backed(d, g)
      BY <1>2, <2>1, <2>2 DEF FilesInv
    <3>2. Backed(d, g)'
      BY <3>1, BackedStays
    <3> QED BY <2>1, <3>2 DEF Backed
  <2>3. CASE g = f /\ d = c
    BY <2>1, <2>3 DEF Backed
  <2> QED BY <1>1, <2>1, <2>2, <2>3
<1> QED BY <1>1, <1>2 DEF FilesInv

LEMMA FilesStep ==
    ASSUME TypeInv, JobsInv, FilesInv, [Next]_vars
    PROVE  files' \in [Files -> Item \cup {NoFile}] /\ FilesInv'
<1>0. PICK blank : blank = NewFile
  OBVIOUS
<1>1. blank \in Item /\ blank.pieces = {} /\ blank.session = None
  BY <1>0, FileConstants DEF NewFile, Item
<1>2. \A f \in Files : Backed(blank, f)'
  BY <1>1 DEF Backed
<1>3. ASSUME NEW f \in Files, CreateFile(f)
      PROVE  files' \in [Files -> Item \cup {NoFile}] /\ FilesInv'
  BY <1>0, <1>1, <1>2, <1>3, FileWrites DEF CreateFile
<1>4. ASSUME NEW h \in Handlers, job[h].pc = "write", job[h].copy # NoFile
      PROVE  \E k \in Jobs : /\ k = job[h] /\ JobOK(k) /\ k.file \in Files
                             /\ k.copy \in Item /\ Backed(k.copy, k.file)'
  <2>1. PICK k \in Jobs : k = job[h] /\ JobOK(k)
    BY DEF TypeInv, JobsInv
  <2>2. k.copy \in Item /\ Backed(k.copy, k.file) /\ k.file \in Files
    BY <1>4, <2>1 DEF JobOK, Jobs
  <2>3. Backed(k.copy, k.file)'
    BY <2>2, BackedStays
  <2> QED BY <2>1, <2>2, <2>3
<1>5. ASSUME NEW h \in Handlers, WriteMove(h)
      PROVE  files' \in [Files -> Item \cup {NoFile}] /\ FilesInv'
  <2>1. PICK k \in Jobs : /\ k = job[h] /\ JobOK(k) /\ k.file \in Files
                          /\ k.copy \in Item /\ Backed(k.copy, k.file)'
    BY <1>4, <1>5 DEF WriteMove, TypeInv, JobsInv, JobOK
  <2>2. PICK d : d = [k.copy EXCEPT !.stage = k.arg, !.dated = @ \/ k.arg = "closed"]
    OBVIOUS
  <2>3. d \in Item /\ d.pieces = k.copy.pieces /\ d.session = k.copy.session
    <3>1. k.arg \in Stages
      BY <1>5, <2>1 DEF WriteMove, JobOK
    <3>2. (k.copy.dated \/ k.arg = "closed") \in BOOLEAN
      OBVIOUS
    <3> QED BY <2>1, <2>2, <3>1, <3>2 DEF Item
  <2>4. Backed(d, k.file)'
    BY <2>1, <2>3 DEF Backed
  <2>5. files' = [files EXCEPT ![k.file] = d]
    BY <1>5, <2>1, <2>2 DEF WriteMove, MovedCopy
  <2> QED BY <2>1, <2>3, <2>4, <2>5, FileWrites
<1>6. ASSUME NEW h \in Handlers, WriteFund(h)
      PROVE  files' \in [Files -> Item \cup {NoFile}] /\ FilesInv'
  <2>1. PICK k \in Jobs : /\ k = job[h] /\ JobOK(k) /\ k.file \in Files
                          /\ k.copy \in Item /\ Backed(k.copy, k.file)'
    BY <1>4, <1>6 DEF WriteFund, TypeInv, JobsInv, JobOK
  <2>2. PICK d : d = [k.copy EXCEPT !.funding = k.arg]
    OBVIOUS
  <2>3. d \in Item /\ d.pieces = k.copy.pieces /\ d.session = k.copy.session
    BY <1>6, <2>1, <2>2 DEF WriteFund, JobOK, Item
  <2>4. Backed(d, k.file)'
    BY <2>1, <2>3 DEF Backed
  <2>5. files' = [files EXCEPT ![k.file] = d]
    BY <1>6, <2>1, <2>2 DEF WriteFund
  <2> QED BY <2>1, <2>3, <2>4, <2>5, FileWrites
<1>7. ASSUME NEW h \in Handlers, WriteProof(h)
      PROVE  files' \in [Files -> Item \cup {NoFile}] /\ FilesInv'
  <2>1. PICK k \in Jobs : /\ k = job[h] /\ JobOK(k) /\ k.file \in Files
                          /\ k.copy \in Item /\ Backed(k.copy, k.file)'
    BY <1>4, <1>7 DEF WriteProof, TypeInv, JobsInv, JobOK
  <2>2. PICK d : d = [k.copy EXCEPT !.pieces = k.arg]
    OBVIOUS
  <2>3. k.arg \in SUBSET Pieces /\ k.arg \subseteq ComputeProof(history[k.file], TRUE)
    BY <1>7, <2>1 DEF WriteProof, JobOK
  <2>4. d \in Item /\ d.pieces = k.arg /\ d.session = k.copy.session
    BY <2>1, <2>2, <2>3 DEF Item
  <2>5. Backed(d, k.file)'
    BY <1>7, <2>1, <2>3, <2>4 DEF Backed, WriteProof
  <2>6. files' = [files EXCEPT ![k.file] = d]
    BY <1>7, <2>1, <2>2 DEF WriteProof
  <2> QED BY <2>1, <2>4, <2>5, <2>6, FileWrites
<1>8. ASSUME NEW h \in Handlers, WriteEnroll(h), job[h].copy # NoFile
      PROVE  files' \in [Files -> Item \cup {NoFile}] /\ FilesInv'
  <2>1. PICK k \in Jobs : /\ k = job[h] /\ JobOK(k) /\ k.file \in Files
                          /\ k.copy \in Item /\ Backed(k.copy, k.file)'
    BY <1>4, <1>8 DEF WriteEnroll
  <2>2. PICK d : d = [k.copy EXCEPT !.session = k.arg]
    OBVIOUS
  <2>3. d \in Item /\ d.pieces = k.copy.pieces /\ d.session = k.arg
    BY <1>8, <2>1, <2>2 DEF WriteEnroll, JobOK, Item
  <2>4. <<k.arg, k.file>> \in enrolled'
    BY <1>8, <2>1 DEF WriteEnroll
  <2>5. Backed(d, k.file)'
    BY <2>1, <2>3, <2>4 DEF Backed
  <2>6. files' = [files EXCEPT ![k.file] = d]
    BY <1>8, <2>1, <2>2 DEF WriteEnroll
  <2> QED BY <2>1, <2>3, <2>5, <2>6, FileWrites
<1>9. CASE UNCHANGED files
  <2>1. Files # {}
    BY FileConstants
  <2> QED BY <1>1, <1>2, <1>9, <2>1, FileWrites
<1>10. \/ UNCHANGED files \/ \E f \in Files : CreateFile(f)
       \/ \E h \in Handlers : \/ WriteMove(h) \/ WriteFund(h) \/ WriteProof(h)
                              \/ WriteEnroll(h) /\ job[h].copy # NoFile
  BY DEF Next, Handle, RecordFact, CloseSession, ReadMove, ReadFund, ReadForProof, ReadEnroll, Take,
         ReadTimeline, WriteEnroll, GiveUp, vars
<1> QED BY <1>3, <1>5, <1>6, <1>7, <1>8, <1>9, <1>10

\* The rest of the types.
LEMMA TypeStep ==
    ASSUME TypeInv, JobsInv, FilesInv, [Next]_vars
    PROVE  TypeInv'
<1>1. ASSUME NEW f \in Files, NEW k \in DOMAIN history'[f], history'[f][k].to # None
      PROVE  history'[f][k].from # history'[f][k].to
  <2>1. CASE k \in DOMAIN history[f] /\ history'[f][k] = history[f][k]
    BY <1>1, <2>1 DEF TypeInv
  <2>2. ASSUME NEW e \in Entry, NEW g \in Files, Appends(g, e), e.to # None => e.from # e.to
        PROVE  history'[f][k].from # history'[f][k].to
    BY <1>1, <2>2, AppendRanks DEF Appends, TypeInv
  <2>3. ASSUME NEW h \in Handlers, WriteMove(h), Appends(job[h].file, Moved(job[h].copy.stage, job[h].arg))
        PROVE  history'[f][k].from # history'[f][k].to
    <3>1. /\ job[h].file \in Files /\ job[h].copy.stage \in Stages /\ job[h].arg \in Stages
          /\ job[h].copy.stage # job[h].arg
      BY <2>3 DEF WriteMove, TypeInv, Jobs, JobsInv, JobOK, Item
    <3> QED BY <2>2, <2>3, <3>1, EntryShapes
  <2>4. ASSUME NEW h \in Handlers, WriteEnroll(h), Appends(job[h].file, Enrolled(job[h].arg))
        PROVE  history'[f][k].from # history'[f][k].to
    <3>1. job[h].file \in Files /\ job[h].arg \in Sessions
      BY <2>4 DEF WriteEnroll, TypeInv, Jobs, JobsInv, JobOK
    <3> QED BY <2>2, <2>4, <3>1, EntryShapes
  <2> QED BY <1>1, <2>1, <2>2, <2>3, <2>4, HistoryMoves, EntryShapes
<1>2. closed' \subseteq Sessions
  <2>1. closed' = closed \/ \E s \in Sessions : closed' = closed \cup {s}
    BY DEF Next, Handle, CreateFile, RecordFact, CloseSession, ReadMove, ReadFund, ReadForProof,
           ReadEnroll, Take, ReadTimeline, WriteMove, WriteFund, WriteProof, WriteEnroll, GiveUp, vars
  <2> QED BY <2>1 DEF TypeInv
<1>3. enrolled' \subseteq Sessions \X Files
  <2>1. ASSUME NEW h \in Handlers, WriteEnroll(h)
        PROVE  job[h].arg \in Sessions /\ job[h].file \in Files
    BY <2>1 DEF WriteEnroll, TypeInv, Jobs, JobsInv, JobOK
  <2>2. \/ enrolled' = enrolled
        \/ \E h \in Handlers : WriteEnroll(h) /\ enrolled' = enrolled \cup {<<job[h].arg, job[h].file>>}
    BY HistoryMoves
  <2> QED BY <2>1, <2>2 DEF TypeInv
<1> QED BY <1>1, <1>2, <1>3, ChainsGrow, FilesStep, JobsStep DEF TypeInv

\* The enrollment of s is appended when it is made, and by nothing else.
LEMMA EnrolledStep ==
    ASSUME TypeInv, JobsInv, EnrolledInv, [Next]_vars
    PROVE  EnrolledInv'
<1> SUFFICES ASSUME NEW f \in Files, NEW s \in Sessions
             PROVE  IF <<s, f>> \in enrolled' THEN \E k : Ranks(f, s)' = {k} ELSE Ranks(f, s)' = {}
  BY DEF EnrolledInv
<1>0. IF <<s, f>> \in enrolled THEN \E k : Ranks(f, s) = {k} ELSE Ranks(f, s) = {}
  BY DEF EnrolledInv
<1>1. CASE history' = history /\ enrolled' = enrolled
  BY <1>0, <1>1 DEF Ranks
<1>2. ASSUME NEW g \in Files, NEW e \in Entry, Appends(g, e), e # Enrolled(s)
      PROVE  Ranks(f, s)' = Ranks(f, s)
  BY <1>2, AppendRanks DEF Appends, TypeInv, Ranks
<1>3. ASSUME Appends(f, Enrolled(s)), <<s, f>> \notin enrolled
      PROVE  \E k : Ranks(f, s)' = {k}
  <2>1. Ranks(f, s)' = Ranks(f, s) \cup {Len(history[f]) + 1}
    BY <1>3, EntryShapes, AppendRanks DEF Appends, TypeInv, Ranks
  <2> QED BY <1>0, <1>3, <2>1
<1>4. ASSUME NEW g \in Files, NEW e \in Facts \cup {Created}, Appends(g, e), enrolled' = enrolled
      PROVE  IF <<s, f>> \in enrolled' THEN \E k : Ranks(f, s)' = {k} ELSE Ranks(f, s)' = {}
  <2>1. e \in Entry /\ e # Enrolled(s)
    BY EntryShapes, EnrolledOnce
  <2> QED BY <1>0, <1>2, <1>4, <2>1
<1>5. ASSUME NEW h \in Handlers, WriteMove(h), enrolled' = enrolled,
             Appends(job[h].file, Moved(job[h].copy.stage, job[h].arg))
      PROVE  IF <<s, f>> \in enrolled' THEN \E k : Ranks(f, s)' = {k} ELSE Ranks(f, s)' = {}
  <2>1. job[h].file \in Files /\ job[h].copy.stage \in Stages /\ job[h].arg \in Stages
    BY <1>5 DEF WriteMove, TypeInv, Jobs, JobsInv, JobOK, Item
  <2>2. PICK e \in Entry : e = Moved(job[h].copy.stage, job[h].arg) /\ e # Enrolled(s)
    BY <2>1, EntryShapes, EnrolledOnce
  <2>3. Ranks(f, s)' = Ranks(f, s)
    BY <1>2, <1>5, <2>1, <2>2
  <2> QED BY <1>0, <1>5, <2>3
<1>6. ASSUME NEW h \in Handlers, WriteEnroll(h), Appends(job[h].file, Enrolled(job[h].arg)),
             enrolled' = enrolled \cup {<<job[h].arg, job[h].file>>},
             <<job[h].arg, job[h].file>> \notin enrolled
      PROVE  IF <<s, f>> \in enrolled' THEN \E k : Ranks(f, s)' = {k} ELSE Ranks(f, s)' = {}
  <2>1. job[h].file \in Files /\ job[h].arg \in Sessions
    BY <1>6 DEF WriteEnroll, TypeInv, Jobs, JobsInv, JobOK
  <2>2. CASE job[h].arg # s
    BY <1>0, <1>2, <1>6, <2>1, <2>2, EntryShapes, EnrolledOnce
  <2>3. CASE job[h].arg = s /\ job[h].file # f
    <3>1. Ranks(f, s)' = Ranks(f, s)
      BY <1>6, <2>1, <2>3 DEF Appends, TypeInv, Ranks
    <3> QED BY <1>0, <1>6, <2>3, <3>1
  <2>4. CASE job[h].arg = s /\ job[h].file = f
    BY <1>3, <1>6, <2>4
  <2> QED BY <2>2, <2>3, <2>4
<1> QED BY <1>1, <1>4, <1>5, <1>6, HistoryMoves

Inv == TypeInv /\ JobsInv /\ FilesInv /\ EnrolledInv

LEMMA InvInit == Init => Inv
<1> SUFFICES ASSUME Init PROVE Inv
  OBVIOUS
<1>1. /\ \A f \in Files : files[f] = NoFile /\ history[f] = <<>>
      /\ files \in [Files -> Item \cup {NoFile}] /\ history \in [Files -> Seq(Entry)]
      /\ closed = {} /\ enrolled = {} /\ job = [h \in Handlers |-> Idle]
  BY DEF Init
<1>2. Idle \in Jobs /\ Idle.pc = "idle"
  <2>1. (CHOOSE f \in Files : TRUE) \in Files
    BY FileConstants
  <2> QED BY <2>1 DEF Idle, Jobs, AllKinds, Arguments
<1>3. TypeInv
  BY <1>1, <1>2 DEF TypeInv
<1>4. JobsInv
  BY <1>1, <1>2 DEF JobsInv, JobOK
<1>5. FilesInv
  BY <1>1 DEF FilesInv
<1>6. EnrolledInv
  BY <1>1 DEF EnrolledInv, Ranks
<1> QED BY <1>3, <1>4, <1>5, <1>6 DEF Inv

LEMMA InvStep == ASSUME Inv, [Next]_vars PROVE Inv'
BY TypeStep, JobsStep, FilesStep, EnrolledStep DEF Inv

LEMMA InvAlways == Spec => []Inv
<1>1. Inv /\ [Next]_vars => Inv'
  BY InvStep
<1> QED BY <1>1, InvInit, PTL DEF Spec

-----------------------------------------------------------------------------
(* The stage of a chain *)

HasTop(f) == MoveRanks(f) = {} \/ \E k \in MoveRanks(f) : \A j \in MoveRanks(f) : j <= k

LEMMA TopRank ==
    ASSUME Inv, NEW f \in Files, NEW k \in MoveRanks(f), \A j \in MoveRanks(f) : j <= k
    PROVE  JournalStage(f) = history[f][k].to
<1>1. \A i, j \in MoveRanks(f) : i <= j /\ j <= i => i = j
  <2>1. \A i \in MoveRanks(f) : i \in Nat
    BY DEF MoveRanks, Inv, TypeInv
  <2> QED BY <2>1
<1> QED BY <1>1 DEF JournalStage

LEMMA TopRankNext ==
    ASSUME Inv', NEW f \in Files, NEW k \in MoveRanks(f)', \A j \in MoveRanks(f)' : j <= k
    PROVE  JournalStage(f)' = history'[f][k].to
<1>1. \A i, j \in MoveRanks(f)' : i <= j /\ j <= i => i = j
  <2>1. \A i \in MoveRanks(f)' : i \in Nat
    BY DEF MoveRanks, Inv, TypeInv
  <2> QED BY <2>1
<1> QED BY <1>1 DEF JournalStage

\* Only a move changes what a chain says of the stage.
LEMMA StageMoves ==
    ASSUME Inv, [Next]_vars, NEW f \in Files, HasTop(f)
    PROVE  /\ HasTop(f)'
           /\ \/ MoveRanks(f)' = MoveRanks(f) /\ JournalStage(f)' = JournalStage(f)
              \/ \E h \in Handlers : /\ WriteMove(h) /\ job[h].file = f
                                     /\ Appends(f, Moved(job[h].copy.stage, job[h].arg))
                                     /\ JournalStage(f)' = job[h].arg
<1>0. Inv'
  BY InvStep
<1>1. ASSUME MoveRanks(f)' = MoveRanks(f), \A k \in DOMAIN history[f] : history'[f][k] = history[f][k]
      PROVE  HasTop(f)' /\ JournalStage(f)' = JournalStage(f)
  <2>1. HasTop(f)'
    BY <1>1 DEF HasTop
  <2>2. ASSUME MoveRanks(f) = {} PROVE JournalStage(f)' = JournalStage(f)
    BY <1>1, <2>2 DEF JournalStage
  <2>3. ASSUME MoveRanks(f) # {} PROVE JournalStage(f)' = JournalStage(f)
    <3>1. PICK k \in MoveRanks(f) : \A j \in MoveRanks(f) : j <= k
      BY <2>3 DEF HasTop
    <3>2. JournalStage(f) = history[f][k].to
      BY <3>1, TopRank
    <3>3. JournalStage(f)' = history'[f][k].to
      BY <1>0, <1>1, <3>1, TopRankNext
    <3>4. k \in DOMAIN history[f]
      BY <3>1 DEF MoveRanks
    <3> QED BY <1>1, <3>2, <3>3, <3>4
  <2> QED BY <2>1, <2>2, <2>3
<1>2. CASE history'[f] = history[f]
  BY <1>1, <1>2 DEF MoveRanks
<1>3. ASSUME NEW e \in Entry, e.to = None, history'[f] = Append(history[f], e)
      PROVE  /\ HasTop(f)' /\ MoveRanks(f)' = MoveRanks(f) /\ JournalStage(f)' = JournalStage(f)
  <2>1. history[f] \in Seq(Entry)
    BY DEF Inv, TypeInv
  <2>2. /\ \A k \in DOMAIN history[f] : history'[f][k] = history[f][k]
        /\ DOMAIN history'[f] = DOMAIN history[f] \cup {Len(history[f]) + 1}
        /\ history'[f][Len(history[f]) + 1] = e
    BY <1>3, <2>1, AppendRanks
  <2>3. MoveRanks(f)' = MoveRanks(f)
    BY <1>3, <2>2 DEF MoveRanks
  <2> QED BY <1>1, <2>2, <2>3
<1>4. ASSUME NEW h \in Handlers, WriteMove(h), job[h].file = f,
             Appends(f, Moved(job[h].copy.stage, job[h].arg))
      PROVE  HasTop(f)' /\ JournalStage(f)' = job[h].arg
  <2>1. PICK e \in Entry : e = Moved(job[h].copy.stage, job[h].arg) /\ e.to = job[h].arg /\ e.to # None
    <3>1. job[h].copy.stage \in Stages /\ job[h].arg \in Stages
      BY <1>4 DEF WriteMove, Inv, TypeInv, Jobs, JobsInv, JobOK, Item
    <3> QED BY <3>1, EntryShapes, FileConstants
  <2>2. history[f] \in Seq(Entry) /\ history'[f] = Append(history[f], e)
    BY <1>4, <2>1 DEF Inv, TypeInv, Appends
  <2>3. PICK n \in Nat : n = Len(history[f]) + 1
    BY <2>2
  <2>4. /\ DOMAIN history'[f] = DOMAIN history[f] \cup {n} /\ history'[f][n] = e
        /\ \A k \in DOMAIN history[f] : k <= n
    BY <2>2, <2>3, AppendRanks
  <2>5. n \in MoveRanks(f)' /\ \A k \in MoveRanks(f)' : k <= n
    BY <2>1, <2>3, <2>4 DEF MoveRanks
  <2> QED BY <1>0, <2>1, <2>4, <2>5, TopRankNext DEF HasTop
<1>5. ASSUME NEW g \in Files, NEW e \in Entry, Appends(g, e)
      PROVE  history'[f] = history[f] \/ (f = g /\ history'[f] = Append(history[f], e))
  BY <1>5 DEF Appends, Inv, TypeInv
<1>6. ASSUME NEW h \in Handlers, WriteEnroll(h)
      PROVE  job[h].file \in Files /\ Enrolled(job[h].arg) \in Entry /\ Enrolled(job[h].arg).to = None
  BY <1>6, EntryShapes DEF WriteEnroll, Inv, TypeInv, Jobs, JobsInv, JobOK
<1>7. ASSUME NEW h \in Handlers, WriteMove(h)
      PROVE  job[h].file \in Files /\ Moved(job[h].copy.stage, job[h].arg) \in Entry
  BY <1>7, EntryShapes DEF WriteMove, Inv, TypeInv, Jobs, JobsInv, JobOK, Item
<1>8. CASE \E g \in Files, e \in Entry : Appends(g, e) /\ e.to = None
  BY <1>2, <1>3, <1>5, <1>8 DEF MoveRanks
<1>9. ASSUME NEW h \in Handlers, WriteMove(h),
             Appends(job[h].file, Moved(job[h].copy.stage, job[h].arg)), job[h].file # f
      PROVE  history'[f] = history[f]
  BY <1>5, <1>7, <1>9
<1>10. \/ history' = history
       \/ \E g \in Files, e \in Entry : Appends(g, e) /\ e.to = None
       \/ \E h \in Handlers : WriteMove(h) /\ Appends(job[h].file, Moved(job[h].copy.stage, job[h].arg))
  BY <1>6, HistoryMoves, EntryShapes DEF Inv
<1>11. CASE history'[f] = history[f]
  <2>1. MoveRanks(f)' = MoveRanks(f)
    BY <1>11 DEF MoveRanks
  <2> QED BY <1>1, <1>11, <2>1
<1> QED BY <1>4, <1>8, <1>9, <1>10, <1>11

-----------------------------------------------------------------------------
(* The theorems *)

\* Items, chains and copies are what the handlers build (TypeOK).
THEOREM TypeCorrect == Spec => []TypeOK
<1>1. Inv => TypeOK
  <2> SUFFICES ASSUME Inv PROVE TypeOK
    OBVIOUS
  <2>1. \A f \in Files : \A k \in DOMAIN history[f] : history[f][k] \in Entry
    BY DEF Inv, TypeInv
  <2>2. \A h \in Handlers : job[h] \in Jobs
    BY DEF Inv, TypeInv
  <2> QED BY <2>1, <2>2 DEF Inv, TypeInv, TypeOK, Jobs
<1> QED BY <1>1, InvAlways, PTL

\* The cached count of pieces never claims a piece the chain does not prove, however late
\* and over whatever it is written (crm/proof.go:10-16, 83-87).
THEOREM ProofIsNeverOverstated == Spec => []ProofNeverOverstates
<1>1. Inv => ProofNeverOverstates
  BY DEF Inv, FilesInv, Backed, ProofNeverOverstates
<1> QED BY <1>1, InvAlways, PTL

\* An enrollment is in the chain of its file exactly once, and the session a file is linked
\* to is one its chain has an enrollment for (catalog/service.go:171-174, 200-202).
THEOREM EnrollmentsAreJournalled == Spec => []EnrollmentsJournalled
<1>1. Inv => \A f \in Files :
        /\ \A s \in Sessions :
              Cardinality({k \in DOMAIN history[f] : history[f][k] = Enrolled(s)})
                  = IF <<s, f>> \in enrolled THEN 1 ELSE 0
        /\ files[f] # NoFile /\ files[f].session # None => <<files[f].session, f>> \in enrolled
  <2> SUFFICES ASSUME Inv, NEW f \in Files
               PROVE  /\ \A s \in Sessions : Cardinality(Ranks(f, s)) = IF <<s, f>> \in enrolled THEN 1 ELSE 0
                      /\ files[f] # NoFile /\ files[f].session # None => <<files[f].session, f>> \in enrolled
    BY DEF Ranks
  <2>1. ASSUME NEW s \in Sessions, <<s, f>> \in enrolled
        PROVE  Cardinality(Ranks(f, s)) = 1
    BY <2>1, FS_Singleton DEF Inv, EnrolledInv
  <2>2. ASSUME NEW s \in Sessions, <<s, f>> \notin enrolled
        PROVE  Cardinality(Ranks(f, s)) = 0
    BY <2>2, FS_EmptySet DEF Inv, EnrolledInv
  <2>3. files[f] # NoFile /\ files[f].session # None => <<files[f].session, f>> \in enrolled
    BY DEF Inv, FilesInv, Backed
  <2> QED BY <2>1, <2>2, <2>3
<1>2. Spec => [](\A f \in Files :
        /\ \A s \in Sessions :
              Cardinality({k \in DOMAIN history[f] : history[f][k] = Enrolled(s)})
                  = IF <<s, f>> \in enrolled THEN 1 ELSE 0
        /\ files[f] # NoFile /\ files[f].session # None => <<files[f].session, f>> \in enrolled)
  BY <1>1, InvAlways, PTL
<1> QED BY <1>2, TypeCorrect, PTL DEF EnrollmentsJournalled

\* What is done stays done.
LEMMA DoneStays ==
    ASSUME Inv, [Next]_vars, NEW h \in Handlers, job[h].pc = "done"
    PROVE  job'[h] = job[h]
<1>1. job \in [Handlers -> Jobs]
  BY DEF Inv, TypeInv
<1>2. \/ job' = job
      \/ \E g \in Handlers : \E j : job[g].pc # "done" /\ job' = [job EXCEPT ![g] = j]
  <2>1. ASSUME NEW g \in Handlers, NEW kind, NEW f, NEW arg, Take(g, kind, f, arg)
        PROVE  \E x \in Handlers : \E j : job[x].pc # "done" /\ job' = [job EXCEPT ![x] = j]
    BY <2>1 DEF Take
  <2>2. ASSUME NEW g \in Handlers, job[g].pc = "write",
               \/ \E pc : job' = [job EXCEPT ![g].pc = pc]
               \/ \E arg : job' = [job EXCEPT ![g].arg = arg]
        PROVE  \E x \in Handlers : \E j : job[x].pc # "done" /\ job' = [job EXCEPT ![x] = j]
    BY <2>2
  <2>3. ASSUME NEW g \in Handlers, NEW identity \in BOOLEAN, ReadTimeline(g, identity)
        PROVE  \/ \E pc : job' = [job EXCEPT ![g].pc = pc]
               \/ \E arg : job' = [job EXCEPT ![g].arg = arg]
    BY <2>3 DEF ReadTimeline
  <2>4. \/ job' = job
        \/ \E g \in Handlers : \E kind, f, arg : Take(g, kind, f, arg)
        \/ \E g \in Handlers, identity \in BOOLEAN : ReadTimeline(g, identity)
        \/ \E g \in Handlers : job[g].pc = "write" /\ \E pc : job' = [job EXCEPT ![g].pc = pc]
    BY DEF Next, Handle, CreateFile, RecordFact, CloseSession, ReadMove, ReadFund, ReadForProof,
           ReadEnroll, WriteMove, WriteFund, WriteProof, WriteEnroll, GiveUp, End, vars
  <2> QED BY <2>1, <2>2, <2>3, <2>4 DEF ReadTimeline
<1> QED BY <1>1, <1>2

DivergeInv == (\A f \in Files : HasTop(f)) /\ OnlyPlainWritesDiverge

\* Handler h brought back the stage it had read.
Excuses(h, f, stage) ==
    /\ job[h].pc = "done" /\ job[h].kind \in Plain /\ job[h].file = f
    /\ job[h].copy # NoFile /\ job[h].copy.stage = stage

LEMMA DivergeStep ==
    ASSUME Inv, DivergeInv, [Next]_vars
    PROVE  DivergeInv'
<1>1. \A f \in Files : HasTop(f)'
  BY StageMoves DEF DivergeInv
<1>2. ASSUME NEW f \in Files, files'[f] # NoFile, files'[f].stage # JournalStage(f)'
      PROVE  \E h \in Handlers : \E stage : stage = files'[f].stage /\ Excuses(h, f, stage)'
  <2>1. /\ files \in [Files -> Item \cup {NoFile}] /\ job \in [Handlers -> Jobs]
        /\ files' \in [Files -> Item \cup {NoFile}]
    BY InvStep DEF Inv, TypeInv
  <2>2. ~ (\E h \in Handlers : WriteMove(h) /\ job[h].file = f /\ JournalStage(f)' = job[h].arg)
    <3> SUFFICES ASSUME NEW h \in Handlers, WriteMove(h), job[h].file = f, JournalStage(f)' = job[h].arg
                 PROVE  FALSE
      OBVIOUS
    <3>1. job[h].copy \in Item
      BY DEF WriteMove, Inv, JobsInv, JobOK
    <3>2. files'[f].stage = job[h].arg
      BY <2>1, <3>1 DEF WriteMove, MovedCopy, Item
    <3> QED BY <1>2, <3>2
  <2>3. JournalStage(f)' = JournalStage(f) /\ MoveRanks(f)' = MoveRanks(f)
    BY <2>2, StageMoves DEF DivergeInv
  <2>4. CASE files'[f] = files[f]
    <3>0. PICK stage : stage = files'[f].stage
      OBVIOUS
    <3>1. PICK h \in Handlers : Excuses(h, f, stage)
      BY <3>0, <1>2, <2>3, <2>4 DEF DivergeInv, OnlyPlainWritesDiverge, Excuses
    <3>2. job'[h] = job[h]
      BY <3>1, DoneStays DEF Excuses
    <3> QED BY <3>0, <3>1, <3>2 DEF Excuses
  <2>5. ASSUME CreateFile(f) PROVE FALSE
    <3>1. MoveRanks(f) = {}
      BY <2>5 DEF CreateFile, MoveRanks
    <3>2. files'[f].stage = "prospect"
      BY <2>1, <2>5 DEF CreateFile, NewFile
    <3> QED BY <1>2, <2>3, <3>1, <3>2 DEF JournalStage
  <2>6. ASSUME NEW h \in Handlers, WriteFund(h) \/ WriteProof(h) \/ (WriteEnroll(h) /\ job[h].copy # NoFile),
               job[h].file = f
        PROVE  \E x \in Handlers : \E stage : stage = files'[f].stage /\ Excuses(x, f, stage)'
    <3>1. job[h].pc = "write" /\ job[h].kind \in Plain /\ job[h].copy # NoFile /\ job[h].copy \in Item
      BY <2>6 DEF WriteFund, WriteProof, WriteEnroll, Plain, Inv, JobsInv, JobOK
    <3>2. files'[f].stage = job[h].copy.stage
      BY <2>1, <2>6, <3>1 DEF WriteFund, WriteProof, WriteEnroll, Item
    <3>3. /\ job'[h].pc = "done" /\ job'[h].kind = job[h].kind /\ job'[h].file = job[h].file
          /\ job'[h].copy = job[h].copy
      BY <2>1, <2>6 DEF WriteFund, WriteProof, WriteEnroll, End, Jobs
    <3>4. PICK stage : stage = job[h].copy.stage
      OBVIOUS
    <3> QED BY <2>6, <3>1, <3>2, <3>3, <3>4 DEF Excuses
  <2>7. ASSUME NEW h \in Handlers, WriteMove(h), job[h].file = f
        PROVE  FALSE
    <3>1. Appends(f, Moved(job[h].copy.stage, job[h].arg))
      BY <2>7 DEF WriteMove, Appends
    <3>2. Moved(job[h].copy.stage, job[h].arg).to # None /\ Moved(job[h].copy.stage, job[h].arg) \in Entry
      <4>1. job[h].copy.stage \in Stages /\ job[h].arg \in Stages
        BY <2>7 DEF WriteMove, Inv, TypeInv, Jobs, JobsInv, JobOK, Item
      <4> QED BY <4>1, EntryShapes, FileConstants
    <3>3. history[f] \in Seq(Entry) /\ history'[f] = Append(history[f], Moved(job[h].copy.stage, job[h].arg))
      BY <3>1 DEF Appends, Inv, TypeInv
    <3>4. Len(history[f]) + 1 \in MoveRanks(f)' /\ Len(history[f]) + 1 \notin MoveRanks(f)
      BY <3>2, <3>3, AppendRanks DEF MoveRanks
    <3> QED BY <2>3, <3>4
  <2>8. ASSUME NEW g \in Files, NEW c, files' = [files EXCEPT ![g] = c], files'[f] # files[f]
        PROVE  f = g
    BY <2>1, <2>8
  <2>9. \/ files' = files \/ \E g \in Files : CreateFile(g)
        \/ \E h \in Handlers : \/ WriteMove(h) \/ WriteFund(h) \/ WriteProof(h)
                               \/ WriteEnroll(h) /\ job[h].copy # NoFile
    BY DEF Next, Handle, RecordFact, CloseSession, ReadMove, ReadFund, ReadForProof, ReadEnroll, Take,
           ReadTimeline, WriteEnroll, GiveUp, vars
  <2>10. ASSUME NEW g \in Files, CreateFile(g), files'[f] # files[f]
         PROVE  f = g
    BY <2>8, <2>10 DEF CreateFile
  <2>11. ASSUME NEW h \in Handlers, files'[f] # files[f],
                \/ WriteMove(h) \/ WriteFund(h) \/ WriteProof(h) \/ (WriteEnroll(h) /\ job[h].copy # NoFile)
         PROVE  job[h].file = f
    BY <2>1, <2>8, <2>11 DEF WriteMove, WriteFund, WriteProof, WriteEnroll, Jobs
  <2> QED BY <2>4, <2>5, <2>6, <2>7, <2>9, <2>10, <2>11
<1>3. OnlyPlainWritesDiverge'
  BY <1>2 DEF OnlyPlainWritesDiverge, Excuses
<1> QED BY <1>1, <1>3 DEF DivergeInv

LEMMA DivergeAlways == Spec => [](Inv /\ DivergeInv)
<1>1. Init => DivergeInv
  <2> SUFFICES ASSUME Init PROVE DivergeInv
    OBVIOUS
  <2>1. \A f \in Files : files[f] = NoFile /\ MoveRanks(f) = {}
    BY DEF Init, MoveRanks
  <2> QED BY <2>1 DEF DivergeInv, HasTop, OnlyPlainWritesDiverge
<1>2. Inv /\ DivergeInv /\ [Next]_vars => DivergeInv'
  BY DivergeStep
<1> QED BY <1>1, <1>2, InvAlways, PTL DEF Spec

\* A file shows another stage than its chain only after a write without a condition brought
\* back the stage it had read (crm/service.go:328-330).
THEOREM OnlyPlainWritesDivergeEver == Spec => []OnlyPlainWritesDiverge
<1>1. DivergeInv => OnlyPlainWritesDiverge
  BY DEF DivergeInv
<1> QED BY <1>1, DivergeAlways, PTL

LEMMA MoveLeaves ==
    ASSUME Inv, DivergeInv, [Next]_vars, NEW f \in Files, MoveRanks(f)' # MoveRanks(f)
    PROVE  /\ files[f].stage = history'[f][Len(history'[f])].from
           /\ files'[f].stage = history'[f][Len(history'[f])].to
<1>1. PICK h \in Handlers : /\ WriteMove(h) /\ job[h].file = f
                           /\ Appends(f, Moved(job[h].copy.stage, job[h].arg))
  BY StageMoves DEF DivergeInv
<1>2. job[h].copy \in Item /\ job[h].copy.stage \in Stages /\ job[h].arg \in Stages
  BY <1>1 DEF WriteMove, Inv, JobsInv, JobOK, Item
<1>3. PICK e \in Entry : /\ e = Moved(job[h].copy.stage, job[h].arg)
                        /\ e.from = job[h].copy.stage /\ e.to = job[h].arg
  BY <1>2, EntryShapes
<1>4. history[f] \in Seq(Entry) /\ history'[f] = Append(history[f], e)
  BY <1>1, <1>3 DEF Inv, TypeInv, Appends
<1>5. history'[f][Len(history'[f])] = e
  BY <1>4, AppendRanks
<1>6. files[f].stage = job[h].copy.stage
  BY <1>1 DEF WriteMove, StageUnchanged
<1>7. files'[f].stage = job[h].arg
  BY <1>1, <1>2 DEF WriteMove, MovedCopy, Item, Inv, TypeInv
<1> QED BY <1>3, <1>5, <1>6, <1>7

\* Whatever was brought back, a move is journalled from the stage the item had at that
\* instant to the one it takes (crm/service.go:328-352).
THEOREM MovesAlwaysLeaveTheStage == Spec => MovesLeaveTheStage
<1>1. Inv /\ DivergeInv /\ [Next]_vars =>
        [\A f \in Files : MoveRanks(f)' # MoveRanks(f) =>
            LET last == history'[f][Len(history'[f])]
            IN  /\ files[f].stage = last.from
                /\ files'[f].stage = last.to]_vars
  BY MoveLeaves
<1> QED BY <1>1, DivergeAlways, PTL DEF Spec, MovesLeaveTheStage
=============================================================================
