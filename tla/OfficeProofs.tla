---------------------------- MODULE OfficeProofs -----------------------------
(***************************************************************************)
(* Proofs about People and Organisation, for every list of stages, set of  *)
(* files, items, events of the payment provider and handlers: an erasure   *)
(* is explained on every file that stayed in its place and its page, what  *)
(* may bring erased data back, which pieces may be lost, and when a plan   *)
(* moves.                                                                  *)
(***************************************************************************)
EXTENDS Office, TLAPS

-----------------------------------------------------------------------------
(* The inductive invariant *)

CardKinds == {"update", "attach", "detach", "look", "access", "erase"}

Cards == [data : SUBSET P!Fields, doc : BOOLEAN, anonymized : BOOLEAN]

Jobs == [pc : {"idle", "read", "put", "list", "record", "bare", "ok", "failed", "close", "remove", "object"},
         kind : CardKinds \cup {"close", "remove"}, copy : Cards \cup P!Rows \cup {None}, at : Nat,
         todo : [LearnerFiles -> Nat], wrote : BOOLEAN, item : Items \cup {None}]

Entries == [what : CardKinds, by : Clerks]

TypeInv ==
    /\ card \in Cards
    /\ stage \in [LearnerFiles -> P!StageNames \cup {None}] /\ listed \in [LearnerFiles -> P!StageNames \cup {None}]
    /\ events \in [LearnerFiles -> Seq(Entries)]
    /\ items \in [Items -> P!Rows \cup {None}]
    /\ clerk \in [Clerks -> Jobs]

SomeWrote == \E h \in Clerks : clerk[h].wrote

\* A card, or a copy of it, is without its data only after an erasure.
Faithful(c) ==
    /\ c.anonymized => c.data = {}
    /\ c.data = {} => SomeWrote

CardInv == card \in Cards /\ Faithful(card)

\* A row that is not a piece any more.
Gone(i) == items[i] = None \/ items[i].kind # "piece"

\* What an erasure has met and written of the files that stayed in their place.
Listing(h, j) ==
    /\ j.pc = "list" =>
          \A f \in LearnerFiles \ missable : /\ listed[f] = stage[f]
                                      /\ \A k \in 1 .. j.at - 1 : stage[f] = StageOrder[k] => j.todo[f] > 0
    /\ j.pc = "record" =>
          \A f \in LearnerFiles \ missable : stage[f] # None => j.todo[f] > 0 \/ P!Explains(f, h)
    /\ j.pc = "bare" => \A f \in LearnerFiles \ missable : stage[f] = None
    /\ j.pc = "ok" /\ j.wrote => \A f \in LearnerFiles \ missable : stage[f] # None => P!Explains(f, h)

\* The rows of the handlers of the follow-up.
RowOK(j) ==
    /\ j.pc = "close" => j.item \in Items \cap used /\ j.copy \in P!Rows /\ j.copy.kind = "rappel"
    /\ j.kind = "remove" /\ j.pc \in {"remove", "object", "ok"} =>
          j.item \in Items \cap used /\ j.copy \in P!Rows /\ j.copy.kind = "piece"
    /\ j.kind = "remove" /\ j.pc \in {"object", "ok"} => Gone(j.item)

JobOK(h, j) ==
    /\ j.pc \in {"idle", "read", "put", "list", "bare"} => ~ j.wrote
    /\ j.pc \in {"read", "put"} => j.at = 1
    /\ j.pc = "list" => j.at \in 1 .. Len(StageOrder)
    /\ j.pc \in {"put", "list", "record", "bare"} => j.kind \in CardKinds
    /\ j.pc \in {"remove", "object"} => j.kind = "remove"
    /\ j.pc = "close" => j.kind = "close"
    /\ j.pc = "put" => /\ j.kind \in {"update", "attach", "detach"} /\ j.copy \in Cards
                       /\ Faithful(j.copy) /\ (j.kind = "update" => ~ j.copy.anonymized)
    /\ j.kind = "erase" => Listing(h, j)
    /\ RowOK(j)

JobsInv == \A h \in Clerks : JobOK(h, clerk[h])

\* An event of erasure was written with, or after, the card.
JournalInv == \A f \in LearnerFiles, h \in Clerks : P!Explains(f, h) => clerk[h].wrote

\* The piece under this key was deleted, and its object with it.
Removed(h, key) == clerk[h].kind = "remove" /\ clerk[h].pc = "ok" /\ clerk[h].copy.key = key

PiecesInv ==
    /\ \A key \in Keys \cap uploaded : key \in objects \/ \E h \in Clerks : Removed(h, key)
    /\ \A i \in Items : items[i] # None =>
          i \in used /\ (items[i].kind = "piece" => items[i].key \in Keys)

Inv == TypeInv /\ CardInv /\ JobsInv /\ JournalInv /\ PiecesInv

-----------------------------------------------------------------------------
(* How the handlers move *)

\* Handler h becomes j, and does not take back that it wrote.
Becomes(h, j) == /\ clerk' = [clerk EXCEPT ![h] = j] /\ j \in Jobs
                 /\ clerk[h].wrote => j.wrote
                 /\ clerk[h].kind = "remove" => clerk[h].pc # "ok"

\* The fields of a handler that only changes its step.
Same(j, old) == /\ j.kind = old.kind /\ j.copy = old.copy /\ j.at = old.at /\ j.todo = old.todo
                /\ j.wrote = old.wrote /\ j.item = old.item

LEMMA BeginMoves ==
    ASSUME TypeInv, JobsInv, NEW h \in Clerks, NEW kind \in CardKinds \cup {"close", "remove"},
           P!PeopleConstants, P!Begin(h, kind)
    PROVE  \E j : /\ Becomes(h, j) /\ j.kind = kind /\ j.at = 1 /\ ~ j.wrote
                  /\ \/ j.pc = "read"
                     \/ j.pc = "list" /\ kind = "access"
<1>1. PICK pc \in {"read", "list"} : pc = IF kind = "access" THEN "list" ELSE "read"
  OBVIOUS
<1>2. PICK j : j = [P!Idle EXCEPT !.pc = pc, !.kind = kind]
  OBVIOUS
<1>3. /\ clerk' = [clerk EXCEPT ![h] = j] /\ clerk[h].pc = "idle"
  BY <1>1, <1>2 DEF P!Begin, P!Goto
<1>4. j \in Jobs /\ j.kind = kind /\ j.at = 1 /\ j.wrote = FALSE /\ j.pc = pc
  BY <1>2 DEF P!Idle, Jobs
<1>5. ~ clerk[h].wrote
  BY <1>3 DEF JobsInv, JobOK
<1> QED BY <1>1, <1>3, <1>4, <1>5 DEF Becomes

LEMMA EndMoves ==
    ASSUME TypeInv, NEW h \in Clerks, clerk[h].pc # "ok",
           NEW pc \in {"ok", "failed", "list", "object"}, P!End(h, pc), NEW old, old = clerk[h]
    PROVE  \E j : Becomes(h, j) /\ j.pc = pc /\ Same(j, old)
<1>1. PICK j : j = [old EXCEPT !.pc = pc]
  OBVIOUS
<1>2. old \in Jobs
  BY DEF TypeInv
<1>3. j \in Jobs /\ j.pc = pc /\ Same(j, old)
  BY <1>1, <1>2 DEF Jobs, Same
<1>4. clerk' = [clerk EXCEPT ![h] = j]
  BY <1>1 DEF P!End, P!Goto
<1> QED BY <1>3, <1>4 DEF Becomes, Same

LEMMA ReadToPutMoves ==
    ASSUME TypeInv, NEW h \in Clerks, P!ReadToPut(h), NEW old, old = clerk[h]
    PROVE  \E j : /\ Becomes(h, j) /\ j.pc = "put" /\ j.copy = card /\ j.kind = old.kind /\ j.wrote = old.wrote
                  /\ j.at = old.at /\ j.kind \in {"update", "attach", "detach"}
                  /\ j.kind = "update" => ~ card.anonymized
<1>1. PICK j : j = [old EXCEPT !.pc = "put", !.copy = card]
  OBVIOUS
<1>2. old \in Jobs /\ card \in Cards
  BY DEF TypeInv
<1>3. j \in Jobs /\ j.pc = "put" /\ j.copy = card /\ j.kind = old.kind /\ j.wrote = old.wrote
      /\ j.at = old.at
  BY <1>1, <1>2 DEF Jobs
<1>4. clerk' = [clerk EXCEPT ![h] = j] /\ old.pc = "read"
  BY <1>1 DEF P!ReadToPut, P!Goto
<1> QED BY <1>3, <1>4 DEF Becomes, P!ReadToPut, P!Modifiable

LEMMA ReadToListMoves ==
    ASSUME TypeInv, NEW h \in Clerks, P!ReadToList(h), NEW old, old = clerk[h]
    PROVE  \E j : /\ Becomes(h, j) /\ j.pc = "list" /\ j.copy = card /\ j.kind = old.kind
                  /\ j.at = old.at /\ j.wrote = old.wrote /\ j.kind \in {"look", "erase"}
<1>1. PICK j : j = [old EXCEPT !.pc = "list", !.copy = card]
  OBVIOUS
<1>2. old \in Jobs /\ card \in Cards
  BY DEF TypeInv
<1>3. j \in Jobs /\ j.pc = "list" /\ j.copy = card /\ j.kind = old.kind /\ j.wrote = old.wrote
      /\ j.at = old.at
  BY <1>1, <1>2 DEF Jobs
<1>4. clerk' = [clerk EXCEPT ![h] = j] /\ old.pc = "read"
  BY <1>1 DEF P!ReadToList, P!Goto
<1> QED BY <1>3, <1>4 DEF Becomes, P!ReadToList

LEMMA ListMoves ==
    ASSUME TypeInv, NEW h \in Clerks, NEW page \in SUBSET LearnerFiles, P!ListPage(h, page), NEW old, old = clerk[h]
    PROVE  \E j : /\ Becomes(h, j) /\ j.copy = old.copy /\ j.kind = old.kind /\ j.wrote = old.wrote
                  /\ j.at = old.at + 1
                  /\ \A f \in LearnerFiles : j.todo[f] >= old.todo[f]
                  /\ \A f \in page : j.todo[f] > 0
                  /\ \/ j.pc = "list" /\ old.at < Len(StageOrder)
                     \/ j.pc = "record" /\ ~ (old.at < Len(StageOrder))
                     \/ /\ j.pc = "bare" /\ ~ (old.at < Len(StageOrder)) /\ j.kind = "erase"
                        /\ \A f \in LearnerFiles : j.todo[f] = 0
                     \/ j.pc = "ok" /\ j.kind # "erase"
<1> DEFINE found == [f \in LearnerFiles |-> old.todo[f] + IF f \in page THEN 1 ELSE 0]
           pc == IF old.at < Len(StageOrder) THEN "list"
                 ELSE IF ~ (\A f \in LearnerFiles : found[f] = 0) THEN "record"
                 ELSE IF old.kind = "erase" THEN "bare" ELSE "ok"
<1>0. old \in Jobs /\ old.todo \in [LearnerFiles -> Nat] /\ old.at \in Nat
  BY DEF TypeInv, Jobs
<1>2. PICK n \in Nat : n = old.at + 1
  BY <1>0
<1>1. PICK j : j = [old EXCEPT !.todo = found, !.at = n, !.pc = pc]
  OBVIOUS
<1>3. found \in [LearnerFiles -> Nat]
  BY <1>0
<1>4. pc \in {"list", "record", "bare", "ok"}
  OBVIOUS
<1>5. /\ j \in Jobs /\ j.pc = pc /\ j.copy = old.copy /\ j.kind = old.kind /\ j.wrote = old.wrote
      /\ j.at = n /\ j.todo = found
  <2> HIDE DEF found, pc
  <2> QED BY <1>0, <1>1, <1>3, <1>4 DEF Jobs
<1>6. clerk' = [clerk EXCEPT ![h] = j] /\ old.pc = "list"
  BY <1>1, <1>2 DEF P!ListPage, P!ListedStages, P!Goto
<1>7. \A f \in LearnerFiles : found[f] >= old.todo[f] /\ (f \in page => found[f] > 0)
  BY <1>0
<1>8. Becomes(h, j)
  BY <1>5, <1>6 DEF Becomes
<1> QED BY <1>2, <1>5, <1>7, <1>8

LEMMA BareMoves ==
    ASSUME TypeInv, NEW h \in Clerks, P!EraseBare(h), NEW old, old = clerk[h]
    PROVE  \E j : /\ Becomes(h, j) /\ j.pc = "ok" /\ j.wrote /\ j.kind = old.kind
<1>1. PICK j : j = [old EXCEPT !.pc = "ok", !.wrote = TRUE]
  OBVIOUS
<1>2. old \in Jobs
  BY DEF TypeInv
<1>3. j \in Jobs /\ j.pc = "ok" /\ j.wrote = TRUE /\ j.kind = old.kind
  BY <1>1, <1>2 DEF Jobs
<1>4. clerk' = [clerk EXCEPT ![h] = j] /\ old.pc = "bare"
  BY <1>1 DEF P!EraseBare, P!Goto
<1> QED BY <1>3, <1>4 DEF Becomes

LEMMA PastMoves ==
    ASSUME TypeInv, NEW h \in Clerks, NEW f \in LearnerFiles, P!Record(h, f) \/ P!RecordFails(h, f),
           NEW old, old = clerk[h]
    PROVE  \E j : /\ Becomes(h, j) /\ j.kind = old.kind /\ j.copy = old.copy
                  /\ \A g \in LearnerFiles : g # f => j.todo[g] = old.todo[g]
                  /\ j.wrote <=> old.wrote \/ old.kind = "erase"
                  /\ \/ j.pc = "record"
                     \/ j.pc = "ok" /\ \A g \in LearnerFiles : j.todo[g] = 0
<1> DEFINE left == [old.todo EXCEPT ![f] = @ - 1]
           pc == IF \A g \in LearnerFiles : left[g] = 0 THEN "ok" ELSE "record"
           wrote == old.wrote \/ old.kind = "erase"
<1>1. PICK j : j = [old EXCEPT !.todo = left, !.wrote = wrote, !.pc = pc]
  OBVIOUS
<1>2. old \in Jobs /\ old.todo \in [LearnerFiles -> Nat] /\ old.todo[f] > 0 /\ old.pc = "record"
  BY DEF TypeInv, Jobs, P!Record, P!RecordFails
<1>3. left \in [LearnerFiles -> Nat] /\ \A g \in LearnerFiles : g # f => left[g] = old.todo[g]
  BY <1>2
<1>4. pc \in {"ok", "record"} /\ wrote \in BOOLEAN
  BY <1>2 DEF Jobs
<1>5. /\ j \in Jobs /\ j.pc = pc /\ j.kind = old.kind /\ j.copy = old.copy /\ j.todo = left
      /\ j.wrote = wrote
  <2> HIDE DEF left, pc, wrote
  <2> QED BY <1>1, <1>2, <1>3, <1>4 DEF Jobs
<1>6. clerk' = [clerk EXCEPT ![h] = j]
  BY <1>1 DEF P!Record, P!RecordFails, P!Past, P!Goto
<1>7. Becomes(h, j)
  BY <1>2, <1>5, <1>6 DEF Becomes
<1>8. j.pc = "record" \/ (j.pc = "ok" /\ \A g \in LearnerFiles : j.todo[g] = 0)
  <2> HIDE DEF left
  <2> QED BY <1>5
<1>9. j.wrote <=> old.wrote \/ old.kind = "erase"
  BY <1>5
<1> HIDE DEF left, pc, wrote
<1> QED BY <1>3, <1>5, <1>7, <1>8, <1>9

LEMMA ReadItemMoves ==
    ASSUME TypeInv, NEW h \in Clerks, NEW i \in Items, P!ReadItem(h, i), NEW old, old = clerk[h]
    PROVE  \E j : /\ Becomes(h, j) /\ j.pc = j.kind /\ j.kind = old.kind /\ j.wrote = old.wrote
                  /\ j.kind \in {"close", "remove"} /\ j.item = i /\ j.copy = items[i] /\ items[i] # None
                  /\ items[i].kind = IF j.kind = "close" THEN "rappel" ELSE "piece"
<1>1. PICK j : j = [old EXCEPT !.pc = old.kind, !.item = i, !.copy = items[i]]
  OBVIOUS
<1>2. old \in Jobs /\ items[i] \in P!Rows /\ old.kind \in {"close", "remove"}
  BY DEF TypeInv, P!ReadItem
<1>3. /\ j \in Jobs /\ j.pc = j.kind /\ j.kind = old.kind /\ j.wrote = old.wrote
      /\ j.item = i /\ j.copy = items[i]
  BY <1>1, <1>2 DEF Jobs
<1>4. clerk' = [clerk EXCEPT ![h] = j] /\ old.pc = "read"
  BY <1>1 DEF P!ReadItem, P!Goto
<1> QED BY <1>2, <1>3, <1>4 DEF Becomes, P!ReadItem

\* A step moves one handler at most, and none takes back that it wrote.
LEMMA Moves ==
    ASSUME P!PeopleConstants, TypeInv, JobsInv, [P!Next]_P!vars
    PROVE  clerk' = clerk \/ \E h \in Clerks : \E j : Becomes(h, j)
<1>1. ASSUME NEW h \in Clerks, NEW pc \in {"ok", "failed", "list", "object"}, clerk[h].pc # "ok", P!End(h, pc)
      PROVE  \E j : Becomes(h, j)
  BY <1>1, EndMoves
<1>2. ASSUME NEW h \in Clerks,
             \/ P!NothingToDo(h) \/ P!PutCard(h) \/ P!GiveUp(h) \/ P!DeleteRow(h) \/ P!DeleteObject(h)
             \/ \E done \in BOOLEAN : P!CloseRappel(h, done)
      PROVE  \E j : Becomes(h, j)
  <2>1. /\ clerk[h].pc # "ok"
        /\ \E pc \in {"ok", "failed", "list", "object"} : P!End(h, pc)
    BY <1>2 DEF P!NothingToDo, P!PutCard, P!GiveUp, P!DeleteRow, P!DeleteObject, P!CloseRappel
  <2> QED BY <1>1, <2>1
<1>3. ASSUME NEW h \in Clerks, NEW kind \in CardKinds \cup {"close", "remove"}, P!Begin(h, kind)
      PROVE  \E j : Becomes(h, j)
  BY <1>3, BeginMoves
<1>4. ASSUME NEW h \in Clerks, NEW f \in LearnerFiles, P!Record(h, f) \/ P!RecordFails(h, f)
      PROVE  \E j : Becomes(h, j)
  BY <1>4, PastMoves
<1>5. ASSUME NEW h \in Clerks, P!ReadToPut(h) \/ P!ReadToList(h) \/ P!ListFiles(h) \/ P!EraseBare(h)
      PROVE  \E j : Becomes(h, j)
  BY <1>5, ReadToPutMoves, ReadToListMoves, ListMoves, BareMoves DEF P!ListFiles
<1>6. ASSUME NEW h \in Clerks, NEW i \in Items, P!ReadItem(h, i)
      PROVE  \E j : Becomes(h, j)
  BY <1>6, ReadItemMoves
<1>7. \/ clerk' = clerk
      \/ \E h \in Clerks :
            \/ P!NothingToDo(h) \/ P!PutCard(h) \/ P!GiveUp(h) \/ P!DeleteRow(h) \/ P!DeleteObject(h)
            \/ \E done \in BOOLEAN : P!CloseRappel(h, done)
            \/ \E kind \in CardKinds \cup {"close", "remove"} : P!Begin(h, kind)
            \/ \E f \in LearnerFiles : P!Record(h, f) \/ P!RecordFails(h, f)
            \/ P!ReadToPut(h) \/ P!ReadToList(h) \/ P!ListFiles(h) \/ P!EraseBare(h)
            \/ \E i \in Items : P!ReadItem(h, i)
  BY DEF P!Next, P!Handle, P!Change, P!Journal, P!CreateFile, P!Index, P!MoveFile, P!AddItem, P!DeleteItem, P!AttachPiece,
         P!PreparePiece, P!Upload, P!vars, CardKinds
<1> QED BY <1>2, <1>3, <1>4, <1>5, <1>6, <1>7

LEMMA WritesStay ==
    ASSUME P!PeopleConstants, TypeInv, JobsInv, [P!Next]_P!vars
    PROVE  /\ clerk' \in [Clerks -> Jobs]
           /\ \A h \in Clerks : clerk[h].wrote => clerk'[h].wrote
           /\ SomeWrote => SomeWrote'
           /\ \A h \in Clerks, key \in Keys : Removed(h, key) => Removed(h, key)'
<1>1. CASE clerk' = clerk
  BY <1>1 DEF TypeInv, SomeWrote, Removed
<1>2. ASSUME NEW h \in Clerks, NEW j, Becomes(h, j)
      PROVE  /\ clerk' \in [Clerks -> Jobs]
             /\ \A g \in Clerks : clerk[g].wrote => clerk'[g].wrote
             /\ \A g \in Clerks, key \in Keys : Removed(g, key) => Removed(g, key)'
  BY <1>2 DEF Becomes, TypeInv, Removed
<1>3. /\ clerk' \in [Clerks -> Jobs]
      /\ \A g \in Clerks : clerk[g].wrote => clerk'[g].wrote
      /\ \A g \in Clerks, key \in Keys : Removed(g, key) => Removed(g, key)'
  BY <1>1, <1>2, Moves DEF Removed
<1> QED BY <1>3 DEF SomeWrote

-----------------------------------------------------------------------------
(* Files, their chains and the rows *)

\* The chain of f gets the event of handler h.
Notes(f, kind, h) == events' = [events EXCEPT ![f] = Append(@, [what |-> kind, by |-> h])]

LEMMA JournalMoves ==
    ASSUME TypeInv, JobsInv, [P!Next]_P!vars
    PROVE  \/ events' = events
           \/ \E f \in LearnerFiles, h \in Clerks, kind \in CardKinds :
                 P!Record(h, f) /\ kind = clerk[h].kind /\ Notes(f, kind, h)
<1>1. ASSUME NEW h \in Clerks, NEW f \in LearnerFiles, P!Record(h, f)
      PROVE  clerk[h].kind \in CardKinds /\ Notes(f, clerk[h].kind, h)
  BY <1>1 DEF P!Record, Notes, JobsInv, JobOK
<1>2. events' = events \/ \E h \in Clerks, f \in LearnerFiles : P!Record(h, f)
  BY DEF P!Next, P!Handle, P!Change, P!Journal, P!Begin, P!ReadToPut, P!PutCard, P!NothingToDo, P!ReadToList, P!ListFiles, P!ListPage,
         P!EraseBare, P!RecordFails, P!GiveUp, P!ReadItem, P!CloseRappel, P!DeleteRow, P!DeleteObject, P!CreateFile,
         P!Index, P!MoveFile, P!AddItem, P!DeleteItem, P!AttachPiece, P!PreparePiece, P!Upload, P!Goto, P!End, P!vars, P!contact, P!suivi
<1> QED BY <1>1, <1>2

LEMMA NotesExplain ==
    ASSUME TypeInv, NEW f \in LearnerFiles, NEW h \in Clerks, NEW kind \in CardKinds, Notes(f, kind, h)
    PROVE  /\ events' \in [LearnerFiles -> Seq(Entries)]
           /\ \A g \in LearnerFiles, x \in Clerks :
                 P!Explains(g, x)' <=> P!Explains(g, x) \/ (g = f /\ x = h /\ kind = "erase")
<1>1. PICK e \in Entries : e = [what |-> kind, by |-> h]
  BY DEF Entries
<1>2. PICK q \in Seq(Entries) : q = events[f]
  BY DEF TypeInv
<1>3. /\ Append(q, e) \in Seq(Entries) /\ DOMAIN Append(q, e) = DOMAIN q \cup {Len(q) + 1}
      /\ Append(q, e)[Len(q) + 1] = e /\ \A k \in DOMAIN q : Append(q, e)[k] = q[k]
  OBVIOUS
<1>4. events' = [events EXCEPT ![f] = Append(q, e)]
  BY <1>1, <1>2 DEF Notes
<1>5. events' \in [LearnerFiles -> Seq(Entries)]
  BY <1>3, <1>4 DEF TypeInv
<1>6. ASSUME NEW g \in LearnerFiles, NEW x \in Clerks
      PROVE  P!Explains(g, x)' <=> P!Explains(g, x) \/ (g = f /\ x = h /\ kind = "erase")
  <2>1. CASE g # f
    BY <1>4, <2>1 DEF P!Explains, TypeInv
  <2>2. CASE g = f
    <3>1. events'[f] = Append(q, e)
      BY <1>4 DEF TypeInv
    <3>2. e = [what |-> "erase", by |-> x] <=> x = h /\ kind = "erase"
      BY <1>1
    <3>3. (\E k \in DOMAIN Append(q, e) : Append(q, e)[k] = [what |-> "erase", by |-> x])
            <=> (\E k \in DOMAIN q : q[k] = [what |-> "erase", by |-> x]) \/ (x = h /\ kind = "erase")
      BY <1>3, <3>2
    <3> QED BY <1>2, <2>2, <3>1, <3>3 DEF P!Explains
  <2> QED BY <2>1, <2>2
<1> QED BY <1>5, <1>6

LEMMA JournalStays ==
    ASSUME TypeInv, JobsInv, [P!Next]_P!vars
    PROVE  /\ events' \in [LearnerFiles -> Seq(Entries)]
           /\ \A f \in LearnerFiles, h \in Clerks : P!Explains(f, h) => P!Explains(f, h)'
<1>1. CASE events' = events
  BY <1>1 DEF TypeInv, P!Explains
<1> QED BY <1>1, JournalMoves, NotesExplain

\* What a step may do to the files.
LEMMA FilesStay ==
    ASSUME P!PeopleConstants, TypeInv, [P!Next]_P!vars
    PROVE  /\ stage' \in [LearnerFiles -> P!StageNames \cup {None}] /\ listed' \in [LearnerFiles -> P!StageNames \cup {None}]
           /\ missable \subseteq missable'
           /\ \A f \in LearnerFiles \ missable' : stage'[f] # None => stage[f] # None
           /\ \A f \in LearnerFiles : stage[f] # None => stage'[f] # None
           /\ P!Erasing # {} => \A f \in LearnerFiles \ missable' :
                 stage'[f] = stage[f] /\ (listed[f] = stage[f] => listed'[f] = stage'[f])
<1>1. CASE UNCHANGED <<stage, listed>> /\ missable \subseteq missable'
  BY <1>1 DEF TypeInv
<1>2. ASSUME NEW f \in LearnerFiles, P!CreateFile(f)
      PROVE  /\ stage' = [stage EXCEPT ![f] = StageOrder[1]] /\ StageOrder[1] \in P!StageNames
             /\ listed' = listed /\ missable' = missable \cup {f}
  BY <1>2 DEF P!CreateFile, P!StageNames, P!PeopleConstants
<1>3. ASSUME NEW f \in LearnerFiles, NEW to \in P!StageNames, P!MoveFile(f, to)
      PROVE  /\ stage' = [stage EXCEPT ![f] = to] /\ stage[f] # None /\ listed' = listed
             /\ missable' = IF P!Erasing # {} THEN missable \cup {f} ELSE missable
  BY <1>3 DEF P!MoveFile
<1>4. ASSUME NEW f \in LearnerFiles, P!Index(f)
      PROVE  /\ stage' = stage /\ listed' = [listed EXCEPT ![f] = stage[f]] /\ missable' = missable
  BY <1>4 DEF P!Index
<1>4a. ASSUME NEW h \in Clerks, P!ListFiles(h) \/ P!ReadToList(h)
      PROVE  UNCHANGED <<stage, listed>> /\ missable \subseteq missable'
  BY <1>4a DEF P!ListFiles, P!ListPage, P!ReadToList
<1>5. \/ UNCHANGED <<stage, listed>> /\ missable \subseteq missable'
      \/ \E h \in Clerks : P!ListFiles(h) \/ P!ReadToList(h)
      \/ \E f \in LearnerFiles : P!CreateFile(f) \/ P!Index(f) \/ \E to \in P!StageNames : P!MoveFile(f, to)
  BY DEF P!Next, P!Handle, P!Change, P!Journal, P!Begin, P!ReadToPut, P!PutCard, P!NothingToDo,
         P!EraseBare, P!Record, P!RecordFails, P!GiveUp, P!ReadItem, P!CloseRappel, P!DeleteRow, P!DeleteObject,
         P!AddItem, P!DeleteItem, P!AttachPiece, P!PreparePiece, P!Upload, P!Goto, P!End, P!vars, P!contact, P!suivi
<1>6. ASSUME NEW f \in LearnerFiles, P!CreateFile(f)
      PROVE  /\ stage' \in [LearnerFiles -> P!StageNames \cup {None}] /\ listed' \in [LearnerFiles -> P!StageNames \cup {None}]
             /\ missable \subseteq missable'
             /\ \A g \in LearnerFiles \ missable' : stage'[g] = stage[g]
             /\ \A g \in LearnerFiles : stage[g] # None => stage'[g] # None
             /\ \A g \in LearnerFiles : listed[g] = stage[g] => listed'[g] = stage'[g] \/ g \in missable'
  BY <1>2, <1>6 DEF TypeInv, P!PeopleConstants
<1>7. ASSUME NEW f \in LearnerFiles, NEW to \in P!StageNames, P!MoveFile(f, to)
      PROVE  /\ stage' \in [LearnerFiles -> P!StageNames \cup {None}] /\ listed' \in [LearnerFiles -> P!StageNames \cup {None}]
             /\ missable \subseteq missable'
             /\ \A g \in LearnerFiles : stage'[g] # None <=> stage[g] # None
             /\ P!Erasing # {} => \A g \in LearnerFiles \ missable' : stage'[g] = stage[g] /\ listed'[g] = listed[g]
  BY <1>3, <1>7 DEF TypeInv, P!PeopleConstants
<1>8. ASSUME NEW f \in LearnerFiles, P!Index(f)
      PROVE  /\ stage' = stage /\ listed' \in [LearnerFiles -> P!StageNames \cup {None}] /\ missable' = missable
             /\ \A g \in LearnerFiles : listed[g] = stage[g] => listed'[g] = stage'[g]
  BY <1>4, <1>8 DEF TypeInv
<1> QED BY <1>1, <1>5, <1>6, <1>7, <1>8, <1>4a DEF TypeInv

\* What a step may do to the rows and to the keys.
LEMMA RowsStay ==
    ASSUME P!PeopleConstants, TypeInv, JobsInv, [P!Next]_P!vars
    PROVE  /\ items' \in [Items -> P!Rows \cup {None}] /\ used \subseteq used'
           /\ \A i \in Items \cap used : Gone(i) => Gone(i)'
           /\ \A i \in Items : items'[i] = items[i] \/ items'[i] = None
                 \/ (i \in used' /\ (items'[i].kind = "piece" => items'[i].key \in Keys))
<1>1. CASE UNCHANGED <<items, used>>
  BY <1>1 DEF TypeInv, Gone
<1>2. ASSUME NEW i \in Items, NEW row \in P!Rows, i \notin used, items' = [items EXCEPT ![i] = row],
             used' = used \cup {i}, row.kind = "piece" => row.key \in Keys
      PROVE  /\ items' \in [Items -> P!Rows \cup {None}] /\ used \subseteq used'
             /\ \A g \in Items \cap used : Gone(g) => Gone(g)'
             /\ \A g \in Items : items'[g] = items[g] \/
                  (g \in used' /\ (items'[g].kind = "piece" => items'[g].key \in Keys))
  BY <1>2 DEF TypeInv, Gone
<1>3. ASSUME NEW i \in Items, items' = [items EXCEPT ![i] = None], used' = used
      PROVE  /\ items' \in [Items -> P!Rows \cup {None}] /\ used \subseteq used'
             /\ \A g \in Items \cap used : Gone(g) => Gone(g)'
             /\ \A g \in Items : items'[g] = items[g] \/ items'[g] = None
  BY <1>3 DEF TypeInv, Gone
<1>4. ASSUME NEW i \in Items, NEW row \in P!Rows, row.kind = "rappel", i \in used,
             items' = [items EXCEPT ![i] = row], used' = used
      PROVE  /\ items' \in [Items -> P!Rows \cup {None}] /\ used \subseteq used'
             /\ \A g \in Items \cap used : Gone(g) => Gone(g)'
             /\ \A g \in Items : items'[g] = items[g] \/ (g \in used' /\ items'[g].kind # "piece")
  BY <1>4 DEF TypeInv, Gone
<1>5. ASSUME NEW i \in Items, NEW kind \in {"note", "rappel"}, P!AddItem(i, kind)
      PROVE  /\ P!Item(kind, None) \in P!Rows /\ i \notin used /\ items' = [items EXCEPT ![i] = P!Item(kind, None)]
             /\ used' = used \cup {i} /\ P!Item(kind, None).kind # "piece"
  BY <1>5 DEF P!AddItem, P!Item, P!Rows
<1>6. ASSUME NEW i \in Items, NEW key \in Keys, P!AttachPiece(i, key)
      PROVE  /\ P!Item("piece", key) \in P!Rows /\ i \notin used /\ items' = [items EXCEPT ![i] = P!Item("piece", key)]
             /\ used' = used \cup {i} /\ P!Item("piece", key).key \in Keys
  BY <1>6 DEF P!AttachPiece, P!Item, P!Rows
<1>7. ASSUME NEW h \in Clerks, NEW done \in BOOLEAN, P!CloseRappel(h, done)
      PROVE  \E i \in Items, row \in P!Rows : /\ row.kind = "rappel" /\ i \in used
                                           /\ items' = [items EXCEPT ![i] = row] /\ used' = used
  <2>1. PICK copy \in P!Rows : copy = clerk[h].copy /\ copy.kind = "rappel"
    BY <1>7 DEF P!CloseRappel, JobsInv, JobOK, RowOK
  <2>2. PICK row : row = [copy EXCEPT !.done = done]
    OBVIOUS
  <2>3. row \in P!Rows /\ row.kind = "rappel"
    BY <2>1, <2>2 DEF P!Rows
  <2>4. clerk[h].item \in Items \cap used /\ items' = [items EXCEPT ![clerk[h].item] = row] /\ used' = used
    BY <1>7, <2>1, <2>2 DEF P!CloseRappel, JobsInv, JobOK, RowOK
  <2> QED BY <2>3, <2>4
<1>8. ASSUME NEW h \in Clerks, P!DeleteRow(h)
      PROVE  \E i \in Items : items' = [items EXCEPT ![i] = None] /\ used' = used
  BY <1>8 DEF P!DeleteRow, JobsInv, JobOK, RowOK
<1>9. ASSUME NEW key \in Keys, P!PreparePiece(key) \/ P!Upload(key)
      PROVE  items' = items /\ used \subseteq used'
  BY <1>9 DEF P!PreparePiece, P!Upload
<1>10. \/ UNCHANGED <<items, used>>
       \/ \E i \in Items : \/ \E kind \in {"note", "rappel"} : P!AddItem(i, kind)
                           \/ P!DeleteItem(i)
                           \/ \E key \in Keys : P!AttachPiece(i, key)
       \/ \E h \in Clerks : P!DeleteRow(h) \/ \E done \in BOOLEAN : P!CloseRappel(h, done)
       \/ \E key \in Keys : P!PreparePiece(key) \/ P!Upload(key)
  BY DEF P!Next, P!Handle, P!Change, P!Journal, P!Begin, P!ReadToPut, P!PutCard, P!NothingToDo, P!ReadToList, P!ListFiles, P!ListPage,
         P!EraseBare, P!Record, P!RecordFails, P!GiveUp, P!ReadItem, P!DeleteObject, P!CreateFile, P!Index, P!MoveFile,
         P!Goto, P!End, P!vars, P!contact, P!suivi
<1>11. ASSUME NEW i \in Items, P!DeleteItem(i)
       PROVE  items' = [items EXCEPT ![i] = None] /\ used' = used
  BY <1>11 DEF P!DeleteItem
<1>12. CASE \E key \in Keys : P!PreparePiece(key) \/ P!Upload(key)
  BY <1>9, <1>12 DEF TypeInv, Gone
<1>13. CASE \E i \in Items : \/ \E kind \in {"note", "rappel"} : P!AddItem(i, kind)
                           \/ \E key \in Keys : P!AttachPiece(i, key)
  BY <1>2, <1>5, <1>6, <1>13
<1>14. CASE (\E i \in Items : P!DeleteItem(i)) \/ (\E h \in Clerks : P!DeleteRow(h))
  BY <1>3, <1>8, <1>11, <1>14
<1>15. CASE \E h \in Clerks : \E done \in BOOLEAN : P!CloseRappel(h, done)
  BY <1>4, <1>7, <1>15
<1> QED BY <1>1, <1>10, <1>12, <1>13, <1>14, <1>15

-----------------------------------------------------------------------------
(* The handlers keep their invariant *)

LEMMA JobStays ==
    ASSUME P!PeopleConstants, TypeInv, JobsInv, [P!Next]_P!vars, NEW h \in Clerks, NEW j \in Jobs, j = clerk[h]
    PROVE  JobOK(h, j)'
<1>1. JobOK(h, j)
  BY DEF JobsInv
<1>2. Faithful(j.copy) => Faithful(j.copy)'
  BY WritesStay DEF Faithful
<1>3. j.kind = "erase" => Listing(h, j)'
  <2> SUFFICES ASSUME j.kind = "erase", Listing(h, j) PROVE Listing(h, j)'
    BY <1>1 DEF JobOK
  <2>1. ASSUME j.pc = "list"
        PROVE  \A f \in LearnerFiles \ missable' :
                  /\ listed'[f] = stage'[f]
                  /\ \A k \in 1 .. j.at - 1 : stage'[f] = StageOrder[k] => j.todo[f] > 0
    <3>1. P!Erasing # {}
      BY <2>1 DEF P!Erasing
    <3>2. \A f \in LearnerFiles \ missable : /\ listed[f] = stage[f]
                                     /\ \A k \in 1 .. j.at - 1 : stage[f] = StageOrder[k] => j.todo[f] > 0
      BY <2>1 DEF Listing
    <3> QED BY <3>1, <3>2, FilesStay
  <2>2. j.pc = "record" => \A f \in LearnerFiles \ missable' : stage'[f] # None => j.todo[f] > 0 \/ P!Explains(f, h)'
    BY FilesStay, JournalStays DEF Listing
  <2>3. j.pc = "bare" => \A f \in LearnerFiles \ missable' : stage'[f] = None
    BY FilesStay DEF Listing
  <2>4. j.pc = "ok" /\ j.wrote => \A f \in LearnerFiles \ missable' : stage'[f] # None => P!Explains(f, h)'
    BY FilesStay, JournalStays DEF Listing
  <2> QED BY <2>1, <2>2, <2>3, <2>4 DEF Listing
<1>4. RowOK(j)'
  BY <1>1, RowsStay DEF JobOK, RowOK
<1> QED BY <1>1, <1>2, <1>3, <1>4 DEF JobOK

LEMMA BeginKeeps ==
    ASSUME P!PeopleConstants, TypeInv, JobsInv, NEW h \in Clerks,
           NEW kind \in CardKinds \cup {"close", "remove"}, P!Begin(h, kind)
    PROVE  \E j : Becomes(h, j) /\ JobOK(h, j)'
<1>1. PICK j : /\ Becomes(h, j) /\ j.kind = kind /\ j.at = 1 /\ ~ j.wrote
               /\ j.pc = "read" \/ (j.pc = "list" /\ kind = "access")
  BY BeginMoves
<1>2. 1 \in 1 .. Len(StageOrder)
  BY DEF P!PeopleConstants
<1>3. j.kind = "erase" => Listing(h, j)'
  BY <1>1 DEF Listing
<1>4. RowOK(j)'
  BY <1>1 DEF RowOK
<1> QED BY <1>1, <1>2, <1>3, <1>4 DEF JobOK, CardKinds

LEMMA EndKeeps ==
    ASSUME P!PeopleConstants, TypeInv, JobsInv, [P!Next]_P!vars, NEW h \in Clerks,
           \/ P!NothingToDo(h) \/ P!PutCard(h) \/ P!GiveUp(h) \/ P!DeleteRow(h) \/ P!DeleteObject(h)
           \/ \E done \in BOOLEAN : P!CloseRappel(h, done)
    PROVE  \E j : Becomes(h, j) /\ JobOK(h, j)'
<1>1. PICK old \in Jobs : old = clerk[h]
  BY DEF TypeInv
<1>2. JobOK(h, old)' /\ JobOK(h, old)
  BY <1>1, JobStays DEF JobsInv
<1>3. PICK pc \in {"ok", "failed", "list", "object"} :
        /\ P!End(h, pc)
        /\ \/ pc = "failed"
           \/ old.pc = "read" /\ pc = "ok" /\ old.kind \in {"erase", "detach"}
           \/ old.pc = "put" /\ pc = "ok"
           \/ old.pc = "put" /\ pc = "list" /\ old.kind \in {"attach", "detach"}
           \/ old.pc = "close" /\ pc = "ok"
           \/ old.pc = "remove" /\ pc = "object" /\ items' = [items EXCEPT ![old.item] = None]
           \/ old.pc = "object" /\ pc = "ok"
  BY <1>1 DEF P!NothingToDo, P!PutCard, P!GiveUp, P!DeleteRow, P!DeleteObject, P!CloseRappel
<1>4. old.pc # "ok"
  BY <1>1, <1>3 DEF P!GiveUp, P!NothingToDo, P!PutCard, P!DeleteRow, P!DeleteObject, P!CloseRappel
<1>5. PICK j : Becomes(h, j) /\ j.pc = pc /\ Same(j, old)
  BY <1>1, <1>3, <1>4, EndMoves
<1>6. /\ j.kind = old.kind /\ j.copy = old.copy /\ j.at = old.at /\ j.todo = old.todo
      /\ j.wrote = old.wrote /\ j.item = old.item /\ j.pc = pc
  BY <1>5 DEF Same
<1>7. j.kind = "erase" => Listing(h, j)'
  BY <1>2, <1>3, <1>6 DEF Listing, JobOK
<1>8. RowOK(j)'
  <2>1. ASSUME old.pc = "remove", pc = "object", items' = [items EXCEPT ![old.item] = None]
        PROVE  Gone(old.item)'
    <3>1. old.item \in Items
      BY <1>2, <2>1 DEF JobOK, RowOK
    <3> QED BY <2>1, <3>1 DEF Gone, TypeInv
  <2>2. ASSUME pc \in {"object", "ok"}, old.kind = "remove"
        PROVE  /\ old.item \in Items \cap used' /\ old.copy \in P!Rows /\ old.copy.kind = "piece"
               /\ Gone(old.item)'
    <3>1. old.pc \in {"remove", "object"}
      BY <1>2, <1>3, <2>2 DEF JobOK
    <3> QED BY <1>2, <1>3, <2>1, <2>2, <3>1 DEF JobOK, RowOK
  <2> QED BY <1>6, <2>2 DEF RowOK
<1>9. pc = "list" => 1 \in 1 .. Len(StageOrder)
  BY DEF P!PeopleConstants
<1> QED BY <1>2, <1>3, <1>5, <1>6, <1>7, <1>8, <1>9 DEF JobOK, CardKinds

LEMMA ReadToPutKeeps ==
    ASSUME P!PeopleConstants, TypeInv, JobsInv, CardInv, [P!Next]_P!vars, NEW h \in Clerks, P!ReadToPut(h)
    PROVE  \E j : Becomes(h, j) /\ JobOK(h, j)'
<1>1. PICK old \in Jobs : old = clerk[h] /\ JobOK(h, old) /\ old.pc = "read"
  BY DEF TypeInv, JobsInv, P!ReadToPut
<1>2. PICK c \in Cards : c = card /\ Faithful(c)
  BY DEF CardInv, Faithful
<1>3. PICK j : /\ Becomes(h, j) /\ j.pc = "put" /\ j.copy = c /\ j.kind = old.kind /\ j.wrote = old.wrote
               /\ j.at = old.at /\ j.kind \in {"update", "attach", "detach"}
               /\ j.kind = "update" => ~ c.anonymized
  BY <1>1, <1>2, ReadToPutMoves
<1>4. Faithful(j.copy)'
  <2>1. Faithful(c)'
    BY <1>2, WritesStay DEF Faithful
  <2> QED BY <1>3, <2>1 DEF Faithful
<1>5. RowOK(j)'
  BY <1>3 DEF RowOK
<1> QED BY <1>1, <1>3, <1>4, <1>5 DEF JobOK, CardKinds

LEMMA ReadToListKeeps ==
    ASSUME P!PeopleConstants, TypeInv, JobsInv, [P!Next]_P!vars, NEW h \in Clerks, P!ReadToList(h)
    PROVE  \E j : Becomes(h, j) /\ JobOK(h, j)'
<1>1. PICK old \in Jobs : old = clerk[h] /\ JobOK(h, old) /\ old.pc = "read"
  BY DEF TypeInv, JobsInv, P!ReadToList
<1>2. PICK j : /\ Becomes(h, j) /\ j.pc = "list" /\ j.copy = card /\ j.kind = old.kind
               /\ j.at = old.at /\ j.wrote = old.wrote /\ j.kind \in {"look", "erase"}
  BY <1>1, ReadToListMoves
<1>3. j.at = 1 /\ 1 \in 1 .. Len(StageOrder)
  BY <1>1, <1>2 DEF JobOK, P!PeopleConstants
<1>4. j.kind = "erase" => \A f \in LearnerFiles \ missable' : listed'[f] = stage'[f]
  BY <1>1, <1>2 DEF P!ReadToList
<1>5. j.kind = "erase" => Listing(h, j)'
  <2>1. \A k \in 1 .. j.at - 1 : FALSE
    BY <1>3
  <2> QED BY <1>2, <1>4, <2>1 DEF Listing
<1>6. RowOK(j)'
  BY <1>2 DEF RowOK
<1> QED BY <1>1, <1>2, <1>3, <1>5, <1>6 DEF JobOK, CardKinds

LEMMA ListKeeps ==
    ASSUME P!PeopleConstants, TypeInv, JobsInv, [P!Next]_P!vars, NEW h \in Clerks, P!ListFiles(h)
    PROVE  \E j : Becomes(h, j) /\ JobOK(h, j)'
<1>0. PICK page \in SUBSET LearnerFiles : P!ListPage(h, page)
  BY DEF P!ListFiles
<1>1. PICK old \in Jobs : old = clerk[h] /\ JobOK(h, old) /\ old.pc = "list"
  BY <1>0 DEF TypeInv, JobsInv, P!ListPage
<1>2. PICK j : /\ Becomes(h, j) /\ j.copy = old.copy /\ j.kind = old.kind /\ j.wrote = old.wrote
               /\ j.at = old.at + 1
               /\ \A f \in LearnerFiles : j.todo[f] >= old.todo[f]
               /\ \A f \in page : j.todo[f] > 0
               /\ \/ j.pc = "list" /\ old.at < Len(StageOrder)
                  \/ j.pc = "record" /\ ~ (old.at < Len(StageOrder))
                  \/ /\ j.pc = "bare" /\ ~ (old.at < Len(StageOrder)) /\ j.kind = "erase"
                     /\ \A f \in LearnerFiles : j.todo[f] = 0
                  \/ j.pc = "ok" /\ j.kind # "erase"
  BY <1>0, <1>1, ListMoves
<1>3. /\ old.at \in 1 .. Len(StageOrder) /\ Len(StageOrder) \in Nat /\ DOMAIN StageOrder = 1 .. Len(StageOrder)
      /\ old.kind \in CardKinds /\ ~ old.wrote
  BY <1>1 DEF JobOK, P!PeopleConstants
<1>4. /\ stage' = stage /\ listed' = listed /\ missable \subseteq missable'
      /\ old.kind = "erase" => \A f \in LearnerFiles \ missable' : listed[f] = StageOrder[old.at] => f \in page
  BY <1>0, <1>1 DEF P!ListPage, P!Listed, P!ListedStages
<1>5. ASSUME j.kind = "erase", NEW f \in LearnerFiles \ missable'
      PROVE  /\ listed[f] = stage[f]
             /\ \A k \in 1 .. old.at : stage[f] = StageOrder[k] => j.todo[f] > 0
  <2>1. /\ listed[f] = stage[f]
        /\ \A k \in 1 .. old.at - 1 : stage[f] = StageOrder[k] => old.todo[f] > 0
    BY <1>1, <1>2, <1>4, <1>5 DEF JobOK, Listing
  <2>2. old.todo[f] \in Nat /\ j.todo[f] \in Nat
    BY <1>2 DEF Jobs, Becomes
  <2>3. ASSUME NEW k \in 1 .. old.at, stage[f] = StageOrder[k]
        PROVE  j.todo[f] > 0
    <3>1. CASE k = old.at
      BY <1>2, <1>4, <1>5, <2>1, <2>3, <3>1
    <3>2. CASE k # old.at
      <4>1. old.todo[f] > 0
        BY <1>3, <2>1, <2>3, <3>2
      <4> QED BY <1>2, <2>2, <4>1
    <3> QED BY <3>1, <3>2
  <2> QED BY <2>1, <2>3
<1>6. ASSUME j.kind = "erase", NEW f \in LearnerFiles \ missable', stage[f] # None, ~ (old.at < Len(StageOrder))
      PROVE  j.todo[f] > 0
  <2>1. PICK k \in 1 .. Len(StageOrder) : stage[f] = StageOrder[k]
    BY <1>3, <1>6 DEF TypeInv, P!StageNames
  <2>2. k \in 1 .. old.at
    BY <1>3, <1>6, <2>1
  <2> QED BY <1>5, <1>6, <2>1, <2>2
<1>7. j.kind = "erase" => Listing(h, j)'
  <2>1. ASSUME j.kind = "erase", j.pc = "list", NEW f \in LearnerFiles \ missable'
        PROVE  /\ listed[f] = stage[f]
               /\ \A k \in 1 .. j.at - 1 : stage[f] = StageOrder[k] => j.todo[f] > 0
    <3>1. j.at - 1 = old.at
      BY <1>2, <1>3
    <3> QED BY <1>5, <2>1, <3>1
  <2>2. ASSUME j.kind = "erase", j.pc = "record", NEW f \in LearnerFiles \ missable', stage[f] # None
        PROVE  j.todo[f] > 0
    BY <1>2, <1>6, <2>2
  <2>3. ASSUME j.kind = "erase", j.pc = "bare", NEW f \in LearnerFiles \ missable'
        PROVE  stage[f] = None
    BY <1>2, <1>6, <2>3
  <2> QED BY <1>2, <1>4, <2>1, <2>2, <2>3 DEF Listing
<1>8. RowOK(j)'
  BY <1>2, <1>3 DEF RowOK, CardKinds
<1>9. j.pc = "list" => j.at \in 1 .. Len(StageOrder)
  BY <1>2, <1>3
<1> QED BY <1>2, <1>3, <1>7, <1>8, <1>9 DEF JobOK, CardKinds

LEMMA BareKeeps ==
    ASSUME P!PeopleConstants, TypeInv, JobsInv, [P!Next]_P!vars, NEW h \in Clerks, P!EraseBare(h)
    PROVE  \E j : Becomes(h, j) /\ JobOK(h, j)'
<1>1. PICK old \in Jobs : old = clerk[h] /\ JobOK(h, old) /\ old.pc = "bare"
  BY DEF TypeInv, JobsInv, P!EraseBare
<1>2. PICK j : Becomes(h, j) /\ j.pc = "ok" /\ j.wrote /\ j.kind = old.kind
  BY <1>1, BareMoves
<1>3. stage' = stage /\ missable' = missable
  BY DEF P!EraseBare
<1>4. j.kind = "erase" => Listing(h, j)'
  BY <1>1, <1>2, <1>3 DEF JobOK, Listing
<1>5. RowOK(j)'
  BY <1>1, <1>2 DEF RowOK, JobOK, CardKinds
<1> QED BY <1>2, <1>4, <1>5 DEF JobOK

LEMMA PastKeeps ==
    ASSUME P!PeopleConstants, TypeInv, JobsInv, [P!Next]_P!vars, NEW h \in Clerks, NEW f \in LearnerFiles,
           P!Record(h, f) \/ P!RecordFails(h, f)
    PROVE  \E j : Becomes(h, j) /\ JobOK(h, j)'
<1>1. PICK old \in Jobs : old = clerk[h] /\ JobOK(h, old) /\ old.pc = "record"
  BY DEF TypeInv, JobsInv, P!Record, P!RecordFails
<1>2. PICK j : /\ Becomes(h, j) /\ j.kind = old.kind /\ j.copy = old.copy
               /\ \A g \in LearnerFiles : g # f => j.todo[g] = old.todo[g]
               /\ j.wrote <=> old.wrote \/ old.kind = "erase"
               /\ \/ j.pc = "record"
                  \/ j.pc = "ok" /\ \A g \in LearnerFiles : j.todo[g] = 0
  BY <1>1, PastMoves
<1>3. stage' = stage /\ missable' = missable
  BY DEF P!Record, P!RecordFails, P!contact
<1>4. old.kind \in CardKinds
  BY <1>1 DEF JobOK
<1>5. ASSUME j.kind = "erase" PROVE P!Explains(f, h)'
  <2>1. P!Record(h, f)
    BY <1>1, <1>2, <1>5 DEF P!RecordFails
  <2>2. Notes(f, "erase", h)
    BY <1>1, <1>2, <1>5, <2>1 DEF P!Record, Notes
  <2> QED BY <2>2, NotesExplain DEF CardKinds
<1>6. j.kind = "erase" => Listing(h, j)'
  <2>1. ASSUME j.kind = "erase", NEW g \in LearnerFiles \ missable, stage[g] # None
        PROVE  j.todo[g] > 0 \/ P!Explains(g, h)'
    BY <1>1, <1>2, <1>5, <2>1, JournalStays DEF JobOK, Listing
  <2> QED BY <1>2, <1>3, <2>1 DEF Listing
<1>7. RowOK(j)'
  BY <1>2, <1>4 DEF RowOK, CardKinds
<1> QED BY <1>2, <1>4, <1>6, <1>7 DEF JobOK

LEMMA ReadItemKeeps ==
    ASSUME P!PeopleConstants, TypeInv, JobsInv, PiecesInv, [P!Next]_P!vars, NEW h \in Clerks, NEW i \in Items,
           P!ReadItem(h, i)
    PROVE  \E j : Becomes(h, j) /\ JobOK(h, j)'
<1>1. PICK old \in Jobs : old = clerk[h]
  BY DEF TypeInv
<1>2. PICK j : /\ Becomes(h, j) /\ j.pc = j.kind /\ j.kind = old.kind /\ j.wrote = old.wrote
               /\ j.kind \in {"close", "remove"} /\ j.item = i /\ j.copy = items[i] /\ items[i] # None
               /\ items[i].kind = IF j.kind = "close" THEN "rappel" ELSE "piece"
  BY <1>1, ReadItemMoves
<1>3. i \in used /\ used \subseteq used' /\ items[i] \in P!Rows
  BY <1>2, RowsStay DEF PiecesInv, TypeInv
<1>4. RowOK(j)'
  BY <1>2, <1>3 DEF RowOK
<1> QED BY <1>2, <1>4 DEF JobOK

LEMMA JobsStep ==
    ASSUME P!PeopleConstants, TypeInv, JobsInv, CardInv, PiecesInv, [P!Next]_P!vars
    PROVE  JobsInv'
<1>1. \A h \in Clerks : \A j : j = clerk[h] => JobOK(h, j)'
  BY JobStays DEF TypeInv
<1>2. CASE clerk' = clerk
  BY <1>1, <1>2 DEF JobsInv
<1>3. ASSUME NEW h \in Clerks, NEW j, Becomes(h, j), JobOK(h, j)'
      PROVE  JobsInv'
  BY <1>1, <1>3 DEF JobsInv, Becomes, TypeInv
<1>4. \/ clerk' = clerk
      \/ \E h \in Clerks :
            \/ P!NothingToDo(h) \/ P!PutCard(h) \/ P!GiveUp(h) \/ P!DeleteRow(h) \/ P!DeleteObject(h)
            \/ \E done \in BOOLEAN : P!CloseRappel(h, done)
            \/ \E kind \in CardKinds \cup {"close", "remove"} : P!Begin(h, kind)
            \/ \E f \in LearnerFiles : P!Record(h, f) \/ P!RecordFails(h, f)
            \/ P!ReadToPut(h) \/ P!ReadToList(h) \/ P!ListFiles(h) \/ P!EraseBare(h)
            \/ \E i \in Items : P!ReadItem(h, i)
  BY DEF P!Next, P!Handle, P!Change, P!Journal, P!CreateFile, P!Index, P!MoveFile, P!AddItem, P!DeleteItem, P!AttachPiece,
         P!PreparePiece, P!Upload, P!vars, CardKinds
<1>5. clerk' = clerk \/ \E h \in Clerks : \E j : Becomes(h, j) /\ JobOK(h, j)'
  BY <1>4, BeginKeeps, EndKeeps, ReadToPutKeeps, ReadToListKeeps, ListKeeps, BareKeeps, PastKeeps,
     ReadItemKeeps
<1> QED BY <1>2, <1>3, <1>5

-----------------------------------------------------------------------------
(* The card, the chains and the keys *)

\* Which steps write the card.
LEMMA CardMoves ==
    ASSUME TypeInv, [P!Next]_P!vars
    PROVE  card' = card \/ \E h \in Clerks : \/ P!PutCard(h) \/ P!EraseBare(h)
                                               \/ \E f \in LearnerFiles : /\ P!Record(h, f) /\ clerk[h].kind = "erase"
                                                                  /\ ~ clerk[h].wrote
                                                                  /\ card' = P!Erased(clerk[h].copy)
BY DEF P!Next, P!Handle, P!Change, P!Journal, P!Begin, P!ReadToPut, P!NothingToDo, P!ReadToList, P!ListFiles, P!ListPage, P!Record,
       P!RecordFails, P!GiveUp, P!ReadItem, P!CloseRappel, P!DeleteRow, P!DeleteObject, P!CreateFile, P!Index, P!MoveFile,
       P!AddItem, P!DeleteItem, P!AttachPiece, P!PreparePiece, P!Upload, P!vars, P!contact

LEMMA CardStep ==
    ASSUME P!PeopleConstants, TypeInv, JobsInv, CardInv, [P!Next]_P!vars
    PROVE  CardInv'
<1>1. CASE card' = card
  BY <1>1, WritesStay DEF CardInv, Faithful
<1>2. ASSUME NEW h \in Clerks, card' = P!Erased(clerk[h].copy), NEW j, Becomes(h, j), j.wrote
      PROVE  CardInv'
  <2>1. clerk'[h].wrote
    BY <1>2 DEF Becomes, TypeInv
  <2> QED BY <1>2, <2>1 DEF CardInv, Cards, Faithful, SomeWrote, P!Erased, P!Fields
<1>3. ASSUME NEW h \in Clerks, P!EraseBare(h) PROVE CardInv'
  BY <1>2, <1>3, BareMoves DEF P!EraseBare
<1>4. ASSUME NEW h \in Clerks, NEW f \in LearnerFiles, P!Record(h, f), clerk[h].kind = "erase",
             card' = P!Erased(clerk[h].copy)
      PROVE  CardInv'
  BY <1>2, <1>4, PastMoves
<1>5. ASSUME NEW h \in Clerks, P!PutCard(h) PROVE CardInv'
  <2>1. PICK c \in Cards : /\ c = clerk[h].copy /\ Faithful(c) /\ (clerk[h].kind = "update" => ~ c.anonymized)
    BY <1>5 DEF P!PutCard, JobsInv, JobOK, Faithful
  <2>2. Faithful(c)'
    BY <2>1, WritesStay DEF Faithful
  <2>3. ASSUME NEW data \in SUBSET P!Fields, "name" \in data, card' = P!Corrected(c, data), ~ c.anonymized
        PROVE  CardInv'
    <3>1. card' \in Cards /\ card'.data = data /\ ~ card'.anonymized
      BY <2>3 DEF P!Corrected, Cards
    <3>2. data # {}
      BY <2>3
    <3> QED BY <3>1, <3>2 DEF CardInv, Faithful
  <2>4. ASSUME NEW doc \in BOOLEAN, card' = [c EXCEPT !.doc = doc]
        PROVE  CardInv'
    <3>1. card' \in Cards /\ card'.data = c.data /\ card'.anonymized = c.anonymized
      BY <2>4 DEF Cards
    <3> QED BY <2>2, <3>1 DEF CardInv, Faithful
  <2> QED BY <1>5, <2>1, <2>3, <2>4 DEF P!PutCard
<1> QED BY <1>1, <1>3, <1>4, <1>5, CardMoves

LEMMA JournalStep ==
    ASSUME P!PeopleConstants, TypeInv, JobsInv, JournalInv, [P!Next]_P!vars
    PROVE  JournalInv'
<1> SUFFICES ASSUME NEW f \in LearnerFiles, NEW h \in Clerks, P!Explains(f, h)'
             PROVE  clerk'[h].wrote
  BY DEF JournalInv
<1>1. CASE P!Explains(f, h)
  BY <1>1, WritesStay DEF JournalInv
<1>2. ASSUME P!Record(h, f), clerk[h].kind = "erase"
      PROVE  clerk'[h].wrote
  <2>1. PICK j : Becomes(h, j) /\ j.wrote
    BY <1>2, PastMoves
  <2> QED BY <2>1 DEF Becomes, TypeInv
<1>3. CASE events' = events
  BY <1>1, <1>3 DEF P!Explains
<1>4. ASSUME NEW g \in LearnerFiles, NEW x \in Clerks, NEW kind \in CardKinds, P!Record(x, g), kind = clerk[x].kind,
             Notes(g, kind, x), ~ P!Explains(f, h)
      PROVE  P!Record(h, f) /\ clerk[h].kind = "erase"
  BY <1>4, NotesExplain
<1> QED BY <1>1, <1>2, <1>3, <1>4, JournalMoves

LEMMA KeysMove ==
    ASSUME TypeInv, [P!Next]_P!vars
    PROVE  \/ objects \subseteq objects' /\ uploaded' = uploaded
           \/ \E key \in Keys : objects' = objects \cup {key} /\ uploaded' = uploaded \cup {key}
           \/ \E h \in Clerks : P!DeleteObject(h) /\ uploaded' = uploaded
BY DEF P!Next, P!Handle, P!Change, P!Journal, P!Begin, P!ReadToPut, P!NothingToDo, P!ReadToList, P!ListFiles, P!ListPage, P!Record, P!PutCard,
       P!EraseBare, P!RecordFails, P!GiveUp, P!ReadItem, P!CloseRappel, P!DeleteRow, P!DeleteObject, P!CreateFile, P!Index,
       P!MoveFile, P!AddItem, P!DeleteItem, P!AttachPiece, P!PreparePiece, P!Upload, P!vars, P!suivi

LEMMA PiecesStep ==
    ASSUME P!PeopleConstants, TypeInv, JobsInv, PiecesInv, [P!Next]_P!vars
    PROVE  PiecesInv'
<1>1. ASSUME NEW i \in Items, items'[i] # None
      PROVE  i \in used' /\ (items'[i].kind = "piece" => items'[i].key \in Keys)
  BY <1>1, RowsStay DEF PiecesInv
<1>2. ASSUME NEW key \in Keys \cap uploaded'
      PROVE  key \in objects' \/ \E h \in Clerks : Removed(h, key)'
  <2>1. CASE objects \subseteq objects' /\ uploaded' = uploaded
    BY <2>1, WritesStay DEF PiecesInv
  <2>2. CASE \E k \in Keys : objects' = objects \cup {k} /\ uploaded' = uploaded \cup {k}
    BY <2>2, WritesStay DEF PiecesInv
  <2>3. ASSUME NEW h \in Clerks, P!DeleteObject(h), uploaded' = uploaded
        PROVE  key \in objects' \/ \E g \in Clerks : Removed(g, key)'
    <3>1. CASE key = clerk[h].copy.key
      <4>1. PICK old : old = clerk[h]
        OBVIOUS
      <4>2. PICK j : Becomes(h, j) /\ j.pc = "ok" /\ Same(j, old)
        BY <2>3, <4>1, EndMoves DEF P!DeleteObject
      <4>3. clerk'[h] = j /\ old.kind = "remove"
        BY <2>3, <4>1, <4>2 DEF Becomes, TypeInv, P!DeleteObject, JobsInv, JobOK
      <4> QED BY <3>1, <4>1, <4>2, <4>3 DEF Removed, Same
    <3>2. CASE key # clerk[h].copy.key
      BY <2>3, <3>2, WritesStay DEF P!DeleteObject, PiecesInv
    <3> QED BY <3>1, <3>2
  <2> QED BY <2>1, <2>2, <2>3, KeysMove
<1> QED BY <1>1, <1>2 DEF PiecesInv

-----------------------------------------------------------------------------
(* The invariant *)

LEMMA InvInit == ASSUME P!PeopleConstants PROVE P!Init => Inv
<1> SUFFICES ASSUME P!Init PROVE Inv
  OBVIOUS
<1>1. P!Idle \in Jobs /\ P!Idle.pc = "idle" /\ P!Idle.wrote = FALSE /\ P!Idle.kind = "look"
  BY DEF P!Idle, Jobs, CardKinds
<1>2. TypeInv
  <2>1. <<>> \in Seq(Entries)
    OBVIOUS
  <2>2. card \in Cards
    BY DEF P!Init, Cards
  <2> QED BY <1>1, <2>1, <2>2 DEF P!Init, TypeInv
<1>3. CardInv
  <2>1. card.data = P!Fields /\ ~ card.anonymized /\ "name" \in P!Fields
    BY DEF P!Init, P!Fields
  <2> QED BY <1>2, <2>1 DEF CardInv, Faithful, TypeInv
<1>4. JobsInv
  BY <1>1 DEF P!Init, JobsInv, JobOK, RowOK
<1>5. JournalInv
  BY DEF P!Init, JournalInv, P!Explains
<1>6. PiecesInv
  BY DEF P!Init, PiecesInv
<1> QED BY <1>2, <1>3, <1>4, <1>5, <1>6 DEF Inv

LEMMA InvStep == ASSUME P!PeopleConstants, Inv, [P!Next]_P!vars PROVE Inv'
<1>1. TypeInv'
  BY CardStep, FilesStay, JournalStays, RowsStay, WritesStay DEF Inv, TypeInv, CardInv
<1> QED BY <1>1, CardStep, JobsStep, JournalStep, PiecesStep DEF Inv

LEMMA InvAlways == ASSUME P!PeopleConstants PROVE P!Spec => []Inv
<1>1. Inv /\ [P!Next]_P!vars => Inv'
  BY InvStep
<1> QED BY <1>1, InvInit, PTL DEF P!Spec

-----------------------------------------------------------------------------
(* The theorems *)

\* An erasure that was carried through is explained in the chain of every file that stayed in
\* its place and was not past the page of its stage, none is explained that was not written,
\* and a card without its data was erased by a handler (crm/anonymize.go:75-110, 142-157).
THEOREM ErasuresAreExplained == ASSUME P!PeopleConstants PROVE P!Spec => []ErasureExplained
<1>1. Inv => ErasureExplained
  <2> SUFFICES ASSUME Inv PROVE P!ErasureExplained
    BY DEF ErasureExplained
  <2>1. ASSUME NEW h \in Clerks, clerk[h].kind = "erase", clerk[h].pc = "ok", clerk[h].wrote,
               NEW f \in LearnerFiles \ missable, stage[f] # None
        PROVE  P!Explains(f, h)
    BY <2>1 DEF Inv, JobsInv, JobOK, Listing
  <2>2. card.anonymized \/ card.data = {} => \E h \in Clerks : clerk[h].wrote
    BY DEF Inv, CardInv, Faithful, SomeWrote
  <2> QED BY <2>1, <2>2 DEF Inv, JournalInv, P!ErasureExplained
<1> QED BY <1>1, InvAlways, PTL

\* A piece whose file was deposited can be opened for as long as it is shown, unless another
\* piece attached under the same key was deleted (crm/suivi.go:253-283, 306-319).
THEOREM PiecesAlwaysOpen == ASSUME P!PeopleConstants PROVE P!Spec => []PiecesOpen
<1>1. Inv => PiecesOpen
  <2> SUFFICES ASSUME Inv, NEW i \in Items, items[i] # None, items[i].kind = "piece",
                      items[i].key \in uploaded \ objects
               PROVE  \E h \in Clerks : /\ clerk[h].kind = "remove" /\ clerk[h].pc = "ok" /\ clerk[h].item # i
                                         /\ clerk[h].copy.key = items[i].key
    BY DEF PiecesOpen, P!PiecesOpen
  <2>1. PICK h \in Clerks : Removed(h, items[i].key)
    BY DEF Inv, PiecesInv
  <2>2. Gone(clerk[h].item)
    BY <2>1 DEF Removed, Inv, JobsInv, JobOK, RowOK
  <2>3. clerk[h].item # i
    BY <2>2 DEF Gone
  <2> QED BY <2>1, <2>3 DEF Removed
<1> QED BY <1>1, InvAlways, PTL

LEMMA CardRestored ==
    ASSUME P!PeopleConstants, Inv, [P!Next]_P!vars, card.anonymized, ~ card'.anonymized \/ card'.data # {}
    PROVE  \E h \in Clerks : clerk[h].pc = "put" /\ clerk'[h].pc # "put" /\ ~ clerk[h].copy.anonymized
<1>1. card.data = {}
  BY DEF Inv, CardInv, Faithful
<1>2. PICK h \in Clerks : P!PutCard(h)
  <2>1. card' # card
    BY <1>1
  <2>2. ASSUME NEW g \in Clerks
        PROVE  ~ P!EraseBare(g)
    BY DEF P!EraseBare, P!Erased
  <2>3. ASSUME NEW c
        PROVE  card' # P!Erased(c)
    BY DEF P!Erased
  <2> QED BY <2>1, <2>2, <2>3, CardMoves DEF Inv
<1>3. PICK c \in Cards : c = clerk[h].copy /\ Faithful(c) /\ (clerk[h].kind = "update" => ~ c.anonymized)
  BY <1>2 DEF P!PutCard, Inv, JobsInv, JobOK
<1>4. clerk'[h].pc # "put" /\ clerk[h].pc = "put"
  BY <1>2 DEF P!PutCard, P!End, P!Goto, Inv, TypeInv, Jobs
<1>5. ~ c.anonymized
  <2>1. CASE clerk[h].kind = "update"
    BY <1>3, <2>1
  <2>2. CASE clerk[h].kind # "update"
    <3>1. PICK doc \in BOOLEAN : card' = [c EXCEPT !.doc = doc]
      BY <1>2, <1>3, <2>2 DEF P!PutCard
    <3>2. card'.data = c.data /\ card'.anonymized = c.anonymized
      BY <3>1 DEF Cards
    <3> QED BY <1>3, <3>2 DEF Faithful
  <2> QED BY <2>1, <2>2
<1> QED BY <1>3, <1>4, <1>5

LEMMA RowRestored ==
    ASSUME P!PeopleConstants, Inv, [P!Next]_P!vars, NEW i \in Items, i \in used, items[i] = None, items'[i] # None
    PROVE  \E h \in Clerks : clerk[h].pc = "close" /\ clerk[h].item = i
<1>1. ASSUME NEW x, NEW row, items' = [items EXCEPT ![x] = row]
      PROVE  i = x
  BY <1>1 DEF Inv, TypeInv
<1>2. \/ items' = items
      \/ \E x \in Items : x \notin used /\ \E row : items' = [items EXCEPT ![x] = row]
      \/ \E x : items' = [items EXCEPT ![x] = None]
      \/ \E h \in Clerks : /\ clerk[h].pc = "close"
                             /\ \E row : items' = [items EXCEPT ![clerk[h].item] = row]
  BY DEF P!Next, P!Handle, P!Change, P!Journal, P!Begin, P!ReadToPut, P!NothingToDo, P!ReadToList, P!ListFiles, P!ListPage, P!Record, P!PutCard,
         P!EraseBare, P!RecordFails, P!GiveUp, P!ReadItem, P!CloseRappel, P!DeleteRow, P!DeleteObject, P!CreateFile, P!Index,
         P!MoveFile, P!AddItem, P!DeleteItem, P!AttachPiece, P!PreparePiece, P!Upload, P!vars, P!suivi
<1>3. ASSUME NEW x, items' = [items EXCEPT ![x] = None] PROVE FALSE
  BY <1>3 DEF Inv, TypeInv
<1> QED BY <1>1, <1>2, <1>3

\* What was erased comes back only from a copy of the card read before the erasure, and a row
\* that was deleted from a copy of a reminder (httpapi/crm.go:299-304, crm/suivi.go:198-216).
THEOREM OnlyStaleWritesRestoreEver == ASSUME P!PeopleConstants PROVE P!Spec => OnlyStaleWritesRestore
<1>1. Inv /\ [P!Next]_P!vars => [P!RestoredByStaleWrite]_P!vars
  BY CardRestored, RowRestored DEF P!RestoredByStaleWrite
<1> QED BY <1>1, InvAlways, PTL DEF P!Spec, OnlyStaleWritesRestore, P!OnlyStaleWritesRestore

-----------------------------------------------------------------------------
(* The record of the organisation *)

Records == [name : LegalNames, plan : PlanCodes]

\* A plan that Stripe has asked for.
Signed(plan) == \E m \in sent : plan \in O!Applied(m.event)

\* A write keeps the reason it was asked for.
TaskOK(t) ==
    /\ t.pc \in {"load", "put"} =>
          /\ t.kind \in {"team", "legal", "stripe"}
          /\ t.kind = "legal" => t.name \in LegalNames
          /\ t.kind # "legal" => t.plan \in PlanCodes
          /\ t.kind = "stripe" => Signed(t.plan)
    /\ t.pc \in {"put", "sync", "ensure"} => t.copy \in Records

OrgTypes ==
    /\ org \in Records /\ directory \in Records \cup {None}
    /\ DOMAIN task = Clerks

TasksInv == \A h \in Clerks : TaskOK(task[h])

OrgInv == OrgTypes /\ TasksInv

LEMMA Proceeded ==
    ASSUME OrgInv, NEW h \in Clerks, NEW t, O!Proceed(h, t), TaskOK(t),
           org' \in Records, directory' \in Records \cup {None}
    PROVE  OrgInv'
<1>1. \A g \in Clerks : task'[g] = IF g = h THEN t ELSE task[g]
  BY DEF O!Proceed, OrgInv, OrgTypes
<1>2. OrgTypes'
  BY DEF O!Proceed, OrgInv, OrgTypes
<1>3. sent' = sent
  BY DEF O!Proceed
<1>4. TasksInv'
  BY <1>1, <1>3 DEF OrgInv, TasksInv, TaskOK, Signed
<1> QED BY <1>2, <1>4 DEF OrgInv

LEMMA RestOK == TaskOK(O!AtRest)
BY DEF TaskOK, O!AtRest

LEMMA EditTyped ==
    ASSUME NEW t, TaskOK(t), t.pc = "put"
    PROVE  /\ O!Edited(t) \in Records
           /\ t.kind = "legal" => O!Edited(t).name = t.name /\ O!Edited(t).plan = t.copy.plan
           /\ t.kind # "legal" => O!Edited(t).plan = t.plan /\ O!Edited(t).name = t.copy.name
<1>1. t.copy \in Records
  BY DEF TaskOK
<1> QED BY <1>1 DEF TaskOK, O!Edited, Records

LEMMA Requested ==
    ASSUME OrgInv, NEW h \in Clerks, O!Webhook(h) \/ O!ChoosePlan(h) \/ O!SaveLegal(h)
    PROVE  OrgInv'
<1>1. org' = org /\ directory' = directory
  BY DEF O!Webhook, O!ChoosePlan, O!SaveLegal
<1>2. CASE O!Webhook(h)
  <2>1. PICK m \in sent : \E plan \in O!Applied(m.event) :
            O!Proceed(h, [O!AtRest EXCEPT !.pc = "load", !.kind = "stripe", !.plan = plan])
    BY <1>2 DEF O!Webhook
  <2>2. PICK plan \in O!Applied(m.event) :
            O!Proceed(h, [O!AtRest EXCEPT !.pc = "load", !.kind = "stripe", !.plan = plan])
    BY <2>1
  <2>3. plan \in PlanCodes /\ Signed(plan)
    BY DEF O!Applied, Signed
  <2>4. TaskOK([O!AtRest EXCEPT !.pc = "load", !.kind = "stripe", !.plan = plan])
    BY <2>3 DEF TaskOK, O!AtRest
  <2> QED BY <1>1, <2>2, <2>4, Proceeded DEF OrgInv, OrgTypes
<1>3. CASE O!ChoosePlan(h)
  <2>1. PICK plan \in PlanCodes :
            O!Proceed(h, [O!AtRest EXCEPT !.pc = "load", !.kind = "team", !.plan = plan])
    BY <1>3 DEF O!ChoosePlan
  <2>2. TaskOK([O!AtRest EXCEPT !.pc = "load", !.kind = "team", !.plan = plan])
    BY DEF TaskOK, O!AtRest
  <2> QED BY <1>1, <2>1, <2>2, Proceeded DEF OrgInv, OrgTypes
<1>4. CASE O!SaveLegal(h)
  <2>1. PICK name \in LegalNames :
            O!Proceed(h, [O!AtRest EXCEPT !.pc = "load", !.kind = "legal", !.name = name])
    BY <1>4 DEF O!SaveLegal
  <2>2. TaskOK([O!AtRest EXCEPT !.pc = "load", !.kind = "legal", !.name = name])
    BY DEF TaskOK, O!AtRest
  <2> QED BY <1>1, <2>1, <2>2, Proceeded DEF OrgInv, OrgTypes
<1> QED BY <1>2, <1>3, <1>4

LEMMA Written ==
    ASSUME OrgInv, NEW h \in Clerks,
           \/ O!LoadOrg(h) \/ O!PutOrg(h) \/ O!SyncDirectory(h)
           \/ O!BeginEnsure(h) \/ O!EnsureDirectory(h) \/ O!Fail(h)
    PROVE  OrgInv'
<1>1. TaskOK(task[h]) /\ org \in Records /\ directory \in Records \cup {None}
  BY DEF OrgInv, OrgTypes, TasksInv
<1>2. CASE O!LoadOrg(h)
  <2>1. TaskOK([task[h] EXCEPT !.pc = "put", !.copy = org])
    BY <1>1, <1>2 DEF TaskOK, O!LoadOrg
  <2> QED BY <1>1, <1>2, <2>1, Proceeded DEF O!LoadOrg
<1>3. CASE O!PutOrg(h)
  <2>1. O!Edited(task[h]) \in Records
    BY <1>1, <1>3, EditTyped DEF O!PutOrg
  <2>2. TaskOK([task[h] EXCEPT !.pc = "sync", !.copy = O!Edited(task[h])])
    BY <1>1, <1>3, <2>1 DEF TaskOK, O!PutOrg
  <2> QED BY <1>1, <1>3, <2>1, <2>2, Proceeded DEF O!PutOrg
<1>4. CASE O!BeginEnsure(h)
  <2>1. TaskOK([O!AtRest EXCEPT !.pc = "ensure", !.copy = org])
    BY <1>1 DEF TaskOK, O!AtRest
  <2> QED BY <1>1, <1>4, <2>1, Proceeded DEF O!BeginEnsure
<1>5. CASE O!SyncDirectory(h) \/ O!EnsureDirectory(h) \/ O!Fail(h)
  <2>1. org' \in Records /\ directory' \in Records \cup {None}
    BY <1>1, <1>5 DEF TaskOK, O!SyncDirectory, O!EnsureDirectory, O!Fail
  <2> QED BY <1>5, <2>1, RestOK, Proceeded DEF O!SyncDirectory, O!EnsureDirectory, O!Fail
<1> QED BY <1>2, <1>3, <1>4, <1>5

LEMMA StripeSteps ==
    ASSUME OrgInv, O!Tick \/ (\E e \in StripeEvents : O!StripeSends(e)) \/ UNCHANGED O!orgVars
    PROVE  OrgInv'
<1>1. UNCHANGED <<org, directory, task>> /\ sent \subseteq sent'
  BY DEF O!Tick, O!StripeSends, O!orgVars
<1>2. TasksInv'
  BY <1>1 DEF OrgInv, TasksInv, TaskOK, Signed
<1> QED BY <1>1, <1>2 DEF OrgInv, OrgTypes

LEMMA OrgInit == ASSUME O!OrganisationConstants PROVE O!Init => OrgInv
BY RestOK DEF O!Init, OrgInv, OrgTypes, TasksInv, Records

LEMMA OrgStep == OrgInv /\ [O!Next]_O!orgVars => OrgInv'
BY Requested, Written, StripeSteps DEF O!Next

LEMMA OrgAlways == ASSUME O!OrganisationConstants PROVE O!Spec => []OrgInv
BY OrgInit, OrgStep, PTL DEF O!Spec

LEMMA Reasons ==
    OrgInv /\ [O!Next]_O!orgVars => [O!EditedForAReason]_O!orgVars
<1> SUFFICES ASSUME OrgInv, O!Next, org' # org PROVE O!EditedForAReason
  BY DEF O!EditedForAReason
<1>1. PICK h \in Clerks : O!PutOrg(h)
  BY DEF O!Next, O!Webhook, O!ChoosePlan, O!SaveLegal, O!LoadOrg, O!SyncDirectory, O!BeginEnsure, O!EnsureDirectory,
         O!Fail, O!StripeSends, O!Tick
<1>2. TaskOK(task[h]) /\ task[h].pc = "put" /\ org' = O!Edited(task[h])
  BY <1>1 DEF OrgInv, TasksInv, O!PutOrg
<1>3. CASE task[h].copy # org
  BY <1>2, <1>3 DEF O!EditedForAReason, O!PutsLate, O!Puts
<1>4. CASE task[h].copy = org /\ task[h].kind = "legal"
  BY <1>2, <1>4, EditTyped DEF O!EditedForAReason, O!Puts
<1>5. CASE task[h].copy = org /\ task[h].kind # "legal"
  <2>1. org'.plan = task[h].plan /\ org'.name = org.name
    BY <1>2, <1>5, EditTyped
  <2>2. ASSUME task[h].kind = "stripe"
        PROVE  \E m \in sent : \/ m.event.status \in O!InOrder /\ m.event.plan = org'.plan
                               \/ m.event.type = O!Cancelled /\ org'.plan = Trial
    BY <1>2, <2>1, <2>2 DEF TaskOK, Signed, O!Applied
  <2>3. task[h].kind \in {"team", "stripe"}
    BY <1>2, <1>5 DEF TaskOK
  <2> QED BY <1>2, <2>1, <2>2, <2>3 DEF O!EditedForAReason, O!Puts
<1> QED BY <1>3, <1>4, <1>5

\* The plan of an organisation moves only for a reason that the team or Stripe gave, and an
\* edit of the identity undoes it only over a change made since the record was read
\* (directory.go:91-130, admin.go:206-235, stripe.go:209-228).
THEOREM PlansMoveForAReason == ASSUME O!OrganisationConstants PROVE O!Spec => OnlyStaleEditsUndo
BY OrgAlways, Reasons, PTL DEF O!Spec, OnlyStaleEditsUndo, O!OnlyStaleEditsUndo
=============================================================================
