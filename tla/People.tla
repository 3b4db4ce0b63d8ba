------------------------------- MODULE People --------------------------------
(***************************************************************************)
(* The card of a contact and what hangs from it: corrections               *)
(* (httpapi/crm.go, crm/service.go), the identity document                 *)
(* (crm/identity_doc.go), the erasure of personal data (crm/anonymize.go)  *)
(* and the notes, reminders and pieces of crm/suivi.go.                    *)
(*                                                                         *)
(* Every handler reads the card, then puts the whole copy without a        *)
(* condition.  The files a learner appears in are listed stage by stage,   *)
(* in an index that follows the files late, and only the PageSize latest   *)
(* of each stage; a file that moves meanwhile may be listed twice, or      *)
(* missed, as one past the page is.  An erasure is written with the event  *)
(* of the first file, then journalled on the others one by one; the        *)
(* events of an identity document are best effort.  One learner; the       *)
(* fields of the card are two; a journalled write is one step (AuditLog);  *)
(* the object of an identity document is left out.                         *)
(***************************************************************************)
EXTENDS Naturals, Sequences, FiniteSets

CONSTANTS
    Stages,    \* the stages, in the order in which they are listed
    Files,     \* files of the learner
    Items,     \* identifiers of notes, reminders and pieces, each used once
    Keys,      \* keys of pieces of the learner, each prepared once
    PageSize,  \* files of a stage that a listing returns at most
    Handlers,  \* handler executions
    Stories,   \* the sets of requests to try together
    None       \* what does not exist

VARIABLES
    kinds,     \* the requests of this behaviour
    card,      \* the item of the contact
    stage,     \* stage[f]: the stage of file f, or None
    listed,    \* listed[f]: the stage under which the index lists it, or None
    journal,   \* journal[f]: the events of file f: what, and by which handler
    items,     \* items[i]: the note, reminder or piece i, or None
    used,      \* the identifiers drawn and the keys prepared so far
    objects,   \* the keys under which an object is stored
    uploaded,  \* the keys under which one was stored at some time
    missable,  \* files an erasure may miss: created, moved or listed late while it
               \* lists, or past its page
    job        \* job[h]: where handler h is, and its copy

contact == <<card, stage, listed, journal, missable>>
suivi == <<items, used, objects, uploaded>>
vars == <<kinds, contact, suivi, job>>

StageNames == {Stages[k] : k \in DOMAIN Stages}
Rows == [kind : {"note", "rappel", "piece"}, done : BOOLEAN, key : Keys \cup {None}]

PeopleConstants ==
    /\ Stages \in Seq(StageNames) /\ Stages # <<>> /\ None \notin StageNames
    /\ Items \cap Keys = {} /\ None \notin Rows /\ PageSize \in Nat \ {0}

-----------------------------------------------------------------------------

Fields == {"name", "phone"}

Idle == [pc |-> "idle", kind |-> "look", copy |-> None, at |-> 1, todo |-> [f \in Files |-> 0],
         wrote |-> FALSE, item |-> None]

Init ==
    /\ kinds \in Stories
    /\ card \in [data : {Fields}, doc : BOOLEAN, anonymized : {FALSE}]
    /\ stage \in [Files -> StageNames \cup {None}] /\ listed = stage
    /\ journal = [f \in Files |-> <<>>]
    /\ items = [i \in Items |-> None] /\ used = {}
    /\ objects = {} /\ uploaded = {}
    /\ missable = {}
    /\ job = [h \in Handlers |-> Idle]

Goto(h, j) == job' = [job EXCEPT ![h] = j] /\ UNCHANGED kinds

\* What handler h does next is its last step.
End(h, pc) == Goto(h, [job[h] EXCEPT !.pc = pc])

Begin(h, kind) ==
    /\ job[h].pc = "idle" /\ kind \in kinds
    /\ Goto(h, [Idle EXCEPT !.pc = IF kind = "access" THEN "list" ELSE "read", !.kind = kind])
    /\ UNCHANGED <<contact, suivi>>

-----------------------------------------------------------------------------
(* The card *)

\* Faulty: a card that was anonymised is corrected like another.
FaultyModifiable(c) == TRUE

Modifiable(c) == ~ c.anonymized

\* A correction or a document: the copy that will be put.
ReadToPut(h) ==
    /\ job[h].pc = "read"
    /\ \/ job[h].kind = "update" /\ Modifiable(card)
       \/ job[h].kind = "attach"
       \/ job[h].kind = "detach" /\ card.doc
    /\ Goto(h, [job[h] EXCEPT !.pc = "put", !.copy = card])
    /\ UNCHANGED <<contact, suivi>>

\* What is only journalled, or erased with an event, goes on to the listing.
ReadToList(h) ==
    /\ job[h].pc = "read"
    /\ \/ job[h].kind = "look" /\ card.doc
       \/ job[h].kind = "erase" /\ ~ card.anonymized
    /\ missable' = IF job[h].kind = "erase"
                   THEN missable \cup {f \in Files : listed[f] # stage[f]} ELSE missable
    /\ Goto(h, [job[h] EXCEPT !.pc = "list", !.copy = card])
    /\ UNCHANGED <<card, stage, listed, journal, suivi>>

\* A card that is erased already is answered as such; without a document, nothing to remove.
NothingToDo(h) ==
    /\ job[h].pc = "read"
    /\ (job[h].kind = "erase" /\ card.anonymized) \/ (job[h].kind = "detach" /\ ~ card.doc)
    /\ End(h, "ok")
    /\ UNCHANGED <<contact, suivi>>

\* The fields a correction leaves; a learner keeps a name.
Corrected(c, data) == [c EXCEPT !.data = data]

PutCard(h) ==
    /\ job[h].pc = "put"
    /\ \/ /\ job[h].kind = "update"
          /\ \E data \in SUBSET Fields : "name" \in data /\ card' = Corrected(job[h].copy, data)
          /\ End(h, "ok")
       \/ /\ job[h].kind \in {"attach", "detach"}
          /\ card' = [job[h].copy EXCEPT !.doc = job[h].kind = "attach"]
          /\ End(h, "list")
    /\ UNCHANGED <<stage, listed, journal, missable, suivi>>

-----------------------------------------------------------------------------
(* The files of a learner, and their events *)

\* Faulty: the last stage is not listed.
FaultyStages == SubSeq(Stages, 1, Len(Stages) - 1)

ListedStages == Stages

\* One stage of the index, then the next; a file that is met again counts twice.  The
\* files of the other learners of the organisation take any of the places of the page.
Listed(stageName) == {f \in Files : listed[f] = stageName}

ListPage(h, page) ==
    LET met(f) == IF f \in page THEN 1 ELSE 0
        found == [f \in Files |-> job[h].todo[f] + met(f)]
        nowhere == \A f \in Files : found[f] = 0
    IN  /\ job[h].pc = "list" /\ page \subseteq Listed(ListedStages[job[h].at])
        /\ Cardinality(page) <= PageSize
        /\ missable' = IF job[h].kind = "erase"
                       THEN missable \cup (Listed(ListedStages[job[h].at]) \ page) ELSE missable
        /\ Goto(h, [job[h] EXCEPT
               !.todo = found, !.at = @ + 1,
               !.pc = IF job[h].at < Len(ListedStages) THEN "list"
                      ELSE IF ~ nowhere THEN "record" ELSE IF job[h].kind = "erase" THEN "bare" ELSE "ok"])
        /\ UNCHANGED <<card, stage, listed, journal, suivi>>

ListFiles(h) == \E page \in SUBSET Files : ListPage(h, page)

Erased(c) == [data |-> {}, doc |-> FALSE, anonymized |-> TRUE]

\* No file: the card alone, without an event.
EraseBare(h) ==
    /\ job[h].pc = "bare"
    /\ card' = Erased(job[h].copy)
    /\ Goto(h, [job[h] EXCEPT !.pc = "ok", !.wrote = TRUE])
    /\ UNCHANGED <<stage, listed, journal, missable, suivi>>

\* Handler h has done with one more of its files.
Past(h, f) ==
    LET left == [job[h].todo EXCEPT ![f] = @ - 1]
    IN [job[h] EXCEPT !.todo = left, !.wrote = @ \/ job[h].kind = "erase",
                      !.pc = IF \A g \in Files : left[g] = 0 THEN "ok" ELSE "record"]

\* The event of one file, in any order; an erasure writes the card with the first.
Record(h, f) ==
    /\ job[h].pc = "record" /\ job[h].todo[f] > 0
    /\ journal' = [journal EXCEPT ![f] = Append(@, [what |-> job[h].kind, by |-> h])]
    /\ card' = IF job[h].kind = "erase" /\ ~ job[h].wrote THEN Erased(job[h].copy) ELSE card
    /\ Goto(h, Past(h, f))
    /\ UNCHANGED <<stage, listed, missable, suivi>>

\* The events of a document are best effort; a listing that fails leaves them all out.
RecordFails(h, f) ==
    /\ job[h].pc = "record" /\ job[h].todo[f] > 0
    /\ job[h].kind \in {"attach", "detach", "look"}
    /\ Goto(h, Past(h, f))
    /\ UNCHANGED <<contact, suivi>>

\* A refusal, an error of the store, or the death of the instance.
GiveUp(h) ==
    /\ job[h].pc \notin {"idle", "ok", "failed"}
    /\ End(h, "failed")
    /\ UNCHANGED <<contact, suivi>>

-----------------------------------------------------------------------------
(* Files that move meanwhile *)

Erasing == {h \in Handlers : job[h].kind = "erase" /\ job[h].pc = "list"}

CreateFile(f) ==
    /\ "move" \in kinds /\ stage[f] = None
    /\ stage' = [stage EXCEPT ![f] = Stages[1]]
    /\ missable' = missable \cup {f}
    /\ UNCHANGED <<kinds, card, listed, journal, suivi, job>>

MoveFile(f, to) ==
    /\ "move" \in kinds /\ stage[f] # None /\ stage[f] # to
    /\ stage' = [stage EXCEPT ![f] = to]
    /\ missable' = IF Erasing # {} THEN missable \cup {f} ELSE missable
    /\ UNCHANGED <<kinds, card, listed, journal, suivi, job>>

\* The index catches up.
Index(f) ==
    /\ listed[f] # stage[f]
    /\ listed' = [listed EXCEPT ![f] = stage[f]]
    /\ UNCHANGED <<kinds, card, stage, journal, missable, suivi, job>>

-----------------------------------------------------------------------------
(* Notes, reminders and pieces *)

Item(kind, key) == [kind |-> kind, done |-> FALSE, key |-> key]

\* The contact is read, and a new item put.
AddItem(i, kind) ==
    /\ "suivi" \in kinds /\ i \notin used
    /\ items' = [items EXCEPT ![i] = Item(kind, None)] /\ used' = used \cup {i}
    /\ UNCHANGED <<kinds, contact, objects, uploaded, job>>

DeleteItem(i) ==
    /\ "suivi" \in kinds /\ items[i] # None /\ items[i].kind # "piece"
    /\ items' = [items EXCEPT ![i] = None]
    /\ UNCHANGED <<kinds, contact, used, objects, uploaded, job>>

\* A key is drawn and a deposit under it signed; nothing is stored.
PreparePiece(key) ==
    /\ "suivi" \in kinds /\ key \notin used
    /\ used' = used \cup {key}
    /\ UNCHANGED <<kinds, contact, items, objects, uploaded, job>>

\* The browser deposits under a key that was prepared, at once, later, again or never.
Upload(key) ==
    /\ "suivi" \in kinds /\ key \in used
    /\ objects' = objects \cup {key} /\ uploaded' = uploaded \cup {key}
    /\ UNCHANGED <<kinds, contact, items, used, job>>

\* Only the prefix of the key is checked: it may not have been prepared, nothing may be
\* stored under it, and another item may have it, when a request is sent again.
AttachPiece(i, key) ==
    /\ "suivi" \in kinds /\ i \notin used
    /\ items' = [items EXCEPT ![i] = Item("piece", key)] /\ used' = used \cup {i}
    /\ UNCHANGED <<kinds, contact, objects, uploaded, job>>

\* A reminder is read and put back, done or open again; a piece is read and deleted.
ReadItem(h, i) ==
    /\ job[h].pc = "read" /\ items[i] # None
    /\ items[i].kind = IF job[h].kind = "close" THEN "rappel" ELSE "piece"
    /\ job[h].kind \in {"close", "remove"}
    /\ Goto(h, [job[h] EXCEPT !.pc = job[h].kind, !.item = i, !.copy = items[i]])
    /\ UNCHANGED <<contact, suivi>>

CloseRappel(h, done) ==
    /\ job[h].pc = "close"
    /\ items' = [items EXCEPT ![job[h].item] = [job[h].copy EXCEPT !.done = done]]
    /\ End(h, "ok")
    /\ UNCHANGED <<contact, used, objects, uploaded>>

\* Faulty: the object first.
FaultyDeleteRow(h) ==
    /\ job[h].pc = "remove"
    /\ objects' = objects \ {job[h].copy.key}
    /\ End(h, "object")
    /\ UNCHANGED <<contact, items, used, uploaded>>

\* The item first, then the object, whose deletion may fail.
DeleteRow(h) ==
    /\ job[h].pc = "remove"
    /\ items' = [items EXCEPT ![job[h].item] = None]
    /\ End(h, "object")
    /\ UNCHANGED <<contact, used, objects, uploaded>>

DeleteObject(h) ==
    /\ job[h].pc = "object"
    /\ objects' = objects \ {job[h].copy.key}
    /\ End(h, "ok")
    /\ UNCHANGED <<contact, items, used, uploaded>>

-----------------------------------------------------------------------------

Change(h) == ReadToPut(h) \/ PutCard(h) \/ NothingToDo(h) \/ ReadToList(h)

Journal(h) == ListFiles(h) \/ EraseBare(h) \/ \E f \in Files : Record(h, f) \/ RecordFails(h, f)

Handle(h) ==
    \/ \E kind \in {"update", "attach", "detach", "look", "access", "erase", "close", "remove"} :
           Begin(h, kind)
    \/ Change(h) \/ Journal(h) \/ GiveUp(h)
    \/ (\E i \in Items : ReadItem(h, i))
    \/ (\E done \in BOOLEAN : CloseRappel(h, done))
    \/ DeleteRow(h) \/ DeleteObject(h)

Next ==
    \/ \E h \in Handlers : Handle(h)
    \/ \E f \in Files : CreateFile(f) \/ Index(f) \/ \E to \in StageNames : MoveFile(f, to)
    \/ \E i \in Items : \/ \E kind \in {"note", "rappel"} : AddItem(i, kind)
                        \/ DeleteItem(i)
                        \/ \E key \in Keys : AttachPiece(i, key)
    \/ \E key \in Keys : PreparePiece(key) \/ Upload(key)

Spec == Init /\ [][Next]_vars

-----------------------------------------------------------------------------
(* Properties *)

\* File f says that the learner was erased, by handler h.
Explains(f, h) == \E k \in DOMAIN journal[f] : journal[f][k] = [what |-> "erase", by |-> h]

\* An erasure that was carried through is explained in the chain of every file that was
\* listed in its place meanwhile and was not past the page of its stage; none is explained
\* that was not written; and a card without its data was erased by a handler
\* (crm/anonymize.go:75-110, 142-157).
ErasureExplained ==
    /\ \A h \in Handlers : job[h].kind = "erase" /\ job[h].pc = "ok" /\ job[h].wrote =>
           \A f \in Files \ missable : stage[f] # None => Explains(f, h)
    /\ \A h \in Handlers, f \in Files : Explains(f, h) => job[h].wrote
    /\ card.anonymized \/ card.data = {} => \E h \in Handlers : job[h].wrote

\* A step that brings back what was erased.
RestoredByStaleWrite ==
    /\ card.anonymized /\ (~ card'.anonymized \/ card'.data # {}) =>
           \E h \in Handlers : /\ job[h].pc = "put" /\ job'[h].pc # "put"
                               /\ ~ job[h].copy.anonymized
    /\ \A i \in Items : i \in used /\ items[i] = None /\ items'[i] # None =>
           \E h \in Handlers : job[h].pc = "close" /\ job[h].item = i

\* What was erased comes back only from a copy of the card read before the erasure, and a
\* reminder that was deleted from a copy read before the deletion
\* (httpapi/crm.go:299-304, crm/suivi.go:198-216).
OnlyStaleWritesRestore == [][RestoredByStaleWrite]_vars

\* A piece whose file was deposited at some time can be opened for as long as it is shown,
\* unless another piece that was attached under the same key was deleted.  One that was
\* never deposited is shown all the same (crm/suivi.go:253-283, 306-319).
PiecesOpen ==
    \A i \in Items : /\ items[i] # None /\ items[i].kind = "piece"
                    /\ items[i].key \in uploaded \ objects =>
        \E h \in Handlers : /\ job[h].kind = "remove" /\ job[h].pc = "ok" /\ job[h].item # i
                            /\ job[h].copy.key = items[i].key

\* httpapi/rgpd.go:15-17: an erasure is journalled on every file where the person appears.
\* When a request to erase has been answered, and no other is at work, every file that
\* stayed in its place, and was not past a page, explains the erasure.
ErasedOnEveryFile ==
    /\ \E h \in Handlers : job[h].kind = "erase" /\ job[h].pc = "ok"
    /\ \A h \in Handlers : job[h].kind = "erase" => job[h].pc \in {"idle", "ok", "failed"}
    => \A f \in Files \ missable : stage[f] # None => \E h \in Handlers : Explains(f, h)
=============================================================================
