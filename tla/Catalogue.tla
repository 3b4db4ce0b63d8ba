------------------------------ MODULE Catalogue ------------------------------
(***************************************************************************)
(* The courses of an organisation, their modules, and the library from     *)
(* which it copies some (catalog/service.go, library/library.go,           *)
(* httpapi/catalog.go, course_publish.go, course_cover.go, library.go).    *)
(*                                                                         *)
(* Every write puts the whole record that a request read earlier, without  *)
(* a condition.  Modules are listed through a secondary index that lags    *)
(* behind the table.  Of a course we keep the mentions that are filled, of *)
(* a module its video and whether it bears a duration.  Courses and        *)
(* modules are numbered as they are created; titles, prices, tags,         *)
(* questionnaires and documents are left out.                              *)
(***************************************************************************)
EXTENDS Integers, Sequences, FiniteSets

CONSTANTS
    Edits,       \* corrections of a programme: what they fill, what they clear
    Contents,    \* what a module may hold: its video or None, whether it is timed
    Videos,      \* the videos
    Entries,     \* identifiers of the courses of the library
    Sections,    \* identifiers of the modules of a course of the library
    Handlers,    \* instances, each serves one request after another
    Stories,     \* Stories[S]: how many requests under the set S of kinds
    MaxCourses, MaxModules,
    None

Kinds == {"create", "edit", "cover", "publish", "module", "duplicate", "library", "delete",
          "import", "video"}

Mentions == {"goal", "audience", "objectives", "assessment", "sanction", "duration"}

CatalogueConstants ==
    /\ \A S \in DOMAIN Stories : S \subseteq Kinds /\ Stories[S] \in Nat
    /\ \A e \in Edits : e.fill \subseteq Mentions /\ e.clear \subseteq Mentions
    /\ \A c \in Contents : c.video \in Videos \cup {None} /\ c.timed \in BOOLEAN

VARIABLES
    kinds, asked,  \* the kinds of requests of this behaviour, their number so far
    courses,       \* courses[c]: mentions, published, cover, origin
    modules,       \* modules[m]: its course and its content
    listed,        \* the modules that the index shows
    library,       \* library[l]: mentions and published, or None
    sections,      \* sections[l][k]: the content of module k of l, or None
    cards,         \* cards[o]: the videos that partition o has a record of
    job            \* job[h]: where handler h is

tables == <<courses, modules, listed, library, sections, cards>>
vars == <<kinds, asked, tables, job>>

-----------------------------------------------------------------------------

\* What the route asks of a programme to publish it, and what the record asks.
Programme == Mentions \ {"objectives"}
Mandatory == {"audience", "objectives", "duration"}

Valid(course) == course.published => Mandatory \subseteq course.filled

Playable(content) == content.video # None => content.timed

NewCourse(origin) == [filled |-> {"sanction"}, published |-> FALSE, cover |-> FALSE, origin |-> origin]

Corrected(course, edit) == [course EXCEPT !.filled = (@ \cup edit.fill) \ edit.clear]

Idle == [pc |-> "idle", kind |-> None, course |-> None, id |-> None, edit |-> None, on |-> None,
         seen |-> None, copy |-> None, after |-> None, todo |-> <<>>]

Init ==
    /\ kinds \in DOMAIN Stories /\ asked = 0
    /\ courses = << [NewCourse("new") EXCEPT !.filled = Mentions] >>
    /\ modules = << >> /\ listed = {}
    /\ library = [l \in Entries |-> [filled |-> Mentions, published |-> TRUE]]
    /\ sections \in [Entries -> [Sections -> {c \in Contents : Playable(c)}]]
    /\ cards = [o \in {"platform", "team", "org"} |-> {}]
    /\ job = [h \in Handlers |-> Idle]

Goto(h, j) == job' = [job EXCEPT ![h] = j]

Begin(h, kind) ==
    /\ job[h].pc = "idle" /\ kind \in kinds
    /\ asked < Stories[kinds] /\ asked' = asked + 1

Continue(h, pc) == job[h].pc = pc /\ UNCHANGED asked

-----------------------------------------------------------------------------
(* The courses *)

CreateCourse(h) ==
    /\ Begin(h, "create") /\ Len(courses) < MaxCourses
    /\ \E edit \in Edits, published \in BOOLEAN :
          LET course == [Corrected(NewCourse("new"), edit) EXCEPT !.published = published]
          IN Valid(course) /\ courses' = Append(courses, course)
    /\ UNCHANGED <<modules, listed, library, sections, cards, job>>

\* A correction reads, applies, validates; a cover reads and replaces.
ReadEdit(h, c) ==
    /\ Begin(h, "edit")
    /\ \E edit \in Edits :
          LET after == Corrected(courses[c], edit)
          IN /\ Valid(after)
             /\ Goto(h, [Idle EXCEPT !.pc = "put", !.kind = "edit", !.course = c, !.seen = courses[c],
                                     !.copy = courses[c], !.after = after])
    /\ UNCHANGED tables

ReadCover(h, c) ==
    /\ Begin(h, "cover")
    /\ \E cover \in BOOLEAN :
          Goto(h, [Idle EXCEPT !.pc = "put", !.kind = "cover", !.course = c, !.seen = courses[c],
                               !.copy = courses[c], !.after = [courses[c] EXCEPT !.cover = cover]])
    /\ UNCHANGED tables

\* Faulty: the audience is no longer asked for.
FaultyComplete(course) == Programme \ {"audience"} \subseteq course.filled

Complete(course) == Programme \subseteq course.filled

\* The route checks the programme it read, then the modules; a failed list is not a refusal.
ReadPublish(h, c) ==
    /\ Begin(h, "publish")
    /\ \E on \in BOOLEAN :
          /\ on => Complete(courses[c])
          /\ Goto(h, [Idle EXCEPT !.pc = IF on THEN "modules" ELSE "reread", !.kind = "publish",
                                  !.course = c, !.seen = courses[c], !.on = on])
    /\ UNCHANGED tables

ListModules(c) == {m \in listed : modules[m].course = c}

CountModules(h) ==
    /\ Continue(h, "modules")
    /\ \/ ListModules(job[h].course) # {} /\ Goto(h, [job[h] EXCEPT !.pc = "reread"])
       \/ ListModules(job[h].course) = {} /\ Goto(h, Idle)
    /\ UNCHANGED tables

ListFails(h) == Continue(h, "modules") /\ Goto(h, [job[h] EXCEPT !.pc = "reread"]) /\ UNCHANGED tables

\* Faulty: what the check read is published, instead of the course as it is now.
FaultyPublished(course, j) == [j.seen EXCEPT !.published = j.on]

Published(course, j) == [course EXCEPT !.published = j.on]

SetPublished(h) ==
    LET course == courses[job[h].course] IN
    /\ Continue(h, "reread")
    /\ Goto(h, [job[h] EXCEPT !.pc = "put", !.copy = course, !.after = Published(course, job[h])])
    /\ UNCHANGED tables

PutCourse(h) ==
    /\ Continue(h, "put")
    /\ courses' = [courses EXCEPT ![job[h].course] = job[h].after]
    /\ Goto(h, Idle)
    /\ UNCHANGED <<modules, listed, library, sections, cards>>

-----------------------------------------------------------------------------
(* The modules *)

AddModule(h, c) ==
    /\ Begin(h, "module") /\ Len(modules) < MaxModules
    /\ \E content \in Contents :
          /\ Playable(content)
          /\ modules' = Append(modules, [course |-> c, content |-> content])
    /\ UNCHANGED <<courses, listed, library, sections, cards, job>>

\* A correction may attach a video, or a duration, to the module as it was read.
ReadModule(h, m) ==
    /\ Begin(h, "module")
    /\ \E content \in Contents, part \in {"video", "timed"} :
          LET after == [modules[m].content EXCEPT ![part] = content[part]]
          IN /\ Playable(after)
             /\ Goto(h, [Idle EXCEPT !.pc = "putModule", !.id = m, !.edit = part,
                                     !.copy = modules[m].content, !.after = after])
    /\ UNCHANGED tables

PutModule(h) ==
    /\ Continue(h, "putModule")
    /\ modules' = [modules EXCEPT ![job[h].id].content = job[h].after]
    /\ Goto(h, Idle)
    /\ UNCHANGED <<courses, listed, library, sections, cards>>

\* The index shows a module.
Index(m) ==
    /\ m \notin listed /\ listed' = listed \cup {m}
    /\ UNCHANGED <<kinds, asked, courses, modules, library, sections, cards, job>>

\* A copy: the course, then the modules that the index showed, each on its own.
ReadSource(h, c) ==
    /\ Begin(h, "duplicate")
    /\ Goto(h, [Idle EXCEPT !.pc = "modulesOf", !.course = c, !.copy = courses[c]])
    /\ UNCHANGED tables

ReadModulesOf(h) ==
    LET InOrder(ms) == SelectSeq([m \in DOMAIN modules |-> m], LAMBDA m : m \in ms)
        source == InOrder(ListModules(job[h].course))
    IN
    /\ Continue(h, "modulesOf")
    /\ Goto(h, [job[h] EXCEPT !.pc = "copy", !.todo = [k \in DOMAIN source |-> modules[source[k]].content]])
    /\ UNCHANGED tables

CreateCopy(h) ==
    /\ Continue(h, "copy") /\ Len(courses) < MaxCourses
    /\ courses' = Append(courses, [NewCourse("copy") EXCEPT !.filled = job[h].copy.filled])
    /\ Goto(h, [job[h] EXCEPT !.pc = "clones", !.id = Len(courses) + 1])
    /\ UNCHANGED <<modules, listed, library, sections, cards>>

Clone(h) ==
    /\ Continue(h, "clones")
    /\ \/ /\ job[h].todo # <<>> /\ Len(modules) < MaxModules
          /\ modules' = Append(modules, [course |-> job[h].id, content |-> Head(job[h].todo)])
          /\ Goto(h, [job[h] EXCEPT !.todo = Tail(@)])
       \/ job[h].todo = <<>> /\ Goto(h, Idle) /\ UNCHANGED modules
    /\ UNCHANGED <<courses, listed, library, sections, cards>>

-----------------------------------------------------------------------------
(* The library *)

SaveEntry(h, l) ==
    /\ Begin(h, "library")
    /\ \E edit \in Edits, published \in BOOLEAN :
          LET entry == [filled |-> edit.fill, published |-> published]
          IN Valid(entry) /\ library' = [library EXCEPT ![l] = entry]
    /\ UNCHANGED <<courses, modules, listed, sections, cards, job>>

\* Nothing asks that the course of a module exist.
SaveSection(h, l, k) ==
    /\ Begin(h, "library")
    /\ \E content \in Contents :
          Playable(content) /\ sections' = [sections EXCEPT ![l][k] = content]
    /\ UNCHANGED <<courses, modules, listed, library, cards, job>>

DeleteSection(h, l, k) ==
    /\ Begin(h, "library")
    /\ sections' = [sections EXCEPT ![l][k] = None]
    /\ UNCHANGED <<courses, modules, listed, library, cards, job>>

\* The course, then its modules, are read; each is deleted in turn, the course last.
ReadEntry(h, kind, l) ==
    /\ Begin(h, kind) /\ library[l] # None
    /\ kind = "import" => library[l].published
    /\ Goto(h, [Idle EXCEPT !.pc = "sections", !.kind = kind, !.course = l, !.copy = library[l]])
    /\ UNCHANGED tables

ReadSections(h) ==
    LET there == {k \in Sections : sections[job[h].course][k] # None} IN
    /\ Continue(h, "sections")
    /\ Goto(h, [job[h] EXCEPT !.pc = job[h].kind,
                              !.seen = [k \in there |-> sections[job[h].course][k]], !.id = there])
    /\ UNCHANGED tables

DeleteEntry(h) ==
    /\ Continue(h, "delete")
    /\ \/ \E k \in job[h].id :
             /\ sections' = [sections EXCEPT ![job[h].course][k] = None]
             /\ Goto(h, [job[h] EXCEPT !.id = @ \ {k}])
             /\ UNCHANGED library
       \/ /\ job[h].id = {}
          /\ library' = [library EXCEPT ![job[h].course] = None]
          /\ Goto(h, Idle)
          /\ UNCHANGED sections
    /\ UNCHANGED <<courses, modules, listed, cards>>

\* The videos whose record the import copies from the platform: no code writes one there.
CopiedCards(contents) == {c.video : c \in contents} \cap cards["platform"]

\* One transaction: a draft, the modules that were read, the records of their videos.
Import(h) ==
    LET read == job[h].seen
        AsSeq == CHOOSE s \in [1 .. Cardinality(DOMAIN read) -> DOMAIN read] :
                    {s[n] : n \in DOMAIN s} = DOMAIN read
    IN
    /\ Continue(h, "import") /\ Len(courses) < MaxCourses /\ Len(modules) + Len(AsSeq) <= MaxModules
    /\ courses' = Append(courses, [NewCourse("import") EXCEPT !.filled = job[h].copy.filled])
    /\ modules' = modules \o [n \in DOMAIN AsSeq |-> [course |-> Len(courses) + 1, content |-> read[AsSeq[n]]]]
    /\ cards' = [cards EXCEPT !["org"] = @ \cup CopiedCards({read[k] : k \in DOMAIN read})]
    /\ Goto(h, Idle)
    /\ UNCHANGED <<listed, library, sections>>

\* A video is reserved by the organisation, or by the team from its own.
Reserve(h, o, v) ==
    /\ Begin(h, "video")
    /\ o \in {"team", "org"} /\ cards' = [cards EXCEPT ![o] = @ \cup {v}]
    /\ UNCHANGED <<courses, modules, listed, library, sections, job>>

-----------------------------------------------------------------------------

\* An error of the store, or the death of the instance.
GiveUp(h) == job[h].pc # "idle" /\ Goto(h, Idle) /\ UNCHANGED <<asked, tables>>

EditCourses(h) == \/ CreateCourse(h)
                  \/ \E c \in DOMAIN courses : \/ ReadEdit(h, c) \/ ReadCover(h, c) \/ ReadPublish(h, c)
                                               \/ AddModule(h, c) \/ ReadSource(h, c)
                  \/ CountModules(h) \/ ListFails(h) \/ SetPublished(h) \/ PutCourse(h)
                  \/ \E m \in DOMAIN modules : ReadModule(h, m)
                  \/ PutModule(h) \/ ReadModulesOf(h) \/ CreateCopy(h) \/ Clone(h)

HandleSaveLibraryCourse(h) == \E l \in Entries : SaveEntry(h, l)

HandleSaveLibraryModule(h) == \E l \in Entries, k \in Sections : SaveSection(h, l, k)

HandleDeleteLibraryModule(h) == \E l \in Entries, k \in Sections : DeleteSection(h, l, k)

HandleDeleteLibraryCourse(h) == \/ \E l \in Entries : ReadEntry(h, "delete", l)
                                \/ DeleteEntry(h)

HandleImportLibraryCourse(h) == \/ \E l \in Entries : ReadEntry(h, "import", l)
                                \/ Import(h)

EditLibrary(h) == \/ HandleSaveLibraryCourse(h) \/ HandleSaveLibraryModule(h)
                  \/ HandleDeleteLibraryModule(h) \/ HandleDeleteLibraryCourse(h)
                  \/ HandleImportLibraryCourse(h) \/ ReadSections(h)
                  \/ \E o \in DOMAIN cards, v \in Videos : Reserve(h, o, v)

Next == \/ \E h \in Handlers : (EditCourses(h) \/ EditLibrary(h) \/ GiveUp(h)) /\ UNCHANGED kinds
        \/ \E m \in DOMAIN modules : Index(m)

Spec == Init /\ [][Next]_vars

-----------------------------------------------------------------------------
(* Properties *)

Lacks(course) == course.published /\ ~ ({"audience", "duration"} \subseteq course.filled)

\* Handler h is about to put course c.
Puts(h, c) == job[h].pc = "put" /\ job[h].course = c

\* A step after which a published course lacks its audience or its duration.
PublishedByRace ==
    \A c \in DOMAIN courses' :
        Lacks(courses'[c]) /\ (c \in DOMAIN courses => ~ Lacks(courses[c])) =>
            \E h \in Handlers : Puts(h, c) /\ (job[h].seen # courses[c] \/ job[h].copy # courses[c])

\* A course becomes published without its audience or its duration, or loses them while it
\* is published, only by a put over a change made since its request checked or read it:
\* SetPublished itself checks nothing (course_publish.go:48-68, service.go:279-320,
\* model.go:112-130).
OnlyRacesPublishIncomplete == [][PublishedByRace]_vars

PutsFor(kind, c) == \E h \in Handlers : Puts(h, c) /\ job[h].kind = kind
PutsLate(c) == \E h \in Handlers : Puts(h, c) /\ job[h].copy # courses[c]

\* A step that changes a course.
RevertedByStaleWrite ==
    \A c \in DOMAIN courses :
        /\ courses'[c].filled # courses[c].filled       => PutsLate(c) \/ PutsFor("edit", c)
        /\ courses'[c].cover # courses[c].cover         => PutsLate(c) \/ PutsFor("cover", c)
        /\ courses'[c].published # courses[c].published => PutsLate(c) \/ PutsFor("publish", c)

\* A request changes of a course what it is about; it puts the rest back only over a change
\* made after its last read: what was corrected while the programme was being checked
\* survives the publication (service.go:46-58, 274-320).
OnlyStaleWritesRevert == [][RevertedByStaleWrite]_vars

\* library.go:243-245: the record of a video follows the module that is imported, or else
\* its playback would be refused.
ImportedVideosFollow ==
    \A m \in DOMAIN modules :
        courses[modules[m].course].origin = "import" /\ modules[m].content.video # None
            => modules[m].content.video \in cards["org"]
=============================================================================
