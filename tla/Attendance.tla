----------------------------- MODULE Attendance ------------------------------
(***************************************************************************)
(* The attendance sheet of a session (attendance/attendance.go, and its    *)
(* routes in httpapi/attendance.go and httpapi/attendance_learner.go).     *)
(*                                                                         *)
(* The sheet is built at its first display, from the dates of the session  *)
(* (a slot per half-day) or from the modules of its course (a slot per     *)
(* module), and put without a condition; every handler begins by making    *)
(* sure it exists, and takes a failed read for a missing sheet.  A         *)
(* presence is written once, with its event; a countersignature puts the   *)
(* sheet that was read, with its event.  A journalled write is one step    *)
(* (AuditLog).  Time is counted in quarters of an hour since a midnight in *)
(* Paris; changes of legal time, comments and drawings are left out.       *)
(***************************************************************************)
EXTENDS Integers, Sequences, FiniteSets

CONSTANTS
    Sessions,   \* sessions to try: their mode, start and end
    Modules,    \* modules the course may have
    Learners,   \* the enrolled learners
    Handlers,   \* handler executions
    Methods,    \* how a presence is established
    Instants,   \* times at which something may happen, the bound of the clock
    None        \* an attribute that is not set

Day == 96
SignOpensBefore == 1
SignClosesAfter == 12

\* A sheet is put as a whole: its slots, by half-day or by module, and who countersigned it.
Slots == [id : Modules \cup (Nat \X {"am", "pm"}), from : Nat, to : Nat]
SheetItem == [slots : SUBSET Slots, trainer : Handlers \cup {None}]

AttendanceConstants ==
    /\ \A s \in Sessions : /\ s.mode \in {"onsite", "virtual", "async"}
                           /\ s.start \in Nat /\ s.end \in Nat /\ s.start < s.end
    /\ Instants \subseteq Nat /\ Instants # {}
    /\ {"signature", "absent"} \subseteq Methods /\ Methods \subseteq {"signature", "connection", "absent"}
    /\ None \notin Handlers /\ None \notin SheetItem

VARIABLES
    session,   \* the session: its mode, start and end
    modules,   \* the modules of its course, in the order they were added
    clock,     \* the servers' clock
    sheet,     \* the item of the sheet, or None
    entries,   \* the items of the presences
    journal,   \* the events of the session and of its enrolments
    job        \* job[h]: where handler h is, and its copy of the sheet

vars == <<session, modules, clock, sheet, entries, journal, job>>

-----------------------------------------------------------------------------
(* Slots *)

Slot(id, from, to) == [id |-> id, from |-> from, to |-> to]

\* Faulty: the test the other way round at the end of the session.
FaultyHalfDaySlots(s) ==
    LET days == {s.start \div Day + k : k \in {k \in 0 .. s.end : s.start + k * Day <= s.end}}
    IN {slot \in {Slot(<<d, "am">>, d * Day + 36, d * Day + 52) : d \in days}
                 \cup {Slot(<<d, "pm">>, d * Day + 56, d * Day + 68) : d \in days} :
            slot.to > s.start /\ slot.to < s.end}

\* The loop goes from the start by whole days, and keeps its time of day.
HalfDaySlots(s) ==
    LET days == {s.start \div Day + k : k \in {k \in 0 .. s.end : s.start + k * Day <= s.end}}
    IN {slot \in {Slot(<<d, "am">>, d * Day + 36, d * Day + 52) : d \in days}
                 \cup {Slot(<<d, "pm">>, d * Day + 56, d * Day + 68) : d \in days} :
            slot.to > s.start /\ slot.from < s.end}

AsyncSlots(s, mods) == {Slot(m, s.start, s.end) : m \in mods}

FindSlot(slots, id) == {slot \in slots : slot.id = id}

LearnerCanSign(mode, slot, at) ==
    mode # "async" /\ at + SignOpensBefore >= slot.from /\ at <= slot.to + SignClosesAfter

Hours(slot) == slot.to - slot.from

\* The slots whose hours a learner is billed for: absences are not.
AttendedSlots(s, signed, learner) ==
    {slot \in s.slots : \E e \in signed :
        e.slot = slot.id /\ e.learner = learner /\ e.method # "absent"}

-----------------------------------------------------------------------------

Idle == [pc |-> "idle", kind |-> "view", slot |-> None, learner |-> None,
         method |-> "signature", checked |-> FALSE, copy |-> None]

Init == /\ session \in Sessions
        /\ modules = <<>>
        /\ clock \in Instants /\ \A t \in Instants : clock <= t
        /\ sheet = None
        /\ entries = {}
        /\ journal = <<>>
        /\ job = [h \in Handlers |-> Idle]

Goto(h, j) == job' = [job EXCEPT ![h] = j] /\ UNCHANGED <<session, modules, clock>>

\* The identifiers the pages give; the code refuses the others.
SlotIds == IF session.mode = "async" THEN Modules ELSE {slot.id : slot \in HalfDaySlots(session)}

BeginOnSheet(h, kind) ==
    /\ job[h].pc = "idle"
    /\ Goto(h, [Idle EXCEPT !.pc = "ensure", !.kind = kind])
    /\ UNCHANGED <<sheet, entries, journal>>

\* A learner signs in the learner's space; the session's route takes any method.
BeginSign(h, kind, id, learner, method) ==
    /\ job[h].pc = "idle"
    /\ kind = "space" => method = "signature"
    /\ Goto(h, [Idle EXCEPT !.pc = "ensure", !.kind = kind, !.slot = id, !.learner = learner,
                            !.method = method])
    /\ UNCHANGED <<sheet, entries, journal>>

-----------------------------------------------------------------------------
(* EnsureSheet *)

ReadSheet(h) ==
    /\ job[h].pc = "ensure" /\ sheet # None
    /\ Goto(h, [job[h] EXCEPT !.pc = "ensured", !.copy = sheet])
    /\ UNCHANGED <<sheet, entries, journal>>

\* The slots of a new sheet; the listing of the modules may miss the last ones added.
Built(seen) ==
    [slots |-> IF session.mode = "async" THEN AsyncSlots(session, seen) ELSE HalfDaySlots(session),
     trainer |-> None]

Build(h) ==
    /\ job[h].pc = "ensure"
    /\ \E n \in 0 .. Len(modules) :
          Goto(h, [job[h] EXCEPT !.pc = "create", !.copy = Built({modules[k] : k \in 1 .. n})])
    /\ UNCHANGED <<sheet, entries, journal>>

\* There is no sheet yet.
MissSheet(h) == sheet = None /\ Build(h)

\* The read of the sheet fails, which the code takes for a missing sheet.
FailRead(h) == sheet # None /\ Build(h)

CreateSheet(h) ==
    /\ job[h].pc = "create"
    /\ sheet' = job[h].copy
    /\ Goto(h, [job[h] EXCEPT !.pc = "ensured"])
    /\ UNCHANGED <<entries, journal>>

View(h) ==
    /\ job[h].pc = "ensured" /\ job[h].kind = "view"
    /\ Goto(h, [Idle EXCEPT !.pc = "done"])
    /\ UNCHANGED <<sheet, entries, journal>>

-----------------------------------------------------------------------------
(* Sign *)

\* In the learner's space the window is checked first; Sign then reads the sheet again.
CheckWindow(h) ==
    /\ job[h].pc = "ensured" /\ job[h].kind = "space" /\ ~ job[h].checked
    /\ \E slot \in FindSlot(job[h].copy.slots, job[h].slot) :
           LearnerCanSign(session.mode, slot, clock)
    /\ Goto(h, [job[h] EXCEPT !.pc = "ensure", !.checked = TRUE])
    /\ UNCHANGED <<sheet, entries, journal>>

Event(j, slot, at) == [what |-> "presence", slot |-> j.slot, learner |-> j.learner,
                       method |-> j.method, hours |-> Hours(slot), at |-> at]

\* Faulty: without the condition, a presence is written over.
FaultySign(h) ==
    /\ job[h].pc = "ensured"
    /\ job[h].kind = "register" \/ job[h].checked
    /\ \E slot \in FindSlot(job[h].copy.slots, job[h].slot) :
          LET entry == [slot |-> job[h].slot, learner |-> job[h].learner,
                        method |-> job[h].method, own |-> job[h].kind = "space", at |-> clock]
          IN /\ entries' = {e \in entries : <<e.slot, e.learner>> # <<entry.slot, entry.learner>>}
                           \cup {entry}
             /\ journal' = Append(journal, Event(job[h], slot, clock))
    /\ Goto(h, [Idle EXCEPT !.pc = "done"])
    /\ UNCHANGED sheet

\* Faulty: the sheet that was read is put back with the presence.
ResavingSign(h) ==
    /\ job[h].pc = "ensured"
    /\ job[h].kind = "register" \/ job[h].checked
    /\ sheet' = job[h].copy
    /\ Goto(h, [Idle EXCEPT !.pc = "done"])
    /\ UNCHANGED <<entries, journal>>

\* A presence that exists is not written again, whatever it says.
Sign(h) ==
    /\ job[h].pc = "ensured"
    /\ job[h].kind = "register" \/ job[h].checked
    /\ \A e \in entries : <<e.slot, e.learner>> # <<job[h].slot, job[h].learner>>
    /\ \E slot \in FindSlot(job[h].copy.slots, job[h].slot) :
          /\ entries' = entries \cup {[slot |-> job[h].slot, learner |-> job[h].learner,
                                       method |-> job[h].method,
                                       own |-> job[h].kind = "space", at |-> clock]}
          /\ journal' = Append(journal, Event(job[h], slot, clock))
    /\ Goto(h, [Idle EXCEPT !.pc = "done"])
    /\ UNCHANGED sheet

-----------------------------------------------------------------------------

\* The guard and the put of the copy; the event counts its slots.
Countersign(h) ==
    /\ job[h].pc = "ensured" /\ job[h].kind = "countersign"
    /\ job[h].copy.trainer = None
    /\ sheet' = [job[h].copy EXCEPT !.trainer = h]
    /\ journal' = Append(journal, [what |-> "countersignature", trainer |-> h,
                                   slots |-> Cardinality(job[h].copy.slots)])
    /\ Goto(h, [Idle EXCEPT !.pc = "done"])
    /\ UNCHANGED entries

\* A refusal, an error of the store, or the death of the instance.
GiveUp(h) ==
    /\ job[h].pc \in {"ensure", "create", "ensured"}
    /\ Goto(h, [Idle EXCEPT !.pc = "done"])
    /\ UNCHANGED <<sheet, entries, journal>>

AddModule(m) ==
    /\ session.mode = "async" /\ m \notin {modules[k] : k \in DOMAIN modules}
    /\ modules' = Append(modules, m)
    /\ UNCHANGED <<session, clock, sheet, entries, journal, job>>

Tick == \E t \in Instants :
            /\ t > clock /\ \A u \in Instants : u <= clock \/ u >= t
            /\ clock' = t
            /\ UNCHANGED <<session, modules, sheet, entries, journal, job>>

Ensure(h) == ReadSheet(h) \/ MissSheet(h) \/ FailRead(h) \/ CreateSheet(h)

Handle(h) ==
    \/ \E kind \in {"view", "countersign"} : BeginOnSheet(h, kind)
    \/ \E kind \in {"space", "register"}, id \in SlotIds, learner \in Learners,
          method \in Methods : BeginSign(h, kind, id, learner, method)
    \/ Ensure(h) \/ View(h) \/ CheckWindow(h) \/ Sign(h) \/ Countersign(h) \/ GiveUp(h)

Next == (\E h \in Handlers : Handle(h)) \/ (\E m \in Modules : AddModule(m)) \/ Tick

Spec == Init /\ [][Next]_vars

-----------------------------------------------------------------------------
(* Properties *)

Entries == [slot : SlotIds, learner : Learners, method : Methods, own : BOOLEAN, at : Instants]

\* The items and the copies are what the handlers build, a presence is of a slot of this
\* session, and there is one for a slot and a learner.
TypeOK ==
    /\ session \in Sessions /\ modules \in Seq(Modules) /\ clock \in Instants
    /\ \A item \in {sheet} \cup {job[h].copy : h \in Handlers} : item # None =>
           /\ item \in SheetItem
           /\ \A slot \in item.slots : slot.id \in SlotIds /\ slot.from < slot.to
           /\ \A slot, other \in item.slots : slot.id = other.id => slot = other
    /\ entries \subseteq Entries
    /\ \A e, f \in entries : <<e.slot, e.learner>> = <<f.slot, f.learner>> => e = f
    /\ \A h \in Handlers : job[h].pc \in {"idle", "ensure", "create", "ensured", "done"}

PresenceOf(event) == [slot |-> event.slot, learner |-> event.learner, method |-> event.method,
                      at |-> event.at]

Presences == {k \in DOMAIN journal : journal[k].what = "presence"}

\* What a countersigned sheet, a presence and a bill rest on is in the journal: presences
\* and their events go one to one, whatever raced; a presence that learners recorded
\* themselves is of a slot that was open, however long the request waited (the end of the
\* window may have passed by the time that is kept); a countersigned sheet has the slots
\* its trainer signed for; and every slot a learner is billed for is a presence of the
\* journal with the same hours (attendance/attendance.go:99-133, 302-321, 344-357 and
\* 367-382).
PresencesJournalled ==
    /\ TypeOK
    /\ \A e \in entries : Cardinality({k \in Presences :
           PresenceOf(journal[k]) = [slot |-> e.slot, learner |-> e.learner,
                                     method |-> e.method, at |-> e.at]}) = 1
    /\ Cardinality(Presences) = Cardinality(entries)
    /\ \A e \in entries : e.own =>
           /\ session.mode # "async"
           /\ \E slot \in HalfDaySlots(session) :
                  slot.id = e.slot /\ e.at + SignOpensBefore >= slot.from
    /\ (sheet # None /\ sheet.trainer # None) =>
           \E k \in DOMAIN journal \ Presences :
               /\ journal[k].trainer = sheet.trainer
               /\ journal[k].slots = Cardinality(sheet.slots)
    /\ sheet # None => \A learner \in Learners :
           \A slot \in AttendedSlots(sheet, entries, learner) :
               \E k \in Presences : /\ journal[k].slot = slot.id /\ journal[k].learner = learner
                                    /\ journal[k].method # "absent"
                                    /\ journal[k].hours = Hours(slot)

\* The half-days of the days a session is held on, those out of its hours left out.
HalfDays(s, days) ==
    {slot \in UNION {{Slot(<<d, "am">>, d * Day + 36, d * Day + 52),
                      Slot(<<d, "pm">>, d * Day + 56, d * Day + 68)} : d \in days} :
        slot.from < s.end /\ slot.to > s.start}

\* A sheet has the half-days of its session.  When the session ends at an earlier time of
\* day than it starts, those of its last day are lost: the loop over the days keeps the
\* time of day of the start (attendance/attendance.go:203).
SheetCoversSession ==
    sheet # None /\ session.mode # "async" =>
        sheet.slots = HalfDays(session,
            LET last == session.end \div Day
            IN (session.start \div Day) ..
                   IF session.end % Day < session.start % Day THEN last - 1 ELSE last)

\* No handler is about to put a sheet with other slots.
Settled ==
    /\ sheet # None
    /\ \A h \in Handlers :
           /\ job[h].pc # "create"
           /\ job[h].pc = "ensured" /\ job[h].kind = "countersign" =>
                  job[h].copy.slots = sheet.slots

\* Handler h puts its countersignature on a copy that was read before any was there.
CountersignedUnseen(h) ==
    /\ job[h].pc = "ensured" /\ job[h].kind = "countersign" /\ job[h].copy.trainer = None
    /\ sheet'.trainer = h /\ job'[h].pc = "done"

\* A settled sheet stays so, with its slots; its countersignature stays, or another is put
\* by a handler that had not seen it.  Or a read of the sheet fails.
StaysSettled ==
    Settled => \/ /\ Settled'
                  /\ sheet'.slots = sheet.slots
                  /\ \/ sheet.trainer = None \/ sheet'.trainer = sheet.trainer
                     \/ \E h \in Handlers : CountersignedUnseen(h)
               \/ \E h \in Handlers : FailRead(h)

\* Once the first displays are over, a sheet keeps its slots for ever and is never without
\* its countersignature again, unless a read of it fails: the handler then takes it for
\* missing and puts a blank one.  The countersignature itself is replaced by nothing but
\* another whose handler read the sheet before the first was written: it may be played
\* again, against attendance_test.go:238, by two trainers at once and not one after the
\* other (attendance/attendance.go:162-196, 329-357).
SheetSettles == [][StaysSettled]_vars
========================================
