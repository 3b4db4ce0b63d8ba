------------------------------ MODULE Accounts -------------------------------
(***************************************************************************)
(* The accounts of the organisations (identity/*.go, httpapi/auth.go,      *)
(* team.go, invitation.go, profil.go, admin.go): how they are opened, by   *)
(* whom they are changed, the invitations that let their holder choose a   *)
(* password, the sessions, and the sessions that the team opens on them.   *)
(*                                                                         *)
(* An account is created in one transaction, under the condition that its  *)
(* address is free; every other write puts the whole record that was read  *)
(* earlier, without a condition.  A request is a list of such steps and    *)
(* may die between two of them.  Accounts, invitations and sessions are    *)
(* numbered as they are created.  A password is the number of the          *)
(* invitation through which it was chosen, or 0.  Names, photos and dates  *)
(* are left out, as are the events, best effort after the fact, which are  *)
(* the "org" requests of AuditLog.  kinds bounds what is asked in one      *)
(* behaviour; every set of Scenarios is tried.                             *)
(***************************************************************************)
EXTENDS Integers, Sequences, FiniteSets

CONSTANTS
    Orgs, Emails,
    Handlers,      \* instances, each serves one request after another
    Scenarios,     \* sets of requests, one for each behaviour
    AskedRoles,    \* the roles that are asked for colleagues
    Start,         \* the accounts at the start, all open
    MaxRequests,   \* MaxRequests[S]: how many are asked under scenario S
    MaxUsers, MaxInvitations, MaxSessions,
    None

Kinds == {"register", "open", "invite", "login", "accept", "profile", "password",
          "update", "impersonate", "end", "logout"}

Roles == {"owner", "admin", "trainer", "learner", "superadmin"}
TeamRoles == {"owner", "admin", "trainer"}

OpenAccount == [org : Orgs, email : Emails, role : Roles, disabled : {FALSE}, pwd : {0}]

AccountsConstants ==
    /\ Scenarios \subseteq SUBSET Kinds /\ AskedRoles \subseteq TeamRoles
    /\ Start \in Seq(OpenAccount) /\ Start # <<>>
    /\ \A k, l \in DOMAIN Start : Start[k].email = Start[l].email => k = l
    /\ MaxRequests \in [Scenarios -> Nat] /\ Len(Start) <= MaxUsers /\ Len(Start) <= MaxSessions
    /\ None \notin Nat /\ None \notin Kinds

VARIABLES
    kinds,        \* the requests of this behaviour
    asked,        \* the number of requests so far
    team,         \* the addresses of the team, set at the deployment
    users,        \* users[id]: the account
    pointer,      \* pointer[e]: the account that reserves address e, or None
    invitations,  \* invitations[t]: its account, whether it was used or has expired
    sessions,     \* sessions[s]: account, role and author of the session
    cookies,      \* the sessions whose token was given to a browser
    job           \* job[h]: where handler h is

tables == <<users, pointer, invitations, sessions, cookies>>
vars == <<kinds, asked, team, tables, job>>

-----------------------------------------------------------------------------

CanManageCRM(role) == role \in {"owner", "admin", "superadmin"}

\* Which roles the routes let through.
Allowed(kind, role) ==
    CASE kind \in {"invite", "update"}      -> CanManageCRM(role)
      [] kind \in {"impersonate", "open"}   -> role = "superadmin"
      [] OTHER                              -> TRUE

NewUser(org, e, role, pwd) ==
    [org |-> org, email |-> e, role |-> role, disabled |-> pwd = None, pwd |-> pwd]

NewInvitation(id) == [user |-> id, used |-> FALSE, expired |-> FALSE]

NewSession(id, role, by) == [user |-> id, role |-> role, by |-> by, live |-> TRUE]

Idle == [pc |-> "idle", kind |-> None, session |-> None, id |-> None, email |-> None,
         role |-> None, copy |-> None, after |-> None, others |-> {}, invitation |-> None,
         by |-> None, out |-> None]

Init ==
    /\ kinds \in Scenarios /\ asked = 0
    /\ users = Start
    /\ team \in {{}, {Start[k].email : k \in {i \in DOMAIN Start : Start[i].role = "superadmin"}}}
                \cup {{Start[1].email}}
    /\ pointer = [e \in Emails |->
                    IF \E k \in DOMAIN Start : Start[k].email = e
                    THEN CHOOSE k \in DOMAIN Start : Start[k].email = e ELSE None]
    /\ invitations = <<>>
    /\ sessions = [k \in DOMAIN Start |-> NewSession(k, Start[k].role, None)]
    /\ cookies = DOMAIN Start
    /\ job = [h \in Handlers |-> Idle]

\* Handler h goes on as j.
Goto(h, j) == job' = [job EXCEPT ![h] = j] /\ UNCHANGED <<kinds, team>>

Begin(h, kind) ==
    /\ job[h].pc = "idle" /\ kind \in kinds
    /\ asked < MaxRequests[kinds] /\ asked' = asked + 1

\* The request comes with the cookie of session s, which requireAuth reads.
In(h, kind, s) ==
    /\ Begin(h, kind)
    /\ s \in cookies /\ sessions[s].live
    /\ Allowed(kind, sessions[s].role)

\* The account of session s.
Self(s) == users[sessions[s].user]

-----------------------------------------------------------------------------
(* Opening an account *)

\* Faulty: the address is not checked in the transaction.
FaultyCreate(user, invited) ==
    /\ Len(users) < MaxUsers /\ (invited => Len(invitations) < MaxInvitations)
    /\ users' = Append(users, user)
    /\ pointer' = [pointer EXCEPT ![user.email] = Len(users) + 1]
    /\ invitations' = IF invited THEN Append(invitations, NewInvitation(Len(users) + 1))
                      ELSE invitations

\* The account, its address and its invitation, if the address is free.
Create(user, invited) ==
    /\ pointer[user.email] = None
    /\ Len(users) < MaxUsers /\ (invited => Len(invitations) < MaxInvitations)
    /\ users' = Append(users, user)
    /\ pointer' = [pointer EXCEPT ![user.email] = Len(users) + 1]
    /\ invitations' = IF invited THEN Append(invitations, NewInvitation(Len(users) + 1))
                      ELSE invitations

FreeOrgs == Orgs \ {users[id].org : id \in DOMAIN users}

\* An organisation and its owner, who registers.
Register(h, org, e) ==
    /\ Begin(h, "register") /\ org \in FreeOrgs
    /\ Create(NewUser(org, e, "owner", 0), FALSE)
    /\ UNCHANGED <<kinds, team, sessions, cookies, job>>

\* The same, opened by the team: the owner will choose a password.
OpenOrg(h, s, org, e) ==
    /\ In(h, "open", s) /\ org \in FreeOrgs
    /\ Create(NewUser(org, e, "owner", None), TRUE)
    /\ UNCHANGED <<kinds, team, sessions, cookies, job>>

\* A colleague or a learner is invited: is the address known?  A learner's address is never
\* a colleague's, nor is one of another organisation accepted.
ReadInvite(h, s, e, role) ==
    /\ In(h, "invite", s)
    /\ \/ /\ pointer[e] = None
          /\ Goto(h, [Idle EXCEPT !.pc = "create", !.email = e, !.role = role, !.session = s])
       \/ /\ pointer[e] # None
          /\ users[pointer[e]].org = Self(s).org
          /\ (role = "learner") = (users[pointer[e]].role = "learner")
          /\ Goto(h, [Idle EXCEPT !.pc = "reinvite", !.id = pointer[e],
                                  !.after = [users[pointer[e]] EXCEPT !.role = role],
                                  !.copy = users[pointer[e]]])
    /\ UNCHANGED tables

CreateInvited(h) ==
    /\ job[h].pc = "create"
    /\ \/ Create(NewUser(Self(job[h].session).org, job[h].email, job[h].role, None), TRUE)
       \/ /\ pointer[job[h].email] # None
          /\ UNCHANGED <<users, pointer, invitations>>
    /\ Goto(h, Idle)
    /\ UNCHANGED <<sessions, cookies>>

\* A second invitation; a colleague's account is put with the role that is asked.
Reinvite(h) ==
    /\ job[h].pc = "reinvite" /\ Len(invitations) < MaxInvitations
    /\ users' = IF job[h].copy.role = "learner" THEN users
                ELSE [users EXCEPT ![job[h].id] = job[h].after]
    /\ invitations' = Append(invitations, NewInvitation(job[h].id))
    /\ Goto(h, Idle)
    /\ UNCHANGED <<pointer, sessions, cookies>>

-----------------------------------------------------------------------------
(* Choosing a password *)

Resolvable(t) == ~ invitations[t].used /\ ~ invitations[t].expired

ReadInvitation(h, t) ==
    /\ Begin(h, "accept") /\ Resolvable(t)
    /\ Goto(h, [Idle EXCEPT !.pc = "account", !.invitation = t, !.id = invitations[t].user])
    /\ UNCHANGED tables

\* Faulty: the account is built anew, as an invited learner's.
FaultyChosen(user, t) == [user EXCEPT !.role = "learner", !.pwd = t, !.disabled = FALSE]

Chosen(user, t) == [user EXCEPT !.pwd = t, !.disabled = FALSE]

ReadAccount(h) ==
    /\ job[h].pc = "account"
    /\ Goto(h, [job[h] EXCEPT !.pc = "accept", !.copy = users[job[h].id],
                              !.after = Chosen(users[job[h].id], job[h].invitation)])
    /\ UNCHANGED tables

\* The account and the invitation together, then a session.
Accept(h) ==
    /\ job[h].pc = "accept"
    /\ users' = [users EXCEPT ![job[h].id] = job[h].after]
    /\ invitations' = [invitations EXCEPT ![job[h].invitation].used = TRUE]
    /\ Goto(h, [job[h] EXCEPT !.pc = "session", !.copy = job[h].after])
    /\ UNCHANGED <<pointer, sessions, cookies>>

Expire(t) ==
    /\ "accept" \in kinds /\ Resolvable(t)
    /\ invitations' = [invitations EXCEPT ![t].expired = TRUE]
    /\ UNCHANGED <<kinds, asked, team, users, pointer, sessions, cookies, job>>

-----------------------------------------------------------------------------
(* Sessions *)

\* The role that the list of the team wants for user, None if it has it.  An empty list
\* changes nothing.
RoleOfList(user) ==
    IF (user.email \in team) = (user.role = "superadmin") \/ team = {} THEN None
    ELSE IF user.email \in team THEN "superadmin" ELSE "owner"

ReadLogin(h, e) ==
    /\ Begin(h, "login") /\ pointer[e] # None
    /\ LET user == users[pointer[e]] IN
       /\ user.pwd # None /\ ~ user.disabled
       /\ Goto(h, [Idle EXCEPT !.pc = "session", !.kind = "login", !.id = pointer[e],
                               !.copy = user, !.after = user, !.role = RoleOfList(user)])
    /\ UNCHANGED tables

\* The session bears the role the account had when it was read.
OpenSession(h) ==
    /\ job[h].pc = "session" /\ Len(sessions) < MaxSessions
    /\ sessions' = Append(sessions, NewSession(job[h].id, job[h].copy.role, job[h].by))
    /\ Goto(h, [job[h] EXCEPT !.out = Len(sessions) + 1,
                              !.pc = CASE job[h].kind = "login" -> "stamp"
                                       [] job[h].kind = "end"   -> "leave"
                                       [] OTHER                 -> "answer"])
    /\ UNCHANGED <<users, pointer, invitations, cookies>>

\* The account is put with the date of the login.
Stamp(h) ==
    /\ job[h].pc = "stamp"
    /\ users' = [users EXCEPT ![job[h].id] = job[h].copy]
    /\ Goto(h, [job[h] EXCEPT !.pc = IF job[h].role = None THEN "answer" ELSE "promote",
                              !.after = IF job[h].role = None THEN @
                                        ELSE [job[h].copy EXCEPT !.role = job[h].role]])
    /\ UNCHANGED <<pointer, invitations, sessions, cookies>>

Promote(h) ==
    /\ job[h].pc = "promote"
    /\ users' = [users EXCEPT ![job[h].id] = job[h].after]
    /\ Goto(h, [job[h] EXCEPT !.pc = "promoteSession"])
    /\ UNCHANGED <<pointer, invitations, sessions, cookies>>

PromoteSession(h) ==
    /\ job[h].pc = "promoteSession"
    /\ sessions' = [sessions EXCEPT ![job[h].out].role = job[h].role]
    /\ Goto(h, [job[h] EXCEPT !.pc = "answer"])
    /\ UNCHANGED <<users, pointer, invitations, cookies>>

\* A failure there is logged, and the login goes on.
PromoteFails(h) ==
    /\ job[h].pc \in {"promote", "promoteSession"}
    /\ Goto(h, [job[h] EXCEPT !.pc = "answer"])
    /\ UNCHANGED tables

\* The browser gets its cookie.
Answer(h) ==
    /\ job[h].pc = "answer"
    /\ cookies' = cookies \cup {job[h].out}
    /\ Goto(h, Idle)
    /\ UNCHANGED <<users, pointer, invitations, sessions>>

\* A logout, or the end of its twelve hours.
EndSession(s) ==
    /\ "logout" \in kinds /\ sessions[s].live
    /\ sessions' = [sessions EXCEPT ![s].live = FALSE]
    /\ UNCHANGED <<kinds, asked, team, users, pointer, invitations, cookies, job>>

\* The owner the team meets: the first that is open, or else a manager.
FirstOwner(org) ==
    LET Open(ok(_)) == {id \in DOMAIN users :
                            users[id].org = org /\ ok(users[id].role) /\ ~ users[id].disabled}
        First(ids) == {id \in ids : \A other \in ids : id <= other}
        IsOwner(role) == role = "owner"
    IN IF Open(IsOwner) # {} THEN First(Open(IsOwner)) ELSE First(Open(CanManageCRM))

\* The contact whom the team stands in for: any open account of the organisation.
OpenAccounts(org) == {id \in DOMAIN users : users[id].org = org /\ ~ users[id].disabled}

Impersonate(h, s, org) ==
    /\ In(h, "impersonate", s)
    /\ \E id \in FirstOwner(org) \cup OpenAccounts(org) :
          Goto(h, [Idle EXCEPT !.pc = "session", !.kind = "impersonate", !.id = id,
                               !.copy = users[id], !.by = sessions[s].user])
    /\ UNCHANGED tables

\* Back to the account that had opened the session, if it is still of the team.
EndImpersonation(h, s) ==
    /\ In(h, "end", s) /\ sessions[s].by # None
    /\ LET author == users[sessions[s].by] IN
       /\ author.role = "superadmin" /\ ~ author.disabled
       /\ Goto(h, [Idle EXCEPT !.pc = "session", !.kind = "end", !.session = s,
                               !.id = sessions[s].by, !.copy = author])
    /\ UNCHANGED tables

Leave(h) ==
    /\ job[h].pc = "leave"
    /\ sessions' = [sessions EXCEPT ![job[h].session].live = FALSE]
    /\ Goto(h, [job[h] EXCEPT !.pc = "answer"])
    /\ UNCHANGED <<users, pointer, invitations, cookies>>

-----------------------------------------------------------------------------
(* Changing an account *)

\* One's own: the name or the photo, or the password, which is never another's.
ReadSelf(h, s, kind) ==
    /\ kind \in {"profile", "password"} /\ In(h, kind, s)
    /\ kind = "password" => sessions[s].by = None /\ Self(s).pwd # None
    /\ Goto(h, [Idle EXCEPT !.pc = "save", !.kind = kind, !.id = sessions[s].user, !.copy = Self(s),
                            !.after = IF kind = "profile" THEN Self(s) ELSE [Self(s) EXCEPT !.pwd = 0]])
    /\ UNCHANGED tables

\* Faulty: a suspension is not counted as the loss of an owner.
FaultyLosesOwner(before, after) ==
    before.role = "owner" /\ ~ before.disabled /\ after.role # "owner"

LosesOwner(before, after) ==
    before.role = "owner" /\ ~ before.disabled /\ (after.role # "owner" \/ after.disabled)

\* A colleague's role or access, None where it is left.  Nobody suspends oneself; an account
\* without a password is not reopened.
ReadUpdate(h, s, id, role, disabled) ==
    /\ In(h, "update", s)
    /\ users[id].org = Self(s).org /\ users[id].role # "learner"
    /\ ~ (disabled = TRUE /\ id = sessions[s].user)
    /\ ~ (disabled = FALSE /\ users[id].pwd = None)
    /\ LET before == users[id]
           after == [before EXCEPT !.role = IF role = None THEN @ ELSE role,
                                   !.disabled = IF disabled = None THEN @ ELSE disabled]
       IN Goto(h, [Idle EXCEPT !.pc = IF LosesOwner(before, after) THEN "count" ELSE "save",
                               !.kind = "update", !.id = id, !.copy = before, !.after = after])
    /\ UNCHANGED tables

ActiveOwners(us, org) ==
    {id \in DOMAIN us : us[id].org = org /\ us[id].role = "owner" /\ ~ us[id].disabled}

\* Another owner must remain.
CountOwners(h) ==
    LET others == ActiveOwners(users, job[h].copy.org) \ {job[h].id} IN
    /\ job[h].pc = "count"
    /\ Goto(h, IF others = {} THEN Idle ELSE [job[h] EXCEPT !.pc = "save", !.others = others])
    /\ UNCHANGED tables

Save(h) ==
    /\ job[h].pc = "save"
    /\ users' = [users EXCEPT ![job[h].id] = job[h].after]
    /\ Goto(h, Idle)
    /\ UNCHANGED <<pointer, invitations, sessions, cookies>>

-----------------------------------------------------------------------------

\* An error of the store, or the death of the instance.
GiveUp(h) ==
    /\ job[h].pc # "idle"
    /\ Goto(h, Idle)
    /\ UNCHANGED tables

\* What each route takes from the request.
HandleRegister(h) == \E org \in Orgs, e \in Emails : Register(h, org, e)

HandleOpenOrg(h) == \E s \in cookies, org \in Orgs, e \in Emails : OpenOrg(h, s, org, e)

HandleInviteTeamMember(h) == \E s \in cookies, e \in Emails, role \in AskedRoles : ReadInvite(h, s, e, role)

HandleInviteLearner(h) == \E s \in cookies, e \in Emails : ReadInvite(h, s, e, "learner")

HandleUpdateProfil(h) == \E s \in cookies, kind \in {"profile", "password"} : ReadSelf(h, s, kind)

HandleUpdateTeamMember(h) ==
    \E s \in cookies, id \in DOMAIN users, role \in AskedRoles \cup {None}, disabled \in BOOLEAN \cup {None} :
        ReadUpdate(h, s, id, role, disabled)

HandleImpersonate(h) == \E s \in cookies, org \in Orgs : Impersonate(h, s, org)

HandleEndImpersonation(h) == \E s \in cookies : EndImpersonation(h, s)

HandleInvitationAccept(h) == \E t \in DOMAIN invitations : ReadInvitation(h, t)

HandleLogin(h) == \E e \in Emails : ReadLogin(h, e)

Ask(h) ==
    \/ HandleRegister(h) \/ HandleOpenOrg(h) \/ HandleInviteTeamMember(h) \/ HandleInviteLearner(h)
    \/ HandleUpdateProfil(h) \/ HandleUpdateTeamMember(h) \/ HandleImpersonate(h)
    \/ HandleEndImpersonation(h) \/ HandleInvitationAccept(h) \/ HandleLogin(h)

Continue(h) ==
    /\ UNCHANGED asked
    /\ \/ CreateInvited(h) \/ Reinvite(h) \/ ReadAccount(h) \/ Accept(h)
       \/ OpenSession(h) \/ Stamp(h) \/ Promote(h) \/ PromoteSession(h) \/ PromoteFails(h)
       \/ Leave(h) \/ Answer(h) \/ CountOwners(h) \/ Save(h) \/ GiveUp(h)

Next == \/ \E h \in Handlers : Ask(h) \/ Continue(h)
        \/ \E t \in DOMAIN invitations : Expire(t)
        \/ \E s \in cookies : EndSession(s)

Spec == Init /\ [][Next]_vars

-----------------------------------------------------------------------------
(* Properties *)

TypeOK ==
    /\ kinds \in Scenarios /\ asked \in 0 .. MaxRequests[kinds] /\ team \subseteq Emails
    /\ \A id \in DOMAIN users :
           users[id] \in [org : Orgs, email : Emails, role : Roles, disabled : BOOLEAN,
                          pwd : {None, 0} \cup DOMAIN invitations]
    /\ pointer \in [Emails -> {None} \cup DOMAIN users]
    /\ \A s \in DOMAIN sessions :
           sessions[s] \in [user : DOMAIN users, role : Roles, by : {None} \cup DOMAIN users,
                            live : BOOLEAN]
    /\ cookies \subseteq DOMAIN sessions

\* Whatever invitations, registrations and answers race: an address belongs to one account,
\* an account without a password is closed, a password chosen through an invitation is that
\* of its account and uses the invitation up (service.go:40-73, invitation.go:95-128,
\* 169-186, team.go:80-104 and 137-145).
AccountsWhole ==
    /\ TypeOK
    /\ \A id \in DOMAIN users : pointer[users[id].email] = id
    /\ \A id \in DOMAIN users : users[id].pwd = None => users[id].disabled
    /\ \A id \in DOMAIN users :
           users[id].pwd \in DOMAIN invitations =>
               /\ invitations[users[id].pwd].user = id
               /\ invitations[users[id].pwd].used

\* Handler h is about to put account id, from a copy that is no longer its record.
Stale(h, id) == job[h].id = id /\ job[h].copy # users[id]

Late(id) == \E h \in Handlers : Stale(h, id)
Writes(pcs, id) == \E h \in Handlers : job[h].pc \in pcs /\ job[h].id = id
Saves(kind, id) == \E h \in Handlers : job[h].pc = "save" /\ job[h].kind = kind /\ job[h].id = id

\* A step after which nobody owns an organisation any more.
OwnersLostByRace ==
    \A org \in Orgs :
        ActiveOwners(users, org) # {} /\ ActiveOwners(users', org) = {} =>
            \E h \in Handlers :
                \/ job[h].pc = "reinvite"
                \/ job[h].pc = "promote"
                \/ job[h].pc \in {"stamp", "accept", "save"} /\ Stale(h, job[h].id)
                \/ job[h].pc = "save" /\ ~ (job[h].others \subseteq ActiveOwners(users, org))

\* The last owner who can come in is lost only by a second invitation with another role, by
\* the list of the team, or by a write whose check was overtaken: the record, or the owners
\* it counted, changed since.  The check alone never lets it happen (team.go:108-165).
OnlyRacesLoseOwners == [][OwnersLostByRace]_vars

\* A step that changes the role, the access or the password of an account.
RevertedByStaleWrite ==
    \A id \in DOMAIN users :
        /\ users'[id].role # users[id].role =>
              Late(id) \/ Writes({"reinvite", "promote"}, id) \/ Saves("update", id)
        /\ users'[id].disabled # users[id].disabled =>
              Late(id) \/ Writes({"accept"}, id) \/ Saves("update", id)
        /\ users'[id].pwd # users[id].pwd =>
              Late(id) \/ Writes({"accept"}, id) \/ Saves("password", id)

\* A request changes of an account what it is about, and puts back something else only over
\* a change made while it ran.  A login or a profile never moves a role nor reopens an account;
\* an accepted invitation never moves a role, but it opens the account, whether it was never
\* open or was suspended since the invitation (service.go:141-145, invitation.go:173-186,
\* profil.go:28-89, directory.go:252-260).
OnlyStaleWritesRevert == [][RevertedByStaleWrite]_vars
=============================================================================
