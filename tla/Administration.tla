--------------------------- MODULE Administration ----------------------------
(* The administration of a training centre: its invoices (Invoicing), and the accounts    *)
(* of its people (Accounts).  The two share no table.                                     *)
EXTENDS Invoicing

CONSTANTS Orgs, Emails, Desks, Scenarios, AskedRoles, Start,
          MaxRequests, MaxUsers, MaxInvitations, MaxSessions

VARIABLES kinds, asked, team, users, pointer, invitations, sessions, cookies, desk

A == INSTANCE Accounts WITH Handlers <- Desks, job <- desk

accounts == <<kinds, asked, team, users, pointer, invitations, sessions, cookies, desk>>

AccountsWhole == A!AccountsWhole
OnlyRacesLoseOwners == A!OnlyRacesLoseOwners
OnlyStaleWritesRevert == A!OnlyStaleWritesRevert
=============================================================================
