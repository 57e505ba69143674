-------------------------------- MODULE Team --------------------------------
(***************************************************************************)
(* The people of one organisation: invitations and their links, access,    *)
(* removal (services/user_service.py, endpoints/team.py), and the erasure  *)
(* of those who asked for it (purge_deleted_accounts).                     *)
(*                                                                         *)
(* A person is a phone number, which is unique among the accounts; an      *)
(* erased account gives its number up, as a removed one does.  A manager   *)
(* is a role with user:manage and user:invite.                             *)
(*                                                                         *)
(* Left out: assignments to properties, profiles, the sessions of whom     *)
(* access is withdrawn (see Logins), and exports.                          *)
(***************************************************************************)
EXTENDS Naturals

CONSTANTS
    People,        \* phone numbers
    Founders,      \* those who manage the organisation at first
    Invitations,   \* keys of invitations
    Panels,        \* requests and tasks that can be in flight at a time
    LinkHours,     \* how long an invitation's link is good
    GraceHours,    \* how long a deletion can be cancelled
    LastHour,      \* bound: the last moment looked at
    MaxLinks,      \* bound: how often an invitation is sent
    MaxActs        \* bound: how many requests are looked at

ASSUME TeamAssumption ==
    /\ {LinkHours, GraceHours, LastHour, MaxLinks, MaxActs} \subseteq Nat
    /\ Founders \subseteq People /\ LastHour > 0 /\ MaxLinks > 0

VARIABLES
    hour,    \* the time
    staff,   \* the committed rows
    panel,   \* the request each session is serving
    acts     \* how many requests have begun

teamVars == <<hour, staff, panel, acts>>

Panel == INSTANCE Sessions WITH Workers <- Panels, MaxRequests <- MaxActs,
             db <- staff, work <- panel, begun <- acts

Hours == 1 .. LastHour

(* asked: when the deletion was asked for, or 0; nth: how many accounts the
   number has had *)
Member(manager, nth) == [status |-> "active", manager |-> manager, asked |-> 0, nth |-> nth]

Stranger(nth) == [status |-> "none", manager |-> FALSE, asked |-> 0, nth |-> nth]

Unsent == [status |-> "none", who |-> "nobody", manager |-> FALSE, link |-> 0, until |-> 0]

IsStaff(rows) ==
    /\ rows.user \in [People -> [status : {"none", "active", "inactive"}, manager : BOOLEAN,
                                 asked : 0 .. LastHour, nth : Nat]]
    /\ rows.invite \in [Invitations ->
            [status : {"none", "PENDING", "ACCEPTED", "REVOKED", "EXPIRED"},
             who : People \cup {"nobody"}, manager : BOOLEAN,
             link : 0 .. MaxLinks, until : 0 .. LastHour + LinkHours]]

TeamTypeOK ==
    /\ hour \in Hours /\ acts \in 0 .. MaxActs
    /\ IsStaff(staff)
    /\ \A c \in Panels : Panel!IsWork(panel[c], IsStaff, {})

TeamInit ==
    /\ hour = 1
    /\ staff = [user |-> [p \in People |->
                    IF p \in Founders THEN Member(TRUE, 1) ELSE Stranger(0)],
                invite |-> [i \in Invitations |-> Unsent]]
    /\ panel = [c \in Panels |-> Panel!Idle]
    /\ acts = 0

Prepare(c, new) == Panel!Prepares(c, new) /\ UNCHANGED hour

Belongs(p) == staff.user[p].status # "none"

Managers == {p \in People : staff.user[p].status = "active" /\ staff.user[p].manager}

-----------------------------------------------------------------------------
(* Invitations *)

(* invite_user; other invitations of the same number are not looked for *)
Invite(c, i, p, manager) ==
    /\ Managers # {} /\ ~Belongs(p)
    /\ Panel!Fresh("invite", i, Unsent)
    /\ Prepare(c, [staff EXCEPT !.invite[i] =
            [status |-> "PENDING", who |-> p, manager |-> manager, link |-> 1,
             until |-> hour + LinkHours]])

LinkExpired(i) == staff.invite[i].until <= hour

(* preview_invitation commits only when the link has expired *)
PreviewInvitation(c, i, link) ==
    /\ staff.invite[i].link = link /\ staff.invite[i].status = "PENDING" /\ LinkExpired(i)
    /\ Prepare(c, [staff EXCEPT !.invite[i].status = "EXPIRED"])

(* the unique phone number makes a second INSERT wait for the first *)
Joining(p) ==
    \E c \in Panels : panel[c].at = "ready" /\ panel[c].is.user[p].nth # panel[c].was.user[p].nth

(* accept_invitation *)
AcceptInvitation(c, i, link) ==
    /\ staff.invite[i].link = link /\ staff.invite[i].status = "PENDING" /\ ~LinkExpired(i)
    /\ LET p == staff.invite[i].who
       IN  /\ ~Belongs(p) /\ ~Joining(p)
           /\ Prepare(c, [staff EXCEPT
                !.user[p] = Member(staff.invite[i].manager, @.nth + 1),
                !.invite[i].status = "ACCEPTED"])

(* revoke_invitation, whatever has become of it *)
RevokeInvitation(c, i) ==
    /\ Managers # {} /\ staff.invite[i].status # "none"
    /\ Prepare(c, [staff EXCEPT !.invite[i].status = "REVOKED"])

(* resend_invitation *)
ResendInvitation(c, i) ==
    /\ Managers # {} /\ staff.invite[i].status = "PENDING" /\ staff.invite[i].link < MaxLinks
    /\ Prepare(c, [staff EXCEPT !.invite[i].link = @ + 1, !.invite[i].until = hour + LinkHours])

-----------------------------------------------------------------------------
(* Members *)

RemoveAnybody(c, by, p) ==   \* mutant: managers may remove themselves
    /\ by \in Managers /\ Belongs(p)
    /\ Prepare(c, [staff EXCEPT !.user[p] = Stranger(@.nth)])

(* remove_member *)
RemoveMember(c, by, p) ==
    /\ by \in Managers /\ Belongs(p) /\ p # by
    /\ Prepare(c, [staff EXCEPT !.user[p] = Stranger(@.nth)])

(* set_user_access *)
SetUserAccess(c, by, p, status) ==
    /\ by \in Managers /\ Belongs(p)
    /\ p = by => status = "active"
    /\ Prepare(c, [staff EXCEPT !.user[p].status = status])

(* request_account_deletion *)
RequestDeletion(c, p) ==
    /\ staff.user[p].status = "active"
    /\ Prepare(c, [staff EXCEPT !.user[p].asked = hour])

(* cancel_account_deletion: whoever has been deactivated meanwhile cannot *)
CancelDeletion(c, p) ==
    /\ staff.user[p].status = "active"
    /\ Prepare(c, [staff EXCEPT !.user[p].asked = 0])

Erasable(p) ==
    /\ Belongs(p) /\ staff.user[p].asked # 0
    /\ staff.user[p].asked + GraceHours <= hour

(* purge_deleted_accounts *)
PurgeDeletedAccounts(c) ==
    Prepare(c, [staff EXCEPT !.user = [p \in People |->
        IF Erasable(p) THEN Stranger(staff.user[p].nth) ELSE staff.user[p]]])

(* a row that is gone by now, be there another account of the same number, is
   not updated *)
Gone(c) ==
    \E p \in People :
        /\ panel[c].was.user[p].status # "none" /\ panel[c].is.user[p] # panel[c].was.user[p]
        /\ staff.user[p].nth # panel[c].was.user[p].nth \/ ~Belongs(p)

SaveTeam(c) == panel[c].at = "ready" /\ ~Gone(c) /\ Panel!Saves(c) /\ UNCHANGED hour

DropTeam(c) == Panel!Drops(c) /\ UNCHANGED hour

NextHour ==
    /\ hour < LastHour
    /\ hour' = hour + 1
    /\ UNCHANGED <<staff, panel, acts>>

TeamNext ==
    \/ NextHour
    \/ \E c \in Panels :
        \/ SaveTeam(c) \/ DropTeam(c) \/ PurgeDeletedAccounts(c)
        \/ \E i \in Invitations :
            \/ \E p \in People, manager \in BOOLEAN : Invite(c, i, p, manager)
            \/ \E link \in 1 .. MaxLinks : PreviewInvitation(c, i, link) \/ AcceptInvitation(c, i, link)
            \/ RevokeInvitation(c, i) \/ ResendInvitation(c, i)
        \/ \E by, p \in People :
            \/ RemoveMember(c, by, p)
            \/ \E status \in {"active", "inactive"} : SetUserAccess(c, by, p, status)
        \/ \E p \in People : RequestDeletion(c, p) \/ CancelDeletion(c, p)

TeamSpec == TeamInit /\ [][TeamNext]_teamVars

-----------------------------------------------------------------------------
(* Properties *)

(* user_service.py:494 and :525.  An organisation keeps somebody who can manage
   it: the last one goes only when two requests overlap, as when two managers
   remove or deactivate each other, or by being erased as they asked and did
   not take back within the grace period. *)
OnlyOverlapOrOwnWishLocksOut ==
    [][ (\E c \in Panels : Panel!StaleSave(c)) \/
        (Managers # {} /\ Managers' = {} => \A p \in Managers : Erasable(p)) ]_teamVars
=============================================================================
