------------------------------- MODULE Members -------------------------------
(***************************************************************************)
(* Who belongs to an organization: authentication (auth.py,                *)
(* db/database.py authorize_tenant), the members and invitations routes    *)
(* and repositories, the administrative commands (db/admin.py) and the     *)
(* row-level policies of the database they all write to.                   *)
(*                                                                         *)
(* A request reads its actor's role once, when it is authenticated, and    *)
(* uses it after several awaits; the policies look the role up again at    *)
(* every statement.  Member changes hold the organization's row (SELECT    *)
(* FOR UPDATE) from their first statement to their commit; the claim of an *)
(* invitation and the administrative commands do not.  Statements of one   *)
(* transaction are merged where no other writer can tell.                  *)
(***************************************************************************)
EXTENDS Naturals, FiniteSets

CONSTANTS
  Users,      \* users, each with one verified e-mail address
  Procs,      \* requests being served at the same time
  RolesAsked, \* bound: the roles requests ask for
  MaxLogins,  \* bound: requests authenticated
  MaxAdmin,   \* bound: administrative commands
  None

Roles == {"owner", "admin", "member", "viewer"}

ASSUME MembersAssumption ==
  /\ IsFiniteSet(Users)
  /\ RolesAsked \subseteq Roles
  /\ MaxLogins \in Nat /\ MaxAdmin \in Nat
  /\ None \notin Users /\ None \notin Procs /\ None \notin Roles

VARIABLES
  role,    \* organization_members.role of each user, or None
  row,     \* the users row: "absent", "bare", or "email" with its address
  invite,  \* organization_invitations.role by address, or None
  lock,    \* the request that holds the organization's row
  pc,      \* where each request is
  req,     \* its actor and principal role, and what it changes
  outside, \* history: a role changed without the lock since it was taken
  logins, admin

vars == <<role, row, invite, lock, pc, req, outside, logins, admin>>
data == <<role, row, invite>>

\* A request as authenticated, and what it then asks for.
As(u, r) == [actor |-> u, role |-> r, op |-> None, target |-> None, new |-> None]

Asking(p, op, t, new) ==
  [actor |-> req[p].actor, role |-> req[p].role, op |-> op, target |-> t, new |-> new]

Init ==
  /\ role = [u \in Users |-> None]
  /\ row = [u \in Users |-> "absent"]
  /\ invite = [u \in Users |-> None]
  /\ lock = None
  /\ pc = [p \in Procs |-> "idle"]
  /\ req = [p \in Procs |-> As(None, None)]
  /\ outside = FALSE
  /\ logins = 0
  /\ admin = 0

Owners == {u \in Users : role[u] = "owner"}
Members == {u \in Users : role[u] # None}

\* RequestPrincipal.can_manage_role, which the policies repeat in SQL.
CanManage(r, target) ==
  \/ r = "owner"
  \/ r = "admin" /\ target \in {"member", "viewer"}

\* The members:write permission.
IsManager(r) == r \in {"owner", "admin"}

\* A request ends, with or without an error.
End(p) ==
  /\ pc' = [pc EXCEPT ![p] = "idle"]
  /\ req' = [req EXCEPT ![p] = As(None, None)]

-----------------------------------------------------------------------------
(* Authentication.                                                         *)

\* The row of a member is locked by the change that has read it.
RowLocked(u) ==
  \E p \in Procs : pc[p] = "checked" /\ req[p].target = u /\ req[p].op # "grant"

\* authorize_tenant: the membership, if there is one ...
Authorize(p, u) ==
  /\ pc[p] = "idle"
  /\ logins < MaxLogins
  /\ logins' = logins + 1
  /\ pc' = [pc EXCEPT ![p] = IF role[u] # None THEN "authorized" ELSE "claiming"]
  /\ req' = [req EXCEPT ![p] = As(u, role[u])]
  /\ UNCHANGED <<data, lock, outside, admin>>

\* ... or else, in a later statement, claim_organization_invitation.
Claim(p) ==
  LET u == req[p].actor IN
  /\ pc[p] = "claiming"
  /\ \/ /\ invite[u] # None
        /\ ~RowLocked(u)
        /\ role' = [role EXCEPT ![u] = invite[u]]
        /\ row' = [row EXCEPT ![u] = "email"]
        /\ invite' = [invite EXCEPT ![u] = None]
        /\ pc' = [pc EXCEPT ![p] = "authorized"]
        /\ req' = [req EXCEPT ![p] = As(u, invite[u])]
        /\ outside' = TRUE
     \/ /\ invite[u] = None       \* 403
        /\ End(p)
        /\ UNCHANGED <<data, outside>>
  /\ UNCHANGED <<lock, logins, admin>>

\* GET /api/v2/me: sync_user_profile writes the address of the token.
SyncProfile(p) ==
  /\ pc[p] = "authorized"
  /\ row' = [row EXCEPT ![req[p].actor] = "email"]
  /\ End(p)
  /\ UNCHANGED <<role, invite, lock, outside, logins, admin>>

-----------------------------------------------------------------------------
(* POST, PATCH and DELETE /api/v2/members.                                 *)

\* Faulty variant: the organization's row is not locked.
NoOrgLock(p) == TRUE

OrgLockFree(p) == lock = None

\* The permission, the route's test of the role asked for, and the lock.
Lock(p, op, target, new) ==
  /\ pc[p] = "authorized"
  /\ IsManager(req[p].role)
  /\ new # None => CanManage(req[p].role, new)
  /\ (op = "revoke") <=> (new = None)
  /\ OrgLockFree(p)
  /\ lock' = p
  /\ pc' = [pc EXCEPT ![p] = "locked"]
  /\ req' = [req EXCEPT ![p] = Asking(p, op, target, new)]
  /\ outside' = FALSE
  /\ UNCHANGED <<data, logins, admin>>

\* Faulty variant: the policies trust the role the request was authenticated with.
MayWriteAsPrincipal(p, r) == CanManage(req[p].role, r)

\* The row-level policies on organization_members and organization_invitations:
\* what the actor's membership allows at the moment of the statement.  (The insert
\* policy also lets a first owner insert itself; grant_member never gets that far, since
\* an authenticated actor already has its users row.)
MayWrite(p, r) == CanManage(role[req[p].actor], r)

\* SELECT ... FOR UPDATE returns the rows the update policy lets through.
Visible(p) ==
  LET t == req[p].target IN role[t] # None /\ MayWrite(p, role[t])

\* The tests a member change makes on the row it has locked.
MayProceed(p) ==
  LET t == req[p].target IN
  IF req[p].op = "grant" THEN ~Visible(p)     \* ExistingMemberError
  ELSE /\ Visible(p)                          \* KeyError
       /\ CanManage(req[p].role, role[t])     \* PermissionError
       /\ role[t] = "owner" /\ req[p].new # "owner" => Cardinality(Owners) > 1

Check(p) ==
  /\ pc[p] = "locked"
  /\ \/ /\ MayProceed(p)
        /\ pc' = [pc EXCEPT ![p] = "checked"]
        /\ UNCHANGED <<req, lock>>
     \/ /\ ~MayProceed(p)
        /\ End(p)
        /\ lock' = None
  /\ UNCHANGED <<data, outside, logins, admin>>

\* The write of a member change goes through.  grant_member inserts the users row
\* first: if that row exists the insert raises and, though the exception is
\* swallowed, the transaction is aborted.  update_member_role and revoke_member find
\* no row that the policy hides; a new role it refuses raises.
Writable(p) ==
  /\ IF req[p].op = "grant" THEN row[req[p].target] = "absent" ELSE Visible(p)
  /\ req[p].new # None => MayWrite(p, req[p].new)

Commit(p) ==
  LET t == req[p].target IN
  /\ pc[p] = "checked"
  /\ \/ /\ Writable(p)
        /\ role' = [role EXCEPT ![t] = req[p].new]
        /\ IF req[p].op = "grant"
           THEN \E address \in {"bare", "email"} : row' = [row EXCEPT ![t] = address]
           ELSE UNCHANGED row
     \/ ~Writable(p) /\ UNCHANGED <<role, row>>
  /\ End(p)
  /\ lock' = None
  /\ UNCHANGED <<invite, outside, logins, admin>>

-----------------------------------------------------------------------------
(* POST and DELETE /api/v2/invitations: two statements, without the lock.  *)

\* create_invitation: neither a member with this address nor an invitation ...
InviteCheck(p, t, new) ==
  /\ pc[p] = "authorized"
  /\ IsManager(req[p].role) /\ CanManage(req[p].role, new)
  /\ ~(role[t] # None /\ row[t] = "email")
  /\ invite[t] = None
  /\ pc' = [pc EXCEPT ![p] = "inviting"]
  /\ req' = [req EXCEPT ![p] = Asking(p, None, t, new)]
  /\ UNCHANGED <<data, lock, outside, logins, admin>>

\* ... then the INSERT, which the policy may refuse (it also lets an owner be invited to
\* an organization without members).
InviteInsert(p) ==
  LET allowed == MayWrite(p, req[p].new) \/ (Members = {} /\ req[p].new = "owner") IN
  /\ pc[p] = "inviting"
  /\ \/ allowed /\ pc' = [pc EXCEPT ![p] = "inserted"] /\ UNCHANGED req
     \/ ~allowed /\ End(p)
  /\ UNCHANGED <<data, lock, outside, logins, admin>>

\* Its foreign key waits for a member change to release the organization's row; the
\* primary key refuses a second invitation (409).
InviteCommit(p) ==
  LET t == req[p].target IN
  /\ pc[p] = "inserted"
  /\ lock = None
  /\ invite' = [invite EXCEPT ![t] = IF @ = None THEN req[p].new ELSE @]
  /\ End(p)
  /\ UNCHANGED <<role, row, lock, outside, logins, admin>>

\* cancel_invitation tests the role of the invitation ...
CancelCheck(p, t) ==
  /\ pc[p] = "authorized"
  /\ IsManager(req[p].role)
  /\ invite[t] # None /\ IsManager(role[req[p].actor])
  /\ CanManage(req[p].role, invite[t])
  /\ pc' = [pc EXCEPT ![p] = "cancelling"]
  /\ req' = [req EXCEPT ![p] = Asking(p, None, t, None)]
  /\ UNCHANGED <<data, lock, outside, logins, admin>>

\* ... and deletes whatever invitation the address has then, if the policy agrees.
CancelDelete(p) ==
  LET t == req[p].target
      allowed == invite[t] # None /\ MayWrite(p, invite[t])
  IN /\ pc[p] = "cancelling"
     /\ \/ allowed /\ invite' = [invite EXCEPT ![t] = None]
        \/ ~allowed /\ UNCHANGED invite
     /\ End(p)
     /\ UNCHANGED <<role, row, lock, outside, logins, admin>>

-----------------------------------------------------------------------------
(* Commands on the administrative connection, which bypasses the policies. *)

\* One command on its own connection; the organization exists (create_organization).
Command ==
  /\ admin < MaxAdmin
  /\ admin' = admin + 1
  /\ UNCHANGED <<lock, pc, req, logins>>

\* owner_bootstrap: invites the first owner of an organization nobody belongs to.
OwnerBootstrap(u) ==
  /\ lock = None
  /\ Members = {}
  /\ \A v \in Users : invite[v] # "owner"
  /\ invite' = [invite EXCEPT ![u] = "owner"]
  /\ Command
  /\ UNCHANGED <<role, row, outside>>

\* grant_membership (break-glass) creates or overwrites a membership ...
GrantMembership(u, r) ==
  /\ ~RowLocked(u)
  /\ role' = [role EXCEPT ![u] = r]
  /\ row' = [row EXCEPT ![u] = IF @ = "absent" THEN "bare" ELSE @]
  /\ outside' = TRUE
  /\ Command
  /\ UNCHANGED invite

\* ... and revoke_membership deletes one, the last owner's too.
RevokeMembership(u) ==
  /\ role[u] # None
  /\ ~RowLocked(u)
  /\ role' = [role EXCEPT ![u] = None]
  /\ outside' = TRUE
  /\ Command
  /\ UNCHANGED <<row, invite>>

-----------------------------------------------------------------------------
Request(p) ==
  \/ \E u \in Users : Authorize(p, u)
  \/ Claim(p) \/ SyncProfile(p)
  \/ \E op \in {"grant", "update"}, t \in Users, new \in RolesAsked : Lock(p, op, t, new)
  \/ \E t \in Users : Lock(p, "revoke", t, None)
  \/ Check(p) \/ Commit(p)
  \/ \E t \in Users, new \in RolesAsked : InviteCheck(p, t, new)
  \/ \E t \in Users : CancelCheck(p, t)
  \/ InviteInsert(p) \/ InviteCommit(p) \/ CancelDelete(p)

Next ==
  \/ \E p \in Procs : Request(p)
  \/ \E u \in Users : OwnerBootstrap(u) \/ RevokeMembership(u)
  \/ \E u \in Users, r \in RolesAsked : GrantMembership(u, r)

Spec == Init /\ [][Next]_vars

-----------------------------------------------------------------------------
\* The tables and the requests have their types.
MembersTypeOK ==
  /\ role \in [Users -> Roles \cup {None}]
  /\ row \in [Users -> {"absent", "bare", "email"}]
  /\ invite \in [Users -> Roles \cup {None}]
  /\ lock \in Procs \cup {None}
  /\ pc \in [Procs -> {"idle", "claiming", "authorized", "locked", "checked", "inviting",
                       "inserted", "cancelling"}]
  /\ req \in [Procs -> [actor : Users \cup {None}, role : Roles \cup {None},
                        op : {"grant", "update", "revoke", None},
                        target : Users \cup {None}, new : Roles \cup {None}]]
  /\ \A p \in Procs : pc[p] # "idle" => req[p].actor \in Users
  /\ outside \in BOOLEAN
  /\ logins \in Nat /\ admin \in Nat

(* What LastOwnerStays and AuthorityIsCurrent rest on.                     *)

\* A request past the lock is the one that holds it.
LockIsExclusive == \A p \in Procs : pc[p] \in {"locked", "checked"} => lock = p

\* A change that has been let through carries what was asked for; a revocation asks
\* for no role.
RequestsAreWhole ==
  \A p \in Procs : pc[p] \in {"locked", "checked"} =>
    /\ req[p].target \in Users
    /\ req[p].op = "revoke" <=> req[p].new = None

\* The owner a change is about to demote or revoke is not the only one, as long as
\* nobody has written without the lock.
OwnersCounted ==
  \A p \in Procs :
    /\ pc[p] = "checked" /\ ~outside
    /\ req[p].op # "grant" /\ req[p].new # "owner"
    /\ role[req[p].target] = "owner"
    => Cardinality(Owners) > 1

\* Every member has its row in users.
MembersHaveRows == \A u \in Users : role[u] # None => row[u] # "absent"

MembersInv == LockIsExclusive /\ RequestsAreWhole /\ OwnersCounted /\ MembersHaveRows

\* Member changes that race each other never leave an organization without its last
\* owner (update_member_role, revoke_member), unless a writer that does not take the
\* organization's row, a claim or an administrative command, came between.
LastOwnerStays ==
  [][\A p \in Procs :
       pc[p] = "checked" /\ pc'[p] = "idle" /\ ~outside /\ Owners # {} => Owners' # {}]_vars

\* A request changes a membership or an invitation only as far as its actor's
\* membership at the moment of the statement allows, although it decided by the role it
\* was authenticated with: a demotion or a revocation takes effect on the requests
\* already under way.  (An organization that has lost all its members lets an owner be
\* invited; an INSERT that then waits for a member change is not looked at again.)
AuthorityIsCurrent ==
  [][\A p \in Procs :
       LET actor == role[req[p].actor] IN
       /\ pc[p] \in {"checked", "cancelling"} /\ pc'[p] = "idle" =>
            \A u \in Users :
              \A change \in {<<role[u], role'[u]>>, <<invite[u], invite'[u]>>} :
                change[1] # change[2] =>
                  \A r \in {change[1], change[2]} \ {None} : CanManage(actor, r)
       /\ pc[p] = "inviting" /\ pc'[p] = "inserted" =>
            CanManage(actor, req[p].new) \/ Members = {}]_vars

==============================================================================
