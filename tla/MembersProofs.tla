---------------------------- MODULE MembersProofs ----------------------------
(***************************************************************************)
(* Proofs about Members, for every number of users and requests.           *)
(***************************************************************************)
EXTENDS Members, FiniteSetTheorems, TLAPS

\* Every step leaves the tables and the requests with their types.
LEMMA TypeStep == MembersTypeOK /\ [Next]_vars => MembersTypeOK'
<1> SUFFICES ASSUME MembersTypeOK, [Next]_vars PROVE MembersTypeOK'
  OBVIOUS
<1> USE MembersAssumption DEF MembersTypeOK, As, Asking
<1>1. ASSUME NEW p \in Procs, NEW u \in Users, Authorize(p, u) PROVE MembersTypeOK'
  BY <1>1 DEF Authorize, data
<1>2. ASSUME NEW p \in Procs, Claim(p) PROVE MembersTypeOK'
  <2>1. CASE invite[req[p].actor] = None
    BY <1>2, <2>1 DEF Claim, End, data
  <2>2. CASE invite[req[p].actor] # None
    <3>1. req[p].actor \in Users /\ invite[req[p].actor] \in Roles
      BY <1>2, <2>2 DEF Claim
    <3>2. /\ role' \in [Users -> Roles \cup {None}]
          /\ row' \in [Users -> {"absent", "bare", "email"}]
          /\ invite' \in [Users -> Roles \cup {None}]
          /\ outside' \in BOOLEAN
          /\ UNCHANGED <<lock, logins, admin>>
      BY <1>2, <2>2, <3>1 DEF Claim
    <3>3. /\ pc' = [pc EXCEPT ![p] = "authorized"]
          /\ req' = [req EXCEPT ![p] = As(req[p].actor, invite[req[p].actor])]
      BY <1>2, <2>2 DEF Claim
    <3> QED
      BY <3>1, <3>2, <3>3
  <2> QED
    BY <2>1, <2>2
<1>3. ASSUME NEW p \in Procs, SyncProfile(p) PROVE MembersTypeOK'
  BY <1>3 DEF SyncProfile, End
<1>4. ASSUME NEW p \in Procs, NEW op \in {"grant", "update", "revoke"}, NEW t \in Users,
             NEW new \in RolesAsked \cup {None}, Lock(p, op, t, new)
      PROVE MembersTypeOK'
  BY <1>4 DEF Lock, data
<1>5. ASSUME NEW p \in Procs, Check(p) PROVE MembersTypeOK'
  BY <1>5 DEF Check, End, data
<1>6. ASSUME NEW p \in Procs, Commit(p) PROVE MembersTypeOK'
  BY <1>6 DEF Commit, End
<1>7. ASSUME NEW p \in Procs, NEW t \in Users, NEW new \in RolesAsked, InviteCheck(p, t, new)
      PROVE MembersTypeOK'
  BY <1>7 DEF InviteCheck, data
<1>8. ASSUME NEW p \in Procs, NEW t \in Users, CancelCheck(p, t) PROVE MembersTypeOK'
  BY <1>8 DEF CancelCheck, data
<1>9. ASSUME NEW p \in Procs, InviteInsert(p) PROVE MembersTypeOK'
  <2>1. CASE pc' = [pc EXCEPT ![p] = "inserted"] /\ UNCHANGED req
    BY <1>9, <2>1 DEF InviteInsert, data
  <2>2. CASE End(p)
    BY <1>9, <2>2 DEF InviteInsert, End, data
  <2> QED
    BY <1>9, <2>1, <2>2 DEF InviteInsert
<1>16. ASSUME NEW p \in Procs, InviteCommit(p) PROVE MembersTypeOK'
  BY <1>16 DEF InviteCommit, End
<1>10. ASSUME NEW p \in Procs, CancelDelete(p) PROVE MembersTypeOK'
  BY <1>10 DEF CancelDelete, End
<1>11. ASSUME NEW u \in Users, OwnerBootstrap(u) PROVE MembersTypeOK'
  BY <1>11 DEF OwnerBootstrap, Command, Roles
<1>12. ASSUME NEW u \in Users, RevokeMembership(u) PROVE MembersTypeOK'
  BY <1>12 DEF RevokeMembership, Command
<1>13. ASSUME NEW u \in Users, NEW r \in RolesAsked, GrantMembership(u, r) PROVE MembersTypeOK'
  BY <1>13 DEF GrantMembership, Command
<1>14. CASE UNCHANGED vars
  BY <1>14 DEF vars
<1> HIDE MembersAssumption DEF MembersTypeOK, As, Asking
<1>15. ASSUME NEW p \in Procs, Request(p) PROVE MembersTypeOK'
  BY <1>15, <1>1, <1>2, <1>3, <1>4, <1>5, <1>6, <1>7, <1>8, <1>9, <1>10, <1>16 DEF Request
<1> QED
  BY <1>11, <1>12, <1>13, <1>14, <1>15 DEF Next

\* The tables and the requests keep their types.
THEOREM MembersTypeCorrect == Spec => []MembersTypeOK
<1>1. ASSUME Init PROVE MembersTypeOK
  <2>1. outside \in BOOLEAN
    BY <1>1, Zenon DEF Init
  <2>2. pc = [p \in Procs |-> "idle"] /\ req = [p \in Procs |-> As(None, None)]
    BY <1>1 DEF Init
  <2>3. /\ role = [u \in Users |-> None] /\ row = [u \in Users |-> "absent"]
        /\ invite = [u \in Users |-> None] /\ lock = None /\ logins = 0 /\ admin = 0
    BY <1>1 DEF Init
  <2> QED
    BY <2>1, <2>2, <2>3, MembersAssumption DEF MembersTypeOK, As
<1> QED
  BY <1>1, TypeStep, PTL DEF Spec

\* Every step keeps the invariant behind the two properties: the lock is exclusive, the
\* owners were counted under it, and members have their users row.
LEMMA InvStep == MembersTypeOK /\ MembersInv /\ [Next]_vars => MembersInv'
<1> SUFFICES ASSUME MembersTypeOK, MembersInv, [Next]_vars PROVE MembersInv'
  OBVIOUS
<1> USE MembersAssumption
    DEF MembersTypeOK, MembersInv, LockIsExclusive, RequestsAreWhole, OwnersCounted,
        MembersHaveRows, Owners, As, Asking
<1>1. ASSUME NEW p \in Procs, NEW u \in Users, Authorize(p, u) PROVE MembersInv'
  BY <1>1 DEF Authorize, data
<1>2. ASSUME NEW p \in Procs, Claim(p) PROVE MembersInv'
  <2>1. CASE invite[req[p].actor] = None
    BY <1>2, <2>1 DEF Claim, End, data
  <2>2. CASE invite[req[p].actor] # None
    <3>1. outside' /\ UNCHANGED lock
      BY <1>2, <2>2 DEF Claim
    <3>2. /\ role' = [role EXCEPT ![req[p].actor] = invite[req[p].actor]]
          /\ row' = [row EXCEPT ![req[p].actor] = "email"]
          /\ pc' = [pc EXCEPT ![p] = "authorized"]
          /\ req' = [req EXCEPT ![p] = As(req[p].actor, invite[req[p].actor])]
      BY <1>2, <2>2 DEF Claim
    <3>3. MembersHaveRows'
      BY <3>2
    <3>4. LockIsExclusive' /\ RequestsAreWhole'
      BY <3>1, <3>2
    <3> QED
      BY <3>1, <3>3, <3>4
  <2> QED
    BY <2>1, <2>2
<1>3. ASSUME NEW p \in Procs, SyncProfile(p) PROVE MembersInv'
  BY <1>3 DEF SyncProfile, End
<1>4. ASSUME NEW p \in Procs, NEW op \in {"grant", "update", "revoke"}, NEW t \in Users,
             NEW new \in RolesAsked \cup {None}, Lock(p, op, t, new)
      PROVE MembersInv'
  BY <1>4 DEF Lock, OrgLockFree, data
<1>5. ASSUME NEW p \in Procs, Check(p) PROVE MembersInv'
  <2>1. UNCHANGED <<data, outside>> /\ UNCHANGED role /\ UNCHANGED row /\ Owners' = Owners
    BY <1>5 DEF Check, data
  <2>2. CASE MayProceed(p)
    <3>1. pc' = [pc EXCEPT ![p] = "checked"] /\ UNCHANGED <<req, lock>> /\ pc[p] = "locked"
      BY <1>5, <2>2 DEF Check
    <3>2. req[p].op # "grant" /\ req[p].new # "owner" /\ role[req[p].target] = "owner"
            => Cardinality(Owners) > 1
      BY <2>2 DEF MayProceed
    <3>3. OwnersCounted'
      BY <2>1, <3>1, <3>2
    <3>4. LockIsExclusive' /\ RequestsAreWhole' /\ MembersHaveRows'
      BY <2>1, <3>1
    <3> QED
      BY <3>3, <3>4
  <2>3. CASE ~MayProceed(p)
    <3>1. /\ pc' = [pc EXCEPT ![p] = "idle"]
          /\ \A q \in Procs : q # p => pc[q] \notin {"locked", "checked"}
      BY <1>5, <2>3 DEF Check, End
    <3>2. \A q \in Procs : pc'[q] \notin {"locked", "checked"}
      BY <3>1
    <3> QED
      BY <2>1, <3>2
  <2> QED
    BY <2>2, <2>3
<1>6. ASSUME NEW p \in Procs, Commit(p) PROVE MembersInv'
  <2>1. /\ pc' = [pc EXCEPT ![p] = "idle"] /\ req' = [req EXCEPT ![p] = As(None, None)]
        /\ \A q \in Procs : q # p => pc[q] \notin {"locked", "checked"}
    BY <1>6 DEF Commit, End
  <2>2. LockIsExclusive' /\ RequestsAreWhole' /\ OwnersCounted'
    BY <2>1
  <2>3. MembersHaveRows'
    <3>1. CASE Writable(p) /\ req[p].op = "grant"
      BY <1>6, <3>1 DEF Commit
    <3>2. CASE Writable(p) /\ req[p].op # "grant"
      BY <1>6, <3>2 DEF Commit, Writable, Visible
    <3>3. CASE ~Writable(p)
      BY <1>6, <3>3 DEF Commit
    <3> QED
      BY <3>1, <3>2, <3>3
  <2> QED
    BY <2>2, <2>3
<1>7. ASSUME NEW p \in Procs, NEW t \in Users, NEW new \in RolesAsked, InviteCheck(p, t, new)
      PROVE MembersInv'
  BY <1>7 DEF InviteCheck, data
<1>8. ASSUME NEW p \in Procs, NEW t \in Users, CancelCheck(p, t) PROVE MembersInv'
  BY <1>8 DEF CancelCheck, data
<1>9. ASSUME NEW p \in Procs, InviteInsert(p) PROVE MembersInv'
  BY <1>9 DEF InviteInsert, End, data
<1>16. ASSUME NEW p \in Procs, InviteCommit(p) PROVE MembersInv'
  BY <1>16 DEF InviteCommit, End
<1>10. ASSUME NEW p \in Procs, CancelDelete(p) PROVE MembersInv'
  BY <1>10 DEF CancelDelete, End
<1>11. ASSUME NEW u \in Users, OwnerBootstrap(u) PROVE MembersInv'
  BY <1>11 DEF OwnerBootstrap, Command
<1>12. ASSUME NEW u \in Users, RevokeMembership(u) PROVE MembersInv'
  BY <1>12 DEF RevokeMembership, Command
<1>13. ASSUME NEW u \in Users, NEW r \in RolesAsked, GrantMembership(u, r) PROVE MembersInv'
  BY <1>13 DEF GrantMembership, Command
<1>14. CASE UNCHANGED vars
  BY <1>14 DEF vars
<1> HIDE MembersAssumption
    DEF MembersTypeOK, MembersInv, LockIsExclusive, RequestsAreWhole, OwnersCounted,
        MembersHaveRows, Owners, As, Asking
<1>15. ASSUME NEW p \in Procs, Request(p) PROVE MembersInv'
  BY <1>15, <1>1, <1>2, <1>3, <1>4, <1>5, <1>6, <1>7, <1>8, <1>9, <1>10, <1>16 DEF Request
<1> QED
  BY <1>11, <1>12, <1>13, <1>14, <1>15 DEF Next

\* The lock excludes, the count of owners under it stays true, and no member lacks its row.
THEOREM MembersInvariant == Spec => [](MembersTypeOK /\ MembersInv)
<1>1. Init => MembersInv
  BY DEF Init, MembersInv, LockIsExclusive, RequestsAreWhole, OwnersCounted, MembersHaveRows
<1> QED
  BY <1>1, InvStep, MembersTypeCorrect, PTL DEF Spec

\* A finite set of more than one element has another one beside any given.
LEMMA AnotherOne ==
  ASSUME NEW S, IsFiniteSet(S), Cardinality(S) > 1, NEW x PROVE S \ {x} # {}
<1> SUFFICES ASSUME S \ {x} = {} PROVE FALSE
  OBVIOUS
<1>1. S \subseteq {x}
  OBVIOUS
<1>2. Cardinality(S) <= Cardinality({x}) /\ Cardinality({x}) = 1
  BY <1>1, FS_Subset, FS_Singleton
<1>3. Cardinality(S) \in Nat
  BY FS_CardinalityType
<1> QED
  BY <1>2, <1>3

\* The step in which a request writes and ends, or has its INSERT let through, is its own.
LEMMA WriteIsItsOwn ==
  ASSUME MembersTypeOK, Next, NEW p \in Procs,
         \/ pc[p] \in {"checked", "cancelling"} /\ pc'[p] = "idle"
         \/ pc[p] = "inviting" /\ pc'[p] = "inserted"
  PROVE  \/ pc[p] = "checked" /\ Commit(p)
         \/ pc[p] = "inviting" /\ InviteInsert(p)
         \/ pc[p] = "cancelling" /\ CancelDelete(p)
<1>1. ASSUME NEW q \in Procs, Request(q)
      PROVE  q = p /\ (Commit(p) \/ InviteInsert(p) \/ CancelDelete(p))
  <2>1. ASSUME NEW u \in Users, Authorize(q, u) PROVE FALSE
    BY <2>1 DEF Authorize, MembersTypeOK
  <2>2. ~Claim(q)
    BY DEF Claim, End, MembersTypeOK
  <2>3. ~SyncProfile(q)
    BY DEF SyncProfile, End, MembersTypeOK
  <2>4. ASSUME NEW op, NEW t, NEW new, Lock(q, op, t, new) PROVE FALSE
    BY <2>4 DEF Lock, MembersTypeOK
  <2>5. ~Check(q)
    BY DEF Check, End, MembersTypeOK
  <2>6. ASSUME NEW t, NEW new, InviteCheck(q, t, new) PROVE FALSE
    BY <2>6 DEF InviteCheck, MembersTypeOK
  <2>7. ASSUME NEW t, CancelCheck(q, t) PROVE FALSE
    BY <2>7 DEF CancelCheck, MembersTypeOK
  <2>10. ~InviteCommit(q)
    BY DEF InviteCommit, End, MembersTypeOK
  <2>8. Commit(q) \/ InviteInsert(q) \/ CancelDelete(q)
    BY <1>1, <2>1, <2>2, <2>3, <2>4, <2>5, <2>6, <2>7, <2>10 DEF Request
  <2>9. q = p
    BY <2>8 DEF Commit, InviteInsert, CancelDelete, End, MembersTypeOK
  <2> QED
    BY <2>8, <2>9
<1>2. ASSUME NEW u \in Users, OwnerBootstrap(u) PROVE FALSE
  BY <1>2 DEF OwnerBootstrap, Command
<1>3. ASSUME NEW u \in Users, RevokeMembership(u) PROVE FALSE
  BY <1>3 DEF RevokeMembership, Command
<1>4. ASSUME NEW u \in Users, NEW r \in RolesAsked, GrantMembership(u, r) PROVE FALSE
  BY <1>4 DEF GrantMembership, Command
<1>5. Commit(p) \/ InviteInsert(p) \/ CancelDelete(p)
  BY <1>1, <1>2, <1>3, <1>4 DEF Next
<1> QED
  BY <1>5 DEF Commit, InviteInsert, CancelDelete

\* Member changes that race each other never remove the last owner: the owner about to
\* go was counted under the lock and is not the only one.
THEOREM LastOwnerStaysHolds == Spec => LastOwnerStays
<1>1. ASSUME MembersTypeOK, MembersInv, Next, NEW p \in Procs,
             pc[p] = "checked", pc'[p] = "idle", ~outside, Owners # {}
      PROVE Owners' # {}
  <2> DEFINE t == req[p].target
  <2>1. Commit(p)
    BY <1>1, WriteIsItsOwn
  <2>2. CASE ~Writable(p)
    BY <1>1, <2>1, <2>2 DEF Commit, Owners
  <2>3. CASE Writable(p)
    <3>1. role' = [role EXCEPT ![t] = req[p].new] /\ t \in Users
      BY <1>1, <2>1, <2>3 DEF Commit, MembersInv, RequestsAreWhole
    <3>2. CASE req[p].new = "owner"
      BY <1>1, <3>1, <3>2 DEF Owners, MembersTypeOK
    <3>3. CASE req[p].new # "owner" /\ role[t] # "owner"
      BY <1>1, <3>1, <3>3 DEF Owners, MembersTypeOK
    <3>4. CASE req[p].new # "owner" /\ role[t] = "owner"
      <4>1. req[p].op # "grant"
        BY <1>1, <2>3, <3>1, <3>4, MembersAssumption
        DEF Writable, MembersInv, MembersHaveRows, Roles
      <4>2. Cardinality(Owners) > 1
        BY <1>1, <3>4, <4>1 DEF MembersInv, OwnersCounted
      <4>3. IsFiniteSet(Owners)
        BY MembersAssumption, FS_Subset DEF Owners
      <4>4. Owners \ {t} # {}
        BY <4>2, <4>3, AnotherOne
      <4> QED
        BY <1>1, <3>1, <4>4 DEF Owners, MembersTypeOK
    <3> QED
      BY <3>2, <3>3, <3>4
  <2> QED
    BY <2>2, <2>3
<1>2. MembersTypeOK /\ MembersInv /\ [Next]_vars
        => [\A p \in Procs : pc[p] = "checked" /\ pc'[p] = "idle" /\ ~outside /\ Owners # {}
              => Owners' # {}]_vars
  BY <1>1
<1> QED
  BY <1>2, MembersInvariant, PTL DEF Spec, LastOwnerStays

\* A request changes memberships and invitations within its actor's role at the moment of
\* the statement.
THEOREM AuthorityIsCurrentHolds == Spec => AuthorityIsCurrent
<1> DEFINE Allowed(p, before, after) ==
      before # after =>
        \A r \in {before, after} \ {None} : CanManage(role[req[p].actor], r)
<1>1. ASSUME MembersTypeOK, MembersInv, Next, NEW p \in Procs, NEW u \in Users,
             pc[p] \in {"checked", "cancelling"}, pc'[p] = "idle"
      PROVE Allowed(p, role[u], role'[u]) /\ Allowed(p, invite[u], invite'[u])
  <2> DEFINE t == req[p].target
  <2>1. CASE pc[p] = "checked" /\ Commit(p)
    <3>1. invite' = invite
      BY <2>1 DEF Commit
    <3>2. CASE ~Writable(p) \/ u # t
      BY <1>1, <2>1, <3>1, <3>2 DEF Commit, MembersTypeOK
    <3>3. CASE Writable(p) /\ u = t
      <4>1. role'[u] = req[p].new
        BY <1>1, <2>1, <3>3 DEF Commit, MembersTypeOK
      <4>2. role'[u] # None => CanManage(role[req[p].actor], role'[u])
        BY <3>3, <4>1 DEF Writable, MayWrite
      <4>3. role[u] # None => CanManage(role[req[p].actor], role[u])
        BY <1>1, <3>3 DEF Writable, Visible, MayWrite, MembersInv, MembersHaveRows
      <4> QED
        BY <3>1, <4>2, <4>3
    <3> QED
      BY <3>2, <3>3
  <2>2. CASE pc[p] = "cancelling" /\ CancelDelete(p)
    <3>1. role' = role
      BY <2>2 DEF CancelDelete
    <3>2. CASE invite'[u] = invite[u]
      BY <3>1, <3>2
    <3>3. CASE invite'[u] # invite[u]
      <4>1. u = t /\ invite'[u] = None /\ MayWrite(p, invite[u])
        BY <1>1, <2>2, <3>3 DEF CancelDelete, MembersTypeOK
      <4> QED
        BY <3>1, <4>1 DEF MayWrite
    <3> QED
      BY <3>2, <3>3
  <2> QED
    BY <1>1, <2>1, <2>2, WriteIsItsOwn
<1>2. ASSUME MembersTypeOK, Next, NEW p \in Procs, pc[p] = "inviting", pc'[p] = "inserted"
      PROVE  CanManage(role[req[p].actor], req[p].new) \/ Members = {}
  <2>1. InviteInsert(p)
    BY <1>2, WriteIsItsOwn
  <2> QED
    BY <1>2, <2>1 DEF InviteInsert, MayWrite, End, MembersTypeOK
<1> DEFINE Step == \A p \in Procs :
      LET actor == role[req[p].actor] IN
      /\ pc[p] \in {"checked", "cancelling"} /\ pc'[p] = "idle" =>
           \A u \in Users :
             \A change \in {<<role[u], role'[u]>>, <<invite[u], invite'[u]>>} :
               change[1] # change[2] =>
                 \A r \in {change[1], change[2]} \ {None} : CanManage(actor, r)
      /\ pc[p] = "inviting" /\ pc'[p] = "inserted" =>
           CanManage(actor, req[p].new) \/ Members = {}
<1>3. ASSUME MembersTypeOK, MembersInv, Next PROVE Step
  BY <1>1, <1>2, <1>3
<1>4. MembersTypeOK /\ MembersInv /\ [Next]_vars => [Step]_vars
  BY <1>3
<1> QED
  BY <1>4, MembersInvariant, PTL DEF Spec, AuthorityIsCurrent

==============================================================================
