------------------------- MODULE AdminAccountsProofs -------------------------
(***************************************************************************)
(* Theorems about AdminAccounts, for any number of users, roles and        *)
(* requests in flight, with or without failures.                           *)
(***************************************************************************)
EXTENDS AdminAccounts, FiniteSetTheorems, TLAPS

\* Everything of TypeOK but the slots.
DocsTypeOK ==
    /\ users \in [Users -> User]
    /\ roles \in [RoleIds -> RoleDoc]
    /\ topic \in {"accounts", "roles"}
    /\ decided \in [Users -> Status \cup {None}]
    /\ demoted \subseteq SuperAdmins
    /\ uncounted \in BOOLEAN

\* Everything of IInv but the slots and the survivor.
DocsOK ==
    /\ DocsTypeOK
    /\ SuperAdminsIntact /\ StatusStands /\ OneRolePerName
    /\ \A u \in SuperAdmins : decided[u] = "active"

\* What a step of r may do to the history that the other requests rely on.
HistoryKept(r) ==
    /\ demoted \subseteq demoted'
    /\ \A u \in Users : decided[u] = None => decided'[u] = None
    /\ \A s \in Requests \ {r} :
          At(s, "save") /\ requests[s].op \in Deciding /\ decided'[requests[s].target] # None
             => decided'[requests[s].target] = decided[requests[s].target]

LEMMA IdleOK == Idle \in Request /\ SlotOK(Idle) /\ SlotOK(Idle)'
BY DEF Idle, Request, Steps, Change, Unmodified, SlotOK

LEMMA DocsOKNow == IInv => DocsOK
BY DEF IInv, TypeOK, DocsOK, DocsTypeOK

LEMMA SlotStays ==
    ASSUME NEW q \in Request, SlotOK(q), demoted \subseteq demoted',
           q.pc = "save" /\ q.op \in Deciding /\ decided'[q.target] # None
              => decided'[q.target] = decided[q.target]
    PROVE  SlotOK(q)'
BY DEF SlotOK, SetOK, IsSuper, Decision, Deciding, Deletion, Unmodified, Ops, Actions, Direct

LEMMA SetSlot ==
    ASSUME IInv, DocsOK', Survivor', NEW r \in Requests, NEW q \in Request, SlotOK(q)',
           Become(r, q), HistoryKept(r),
           q.pc = "save" /\ q.op \in Deciding /\ ~IsSuper(q.target) =>
              \A s \in Requests \ {r} :
                 At(s, "save") /\ requests[s].op \in Deciding /\ requests[s].target = q.target
                    => decided'[q.target] = None
    PROVE  IInv'
<1>1. /\ requests' \in [Requests -> Request] /\ requests'[r] = q
      /\ \A s \in Requests \ {r} : requests'[s] = requests[s] /\ requests[s] \in Request
  BY DEF Become, IInv, TypeOK
<1>2. ASSUME NEW s \in Requests PROVE SlotOK(requests[s])'
  <2>1. CASE s = r
    BY <1>1, <2>1 DEF SlotOK
  <2>2. CASE s # r
    <3>1. PICK p \in Request : p = requests[s]
      BY <1>1, <2>2
    <3>2. SlotOK(p)'
      BY <2>2, <3>1, SlotStays DEF IInv, HistoryKept, At
    <3> QED BY <1>1, <2>2, <3>1, <3>2 DEF SlotOK
  <2> QED BY <2>1, <2>2
<1>3. DecidersNoticed'
  <2> SUFFICES ASSUME NEW s \in Requests, NEW p \in Requests, s # p,
                      At(s, "save")', At(p, "save")', requests'[s].target = requests'[p].target,
                      requests'[s].op \in Deciding, requests'[p].op \in Deciding,
                      ~IsSuper(requests'[s].target)
               PROVE  decided'[requests'[s].target] = None
    BY DEF DecidersNoticed, IsSuper, Deciding
  <2>1. CASE s = r
    BY <1>1, <2>1 DEF At, Deciding
  <2>2. CASE p = r
    BY <1>1, <2>2 DEF At, Deciding
  <2>3. CASE s # r /\ p # r
    <3>1. requests'[s] = requests[s] /\ requests'[p] = requests[p]
      BY <1>1, <2>3
    <3>2. decided[requests[s].target] = None
      BY <3>1 DEF IInv, DecidersNoticed, At
    <3>3. requests[s].target \in Users
      BY <3>1 DEF IInv, SlotOK, At, Deciding
    <3> QED BY <3>1, <3>2, <3>3 DEF HistoryKept
  <2> QED BY <2>1, <2>2, <2>3
<1> QED BY <1>1, <1>2, <1>3 DEF IInv, TypeOK, DocsOK, DocsTypeOK

\* A survivor stays one unless it is deleted, or a request is about to delete it.
LEMMA SurvivorStays ==
    ASSUME IInv, NEW r \in Requests, NEW q \in Request, Become(r, q),
           uncounted => uncounted',
           \A u \in SuperAdmins : Visible(u) =>
               Visible(u)' \/ (Pending(r, "DELETE_ADMIN") /\ requests[r].target = u),
           q.pc = "save" /\ q.op = "DELETE_ADMIN" => q.target \notin SuperAdmins
    PROVE  Survivor'
<1> SUFFICES ASSUME SuperAdmins # {}, ~uncounted'
             PROVE  \E u \in SuperAdmins :
                       /\ Visible(u)'
                       /\ \A s \in Requests :
                             Pending(s, "DELETE_ADMIN")' => requests'[s].target # u
  BY DEF Survivor, SuperAdminsLeft
<1>1. PICK u \in SuperAdmins :
         Visible(u) /\ \A s \in Requests : Pending(s, "DELETE_ADMIN") => requests[s].target # u
  BY DEF IInv, Survivor, SuperAdminsLeft
<1>2. Visible(u)'
  BY <1>1
<1>3. ASSUME NEW s \in Requests, Pending(s, "DELETE_ADMIN")'
      PROVE  requests'[s].target # u
  <2>1. CASE s = r
    BY <1>3, <2>1 DEF Become, Pending, At, IInv, TypeOK
  <2>2. CASE s # r
    <3>1. requests'[s] = requests[s]
      BY <2>2 DEF Become, IInv, TypeOK
    <3> QED BY <1>1, <1>3, <3>1 DEF Pending, At
  <2> QED BY <2>1, <2>2
<1> QED BY <1>2, <1>3

\* A step that changes no document, and decides or deletes nothing of weight.
LEMMA ReadSlot ==
    ASSUME IInv, NEW r \in Requests, NEW q \in Request, SlotOK(q), Become(r, q),
           UNCHANGED <<dbVars, topic, history>>,
           q.pc = "save" => q.op \notin Deciding,
           q.pc = "save" /\ q.op = "DELETE_ADMIN" => q.target \notin SuperAdmins
    PROVE  IInv'
<1>1. DocsOK'
  BY DocsOKNow DEF DocsOK, DocsTypeOK, SuperAdminsIntact, StatusStands, OneRolePerName,
     dbVars, history
<1>2. Survivor'
  BY SurvivorStays DEF Visible, dbVars, history
<1>3. SlotOK(q)'
  BY SlotStays DEF history
<1>4. HistoryKept(r)
  BY DEF HistoryKept, history
<1> QED BY <1>1, <1>2, <1>3, <1>4, SetSlot

LEMMA ReadIdle ==
    ASSUME IInv, NEW r \in Requests, Finish(r), UNCHANGED <<dbVars, topic, history>>
    PROVE  IInv'
<1>1. Idle.pc = "idle"
  BY DEF Idle
<1> QED BY <1>1, IdleOK, ReadSlot DEF Finish

\* What Prepared makes of a request.
LEMMA PreparedIs ==
    ASSUME IInv, NEW r \in Requests, NEW set \in Change, Prepared(r, set)
    PROVE  \E q \in Request : /\ Become(r, q) /\ q.pc = "save" /\ q.set = set
                              /\ q.op = requests[r].op /\ q.target = requests[r].target
<1> DEFINE q == [requests[r] EXCEPT !.pc = "save", !.super = FALSE, !.set = set]
<1>1. requests[r] \in Request
  BY DEF IInv, TypeOK
<1>2. q \in Request
  BY <1>1 DEF Request, Steps
<1>3. q.pc = "save" /\ q.set = set /\ q.op = requests[r].op /\ q.target = requests[r].target
  BY <1>1 DEF Request
<1> QED BY <1>2, <1>3 DEF Prepared

\* A change of one path.
LEMMA RoleChange ==
    ASSUME NEW x \in RoleNames \cup {None}
    PROVE  /\ [Unmodified EXCEPT !.role = x] \in Change
           /\ [Unmodified EXCEPT !.role = x].role = x
           /\ [Unmodified EXCEPT !.role = x].status = None
           /\ [Unmodified EXCEPT !.role = x].deleted = None
BY DEF Unmodified, Change

LEMMA StatusChange ==
    ASSUME NEW x \in Status \cup {None}
    PROVE  /\ [Unmodified EXCEPT !.status = x] \in Change
           /\ [Unmodified EXCEPT !.status = x].status = x
           /\ [Unmodified EXCEPT !.status = x].role = None
           /\ [Unmodified EXCEPT !.status = x].deleted = None
BY DEF Unmodified, Change

\* What a request that has not read its target yet is known to want.
LEMMA Wanted ==
    ASSUME IInv, NEW r \in Requests, At(r, "read") \/ At(r, "count")
    PROVE  /\ requests[r].op \in Ops
           /\ requests[r].target \in
                 (IF requests[r].op \in {"CREATE_ROLE", "UPDATE_ROLE", "DELETE_ROLE"}
                  THEN RoleIds ELSE Users)
BY DEF IInv, SlotOK, At

\* A request that prepares a save which neither decides nor deletes a super admin.
LEMMA PrepareSlot ==
    ASSUME IInv, NEW r \in Requests, At(r, "read") \/ At(r, "count"),
           NEW set \in Change, Prepared(r, set), UNCHANGED <<dbVars, topic, history>>,
           \A q \in Request : q.op = requests[r].op /\ q.target = requests[r].target /\ q.set = set
              => SetOK(q),
           requests[r].op \notin Deciding,
           requests[r].op = "DELETE_ADMIN" => requests[r].target \notin SuperAdmins
    PROVE  IInv'
<1>1. PICK q \in Request : /\ Become(r, q) /\ q.pc = "save" /\ q.set = set
                           /\ q.op = requests[r].op /\ q.target = requests[r].target
  BY PreparedIs
<1>2. SlotOK(q)
  BY <1>1, Wanted DEF SlotOK
<1> QED BY <1>1, <1>2, ReadSlot

LEMMA InitIInv == Init => IInv
<1> SUFFICES ASSUME Init PROVE IInv
  OBVIOUS
<1>1. /\ \A u \in Users : /\ users[u].there = TRUE /\ users[u].deleted = FALSE
                          /\ users[u].status = "active" /\ users[u] \in User
                          /\ u \in SuperAdmins => users[u].role = "superadmin"
      /\ users \in [Users -> User]
  BY RolesAssumption DEF Init, User, Status, IsSuper
<1>2. roles \in [RoleIds -> RoleDoc] /\ OneRolePerName
  <2>1. PICK system \in SUBSET RoleIds :
           /\ \A i, j \in system : i = j
           /\ roles = [i \in RoleIds |-> [there |-> i \in system, name |-> "admin",
                                          system |-> i \in system]]
    BY DEF Init
  <2>2. \A i \in RoleIds : (roles[i].there <=> i \in system) /\ roles[i] \in RoleDoc
    <3> SUFFICES ASSUME NEW i \in RoleIds
                 PROVE  (roles[i].there <=> i \in system) /\ roles[i] \in RoleDoc
      OBVIOUS
    <3> DEFINE b == i \in system
    <3>1. roles[i] = [there |-> b, name |-> "admin", system |-> b]
      BY <2>1
    <3>2. b \in BOOLEAN /\ "admin" \in RoleNames
      BY RolesAssumption
    <3> HIDE DEF b
    <3>3. roles[i] \in RoleDoc /\ roles[i].there = b
      BY <3>1, <3>2 DEF RoleDoc
    <3> QED BY <3>3 DEF b
  <2>3. roles \in [RoleIds -> RoleDoc]
    BY <2>1, <2>2
  <2>4. OneRolePerName
    BY <2>1, <2>2 DEF OneRolePerName
  <2> QED BY <2>3, <2>4
<1>3. /\ requests = [r \in Requests |-> Idle] /\ topic \in {"accounts", "roles"}
      /\ decided = [u \in Users |-> "active"] /\ demoted = {} /\ uncounted = FALSE
  BY DEF Init
<1>4. TypeOK
  BY <1>1, <1>2, <1>3, IdleOK DEF TypeOK, Status
<1>5. SuperAdminsIntact /\ StatusStands /\ \A u \in SuperAdmins : decided[u] = "active"
  BY <1>1, <1>3, SuperAdminsAssumption DEF SuperAdminsIntact, StatusStands
<1>6. \A r \in Requests : SlotOK(requests[r]) /\ requests[r].pc = "idle"
  BY <1>3, IdleOK DEF Idle
<1>7. Survivor
  BY <1>1, <1>6, SuperAdminsAssumption DEF Survivor, SuperAdminsLeft, Visible, Pending, At
<1>8. DecidersNoticed
  BY <1>6 DEF DecidersNoticed, At
<1> QED BY <1>2, <1>4, <1>5, <1>6, <1>7, <1>8 DEF IInv
-----------------------------------------------------------------------------
\* Getting in.
LEMMA EnterOK ==
    ASSUME IInv, NEW r \in Requests, EnterForUser(r) \/ EnterForRole(r)
    PROVE  IInv'
<1>1. ASSUME NEW u \in Users, NEW op \in Ops, NEW t \in Targets, Enter(r, u, op, t),
             t \in (IF op \in {"CREATE_ROLE", "UPDATE_ROLE", "DELETE_ROLE"}
                    THEN RoleIds ELSE Users)
      PROVE  IInv'
  <2> DEFINE q == [Idle EXCEPT !.pc = "read", !.op = op, !.target = t,
                               !.super = (op = "UPDATE_ADMIN" /\ IsSuper(u))]
  <2>1. q \in Request
    <3>1. (op = "UPDATE_ADMIN" /\ IsSuper(u)) \in BOOLEAN
      BY Zenon
    <3> QED BY <3>1, IdleOK DEF Idle, Request, Steps
  <2>2. q.pc = "read" /\ q.op = op /\ q.target = t
    BY DEF Idle
  <2>3. SlotOK(q)
    BY <1>1, <2>2 DEF SlotOK
  <2>4. Become(r, q) /\ UNCHANGED <<dbVars, topic, history>>
    BY <1>1 DEF Enter
  <2> HIDE DEF q
  <2> QED BY <2>1, <2>2, <2>3, <2>4, ReadSlot
<1>2. CASE EnterForUser(r)
  <2>1. PICK u \in Users, t \in Users,
             op \in Direct \cup {"UPDATE_ADMIN", "SUSPEND_ADMIN", "RESTORE_ADMIN", "DELETE_ADMIN"} :
           Enter(r, u, op, t)
    BY <1>2 DEF EnterForUser
  <2> QED BY <1>1, <2>1 DEF Ops, Actions, Direct, Targets
<1>3. CASE EnterForRole(r)
  <2>1. PICK u \in Users, i \in RoleIds, op \in {"CREATE_ROLE", "UPDATE_ROLE", "DELETE_ROLE"} :
           Enter(r, u, op, i)
    BY <1>3 DEF EnterForRole
  <2> QED BY <1>1, <2>1 DEF Ops, Actions, Targets
<1> QED BY <1>2, <1>3

-----------------------------------------------------------------------------
\* Reading the target.
LEMMA ReadForUpdateOK ==
    ASSUME IInv, NEW r \in Requests, ReadForUpdate(r)
    PROVE  IInv'
<1>1. /\ Reading(r, "UPDATE_ADMIN") /\ At(r, "read")
      /\ UNCHANGED <<dbVars, topic, history>>
  BY DEF ReadForUpdate, Reading
<1>2. CASE Finish(r)
  BY <1>1, <1>2, ReadIdle
<1>3. ASSUME NEW set \in Change, Prepared(r, set), set.status = None, set.deleted = None,
             IsSuper(requests[r].target) => set.role = None
      PROVE  IInv'
  <2>1. requests[r].op = "UPDATE_ADMIN"
    BY <1>1 DEF Reading
  <2> QED BY <1>1, <1>3, <2>1, PrepareSlot DEF SetOK, Deciding
<1>4. CASE IsSuper(requests[r].target) /\ Prepared(r, Unmodified)
  BY <1>3, <1>4 DEF Unmodified, Change
<1>5. CASE ~IsSuper(requests[r].target) /\ ~Finish(r)
  <2> DEFINE t == requests[r].target
  <2>1. PICK role \in RoleNames :
           Prepared(r, [Unmodified EXCEPT !.role = Modified(users[t].role, role)])
    BY <1>5 DEF ReadForUpdate
  <2>2. Modified(users[t].role, role) \in RoleNames \cup {None}
    BY DEF Modified
  <2>3. PICK x \in RoleNames \cup {None} : x = Modified(users[t].role, role)
    BY <2>2
  <2>4. PICK set : set = [Unmodified EXCEPT !.role = x]
    OBVIOUS
  <2>5. set \in Change /\ set.status = None /\ set.deleted = None
    BY <2>4, RoleChange
  <2>6. Prepared(r, set)
    BY <2>1, <2>3, <2>4
  <2> QED BY <1>3, <1>5, <2>5, <2>6
<1> QED BY <1>2, <1>4, <1>5 DEF ReadForUpdate

LEMMA ReadForStatusOK ==
    ASSUME IInv, NEW r \in Requests, ReadForSuspend(r) \/ ReadForRestore(r)
    PROVE  IInv'
<1>1. PICK op \in Deciding :
         /\ ReadForStatus(r, op)
         /\ op = "SUSPEND_ADMIN" => ~IsSuper(requests[r].target)
  BY DEF ReadForSuspend, ReadForRestore, Deciding
<1> DEFINE t == requests[r].target
<1>2. At(r, "read") /\ requests[r].op = op /\ t \in Users
  BY <1>1, Wanted DEF ReadForStatus, Reading, Deciding
<1>3. /\ users[t] \in User /\ users[t].status \in Status
      /\ decided \in [Users -> Status \cup {None}]
  BY <1>2 DEF IInv, TypeOK, User
<1>4. PICK new \in Status \cup {None} :
         /\ new = Modified(users[t].status, Decision(op))
         /\ new = None => users[t].status = Decision(op)
         /\ new # None => new = Decision(op)
  <2>1. Decision(op) \in Status /\ None \notin Status
    BY NoneAssumption DEF Decision, Status
  <2> QED BY <2>1 DEF Modified
<1>5. PICK set \in Change : /\ set = [Unmodified EXCEPT !.status = new]
                            /\ set.role = None /\ set.deleted = None /\ set.status = new
  BY StatusChange
<1>6. Prepared(r, set) /\ UNCHANGED <<dbVars, topic, demoted, uncounted>>
      /\ decided' = IF Contested(r, t) THEN [decided EXCEPT ![t] = None] ELSE decided
  BY <1>1, <1>4, <1>5 DEF ReadForStatus
<1>7. PICK q \in Request : /\ Become(r, q) /\ q.pc = "save" /\ q.set = set
                           /\ q.op = op /\ q.target = t
  BY <1>2, <1>6, PreparedIs
<1>8. \A u \in Users : decided'[u] \in {decided[u], None}
  BY <1>2, <1>3, <1>6
<1>9. HistoryKept(r)
  <2>1. \A u \in Users : decided[u] = None => decided'[u] = None
    BY <1>8
  <2>2. ASSUME NEW s \in Requests \ {r}, At(s, "save"), requests[s].op \in Deciding,
               decided'[requests[s].target] # None
        PROVE  decided'[requests[s].target] = decided[requests[s].target]
    <3>1. requests[s].target \in Users
      BY <2>2 DEF IInv, SlotOK, At, Deciding
    <3> QED BY <1>8, <2>2, <3>1
  <2> QED BY <1>6, <2>1, <2>2 DEF HistoryKept
<1>10. ~IsSuper(t) => \A s \in Requests \ {r} :
          At(s, "save") /\ requests[s].op \in Deciding /\ requests[s].target = t
             => decided'[t] = None
  BY <1>2, <1>3, <1>6 DEF Contested
<1>11. SlotOK(q)'
  <2>1. SetOK(q)
    BY <1>1, <1>4, <1>5, <1>7 DEF SetOK, Deciding
  <2>2. set.status = None /\ decided'[t] # None => decided'[t] = Decision(op)
    <3>1. users[t].there
      BY <1>1 DEF ReadForStatus, Visible
    <3> QED BY <1>2, <1>4, <1>5, <1>8, <3>1 DEF IInv, StatusStands
  <2>3. SetOK(q)'
    BY <1>6, <2>1 DEF SetOK, IsSuper, Decision, Deciding, Deletion, Unmodified
  <2>4. q.op \in Ops /\ q.op \notin {"CREATE_ROLE", "UPDATE_ROLE", "DELETE_ROLE"}
    BY <1>7 DEF Ops, Actions, Deciding
  <2> QED BY <1>2, <1>7, <2>2, <2>3, <2>4 DEF SlotOK, Ops, Actions, Direct, Decision
<1>12. DocsOK'
  <2>1. \A u \in SuperAdmins : decided'[u] = "active"
    <3>1. ~IsSuper(t) => \A u \in SuperAdmins : u # t
      BY DEF IsSuper
    <3>2. \A u \in SuperAdmins : decided[u] = "active" /\ u \in Users
      BY SuperAdminsAssumption DEF IInv
    <3>3. IsSuper(t) => UNCHANGED decided
      BY <1>6 DEF Contested
    <3> QED BY <1>3, <1>6, <3>1, <3>2, <3>3
  <2>2. decided' \in [Users -> Status \cup {None}] /\ StatusStands'
    <3>1. decided' \in [Users -> Status \cup {None}]
      BY <1>3, <1>6
    <3> QED BY <1>6, <1>8, <3>1 DEF StatusStands, IInv, dbVars
  <2>3. users' = users /\ roles' = roles /\ topic' = topic /\ demoted' = demoted /\ uncounted' = uncounted
    BY <1>6 DEF dbVars
  <2> QED BY <2>1, <2>2, <2>3 DEF DocsOK, DocsTypeOK, IInv, TypeOK, SuperAdminsIntact,
          OneRolePerName
<1>13. Survivor'
  BY <1>6, <1>7, SurvivorStays DEF Visible, dbVars, Deciding
<1> QED BY <1>7, <1>9, <1>10, <1>11, <1>12, <1>13, SetSlot

\* The requests that only delete, or set a role, and the checks before.
LEMMA DeletionIs == Deletion \in Change
BY DEF Deletion, Unmodified, Change

LEMMA ReadForDeleteOK ==
    ASSUME IInv, NEW r \in Requests, ReadForDelete(r)
    PROVE  IInv'
<1>1. /\ At(r, "read") /\ requests[r].op = "DELETE_ADMIN"
      /\ UNCHANGED <<dbVars, topic, history>>
  BY DEF ReadForDelete, Reading
<1>2. CASE IsSuper(requests[r].target)
  <2>1. Goto(r, "count")
    BY <1>2 DEF ReadForDelete
  <2> DEFINE q == [requests[r] EXCEPT !.pc = "count"]
  <2>2. q \in Request /\ q.pc = "count" /\ q.op = requests[r].op /\ q.target = requests[r].target
    BY DEF IInv, TypeOK, Request, Steps
  <2>3. SlotOK(q)
    BY <1>1, <2>2, Wanted DEF SlotOK
  <2>4. Become(r, q)
    BY <2>1 DEF Goto
  <2> HIDE DEF q
  <2> QED BY <1>1, <2>2, <2>3, <2>4, ReadSlot
<1>3. CASE ~IsSuper(requests[r].target)
  <2>1. Prepared(r, Deletion)
    BY <1>3 DEF ReadForDelete
  <2> QED BY <1>1, <1>3, <2>1, DeletionIs, PrepareSlot DEF SetOK, Deciding, IsSuper
<1> QED BY <1>2, <1>3

LEMMA ReadForChangeRoleOK ==
    ASSUME IInv, NEW r \in Requests, ReadForChangeRole(r)
    PROVE  IInv'
<1> DEFINE t == requests[r].target
<1>1. /\ At(r, "read") /\ requests[r].op = "changeRole"
      /\ UNCHANGED <<dbVars, topic, history>>
  BY DEF ReadForChangeRole, Reading
<1>2. CASE Finish(r)
  BY <1>1, <1>2, ReadIdle
<1>3. CASE users[t].role # "superadmin" /\ ~Finish(r)
  <2>1. PICK role \in RoleNames \cap {"client", "lawyer", "admin"} :
           Prepared(r, [Unmodified EXCEPT !.role = role])
    BY <1>3 DEF ReadForChangeRole
  <2>2. PICK set : set = [Unmodified EXCEPT !.role = role]
    OBVIOUS
  <2>3. set \in Change /\ set.role # None
    <3>1. role \in RoleNames /\ role # None
      BY NoneAssumption
    <3> QED BY <2>2, <3>1, RoleChange
  <2>4. ~IsSuper(t) \/ t \in demoted
    BY <1>3 DEF IInv, SuperAdminsIntact, IsSuper, ReadForChangeRole, Visible
  <2>5. Prepared(r, set)
    BY <2>1, <2>2
  <2> QED BY <1>1, <2>3, <2>4, <2>5, PrepareSlot DEF SetOK, Deciding
<1> QED BY <1>2, <1>3 DEF ReadForChangeRole

LEMMA ReadForHardDeleteOK ==
    ASSUME IInv, NEW r \in Requests, ReadForHardDelete(r)
    PROVE  IInv'
<1> DEFINE t == requests[r].target
<1>1. /\ At(r, "read") /\ requests[r].op = "deleteAdmin"
      /\ UNCHANGED <<dbVars, topic, history>>
  BY DEF ReadForHardDelete, Reading
<1>2. CASE Finish(r)
  BY <1>1, <1>2, ReadIdle
<1>3. CASE users[t].role = "admin" /\ ~Finish(r)
  <2>1. Prepared(r, Unmodified)
    BY <1>3 DEF ReadForHardDelete
  <2>2. Unmodified \in Change
    BY DEF Unmodified, Change
  <2>3. ~IsSuper(t) \/ t \in demoted
    BY <1>3 DEF IInv, SuperAdminsIntact, IsSuper, ReadForHardDelete, Visible
  <2> QED BY <1>1, <2>1, <2>2, <2>3, PrepareSlot DEF SetOK, Deciding
<1> QED BY <1>2, <1>3 DEF ReadForHardDelete

LEMMA ReadForCreateLawyerOK ==
    ASSUME IInv, NEW r \in Requests, ReadForCreateLawyer(r)
    PROVE  IInv'
<1> DEFINE t == requests[r].target
<1>1. /\ At(r, "read") /\ requests[r].op = "createLawyer"
      /\ UNCHANGED <<dbVars, topic, history>>
  BY DEF ReadForCreateLawyer, Reading
<1>2. PICK x \in RoleNames \cup {None} :
         x = Modified(users[t].role, "lawyer") /\ x \in {"lawyer", None}
  BY RolesAssumption DEF Modified
<1>3. PICK set : set = [Unmodified EXCEPT !.role = x]
  OBVIOUS
<1>4. set \in Change /\ set.role \in {"lawyer", None} /\ set.status = None /\ set.deleted = None
  BY <1>2, <1>3, RoleChange
<1>5. Prepared(r, set)
  BY <1>2, <1>3 DEF ReadForCreateLawyer
<1> QED BY <1>1, <1>4, <1>5, PrepareSlot DEF SetOK, Deciding

LEMMA AnotherLeft ==
    \A S, x : ~(Cardinality(S) <= 1) => \E u \in S : u # x
<1> SUFFICES ASSUME NEW S, NEW x, ~(Cardinality(S) <= 1), \A u \in S : u = x PROVE FALSE
  OBVIOUS
<1>1. CASE S = {}
  BY <1>1, FS_EmptySet
<1>2. CASE S # {}
  <2>1. S = {x}
    BY <1>2
  <2>2. Cardinality({x}) = 1
    BY FS_Singleton
  <2> QED BY <2>1, <2>2
<1> QED BY <1>1, <1>2

LEMMA CountSuperAdminsOK ==
    ASSUME IInv, NEW r \in Requests, CountSuperAdmins(r)
    PROVE  IInv'
<1> DEFINE t == requests[r].target
<1>1. /\ At(r, "count") /\ requests[r].op = "DELETE_ADMIN"
      /\ UNCHANGED <<dbVars, topic, decided, demoted>>
  BY DEF CountSuperAdmins, IInv, SlotOK, At
<1>2. CASE Finish(r) /\ UNCHANGED uncounted
  BY <1>1, <1>2, ReadIdle DEF history
<1>3. CASE /\ ~(Cardinality(SuperAdminsLeft) <= 1) /\ Prepared(r, Deletion)
           /\ uncounted' = (uncounted \/ DeletePending(r))
  <2>1. PICK q \in Request : /\ Become(r, q) /\ q.pc = "save" /\ q.set = Deletion
                             /\ q.op = "DELETE_ADMIN" /\ q.target = t
    BY <1>1, <1>3, DeletionIs, PreparedIs
  <2>2. SlotOK(q)'
    <3>1. SlotOK(q)
      BY <1>1, <2>1, Wanted DEF SlotOK, SetOK, Deciding
    <3> QED BY <1>1, <3>1, SlotStays
  <2>3. DocsOK'
    <3>1. uncounted' \in BOOLEAN
      BY <1>3, Zenon
    <3> QED BY <1>1, <3>1, DocsOKNow DEF DocsOK, DocsTypeOK, SuperAdminsIntact, StatusStands,
              OneRolePerName, dbVars
  <2>4. Survivor'
    <3> SUFFICES ASSUME ~uncounted'
                 PROVE  \E u \in SuperAdmins :
                           /\ Visible(u)'
                           /\ \A s \in Requests :
                                 Pending(s, "DELETE_ADMIN")' => requests'[s].target # u
      BY DEF Survivor, SuperAdminsLeft
    <3>1. PICK u \in SuperAdmins : Visible(u) /\ u # t
      <4> HIDE DEF t
      <4>1. ~(Cardinality(SuperAdminsLeft) <= 1)
        BY <1>3
      <4>2. ~(Cardinality(SuperAdminsLeft) <= 1) => \E u \in SuperAdminsLeft : u # t
        BY AnotherLeft, SMTT(20)
      <4> QED BY <4>1, <4>2 DEF SuperAdminsLeft
    <3>2. ASSUME NEW s \in Requests, Pending(s, "DELETE_ADMIN")'
          PROVE  requests'[s].target # u
      <4>1. CASE s = r
        BY <2>1, <3>1, <4>1 DEF Become, IInv, TypeOK
      <4>2. CASE s # r
        <5>1. requests'[s] = requests[s]
          BY <2>1, <4>2 DEF Become, IInv, TypeOK
        <5>2. Pending(s, "DELETE_ADMIN")
          BY <3>2, <5>1 DEF Pending, At
        <5>3. ~DeletePending(r)
          BY <1>3
        <5> QED BY <3>1, <4>2, <5>1, <5>2, <5>3 DEF DeletePending
      <4> QED BY <4>1, <4>2
    <3>3. Visible(u)'
      BY <1>1, <3>1 DEF Visible, dbVars
    <3> QED BY <3>2, <3>3
  <2>5. HistoryKept(r)
    BY <1>1 DEF HistoryKept
  <2> QED BY <2>1, <2>2, <2>3, <2>4, <2>5, SetSlot DEF Deciding
<1> QED BY <1>2, <1>3 DEF CountSuperAdmins
\* Reading a role.
LEMMA ReadForRoleOK ==
    ASSUME IInv, NEW r \in Requests,
           ReadForCreateRole(r) \/ ReadForUpdateRole(r) \/ ReadForDeleteRole(r)
    PROVE  IInv'
<1> DEFINE i == requests[r].target
<1>1. /\ At(r, "read") /\ requests[r].op \in {"CREATE_ROLE", "UPDATE_ROLE", "DELETE_ROLE"}
      /\ UNCHANGED <<dbVars, topic, history>> /\ i \in RoleIds
  BY Wanted DEF ReadForCreateRole, ReadForUpdateRole, ReadForDeleteRole, Reading
<1>2. CASE Finish(r)
  BY <1>1, <1>2, ReadIdle
<1>3. ASSUME NEW set \in Change, Prepared(r, set),
             requests[r].op = "CREATE_ROLE" => set.role # None,
             requests[r].op # "DELETE_ROLE" \/ set = Deletion
      PROVE  IInv'
  BY <1>1, <1>3, PrepareSlot DEF SetOK, Deciding
<1>4. ASSUME NEW x \in RoleNames \cup {None}, requests[r].op # "DELETE_ROLE",
             requests[r].op = "CREATE_ROLE" => x # None,
             Prepared(r, [Unmodified EXCEPT !.role = x])
      PROVE  IInv'
  <2>1. PICK set : set = [Unmodified EXCEPT !.role = x]
    OBVIOUS
  <2>2. set \in Change /\ set.role = x
    BY <2>1, RoleChange
  <2> QED BY <1>3, <1>4, <2>1, <2>2
<1>5. CASE ReadForCreateRole(r) /\ ~Finish(r)
  <2>1. PICK name \in RoleNames : Prepared(r, [Unmodified EXCEPT !.role = name])
    BY <1>5 DEF ReadForCreateRole
  <2> QED BY <1>4, <1>5, <2>1, NoneAssumption DEF ReadForCreateRole, Reading
<1>6. CASE ReadForUpdateRole(r)
  <2>1. PICK name \in RoleNames :
           Prepared(r, [Unmodified EXCEPT !.role = Modified(roles[i].name, name)])
    BY <1>6 DEF ReadForUpdateRole
  <2>2. PICK x \in RoleNames \cup {None} : x = Modified(roles[i].name, name)
    BY DEF Modified
  <2>3. requests[r].op = "UPDATE_ROLE"
    BY <1>6 DEF ReadForUpdateRole, Reading
  <2> QED BY <1>4, <2>1, <2>2, <2>3
<1>7. CASE ReadForDeleteRole(r) /\ ~Finish(r)
  BY <1>3, <1>7, DeletionIs DEF ReadForDeleteRole, Reading
<1> QED BY <1>2, <1>5, <1>6, <1>7

-----------------------------------------------------------------------------
\* Writing the target.  The request is done with, or goes on to the log.
LEMMA Written1 ==
    ASSUME IInv, DocsOK', Survivor', NEW r \in Requests, HistoryKept(r),
           Become(r, [Idle EXCEPT !.pc = "log"]) \/ Finish(r)
    PROVE  IInv'
<1>1. PICK q \in Request : Become(r, q) /\ q.pc \in {"idle", "log"}
  <2>1. [Idle EXCEPT !.pc = "log"] \in Request /\ [Idle EXCEPT !.pc = "log"].pc = "log"
    BY IdleOK DEF Idle, Request, Steps
  <2>2. Idle \in Request /\ Idle.pc = "idle"
    BY IdleOK DEF Idle
  <2> QED BY <2>1, <2>2 DEF Finish
<1>2. SlotOK(q)'
  BY <1>1 DEF SlotOK
<1> QED BY <1>1, <1>2, SetSlot

\* The same for a survivor.
LEMMA SurvivorWritten ==
    ASSUME IInv, NEW r \in Requests, uncounted => uncounted',
           Become(r, [Idle EXCEPT !.pc = "log"]) \/ Finish(r),
           \A u \in SuperAdmins : Visible(u) =>
               Visible(u)' \/ (Pending(r, "DELETE_ADMIN") /\ requests[r].target = u)
    PROVE  Survivor'
<1>1. PICK q \in Request : Become(r, q) /\ q.pc \in {"idle", "log"}
  <2>1. [Idle EXCEPT !.pc = "log"] \in Request /\ [Idle EXCEPT !.pc = "log"].pc = "log"
    BY IdleOK DEF Idle, Request, Steps
  <2>2. Idle \in Request /\ Idle.pc = "idle"
    BY IdleOK DEF Idle
  <2> QED BY <2>1, <2>2 DEF Finish
<1> QED BY <1>1, SurvivorStays

LEMMA SavedIs ==
    ASSUME NEW doc \in User, NEW set \in Change
    PROVE  /\ Saved(doc, set) \in User
           /\ Saved(doc, set).there = doc.there
           /\ Saved(doc, set).role = IF set.role = None THEN doc.role ELSE set.role
           /\ Saved(doc, set).status = IF set.status = None THEN doc.status ELSE set.status
           /\ Saved(doc, set).deleted = IF set.deleted = None THEN doc.deleted ELSE set.deleted
BY DEF Saved, Or, User, Change

LEMMA SaveUserOK ==
    ASSUME IInv, NEW r \in Requests, SaveUser(r)
    PROVE  IInv'
<1> DEFINE q == requests[r]
           t == q.target
<1>1. /\ At(r, "save") /\ q.op \in Actions /\ t \in Users
      /\ UNCHANGED <<roles, topic, demoted, uncounted>>
  BY DEF SaveUser
<1>2. CASE Finish(r) /\ UNCHANGED <<users, decided>>
  BY <1>1, <1>2, ReadIdle DEF dbVars, history
<1>3. CASE /\ users[t].there
           /\ users' = [users EXCEPT ![t] = Saved(@, q.set)]
           /\ decided' = IF q.op \in Deciding /\ decided[t] # None
                         THEN [decided EXCEPT ![t] = Decision(q.op)] ELSE decided
           /\ Become(r, [Idle EXCEPT !.pc = "log"])
  <2>1. /\ users \in [Users -> User] /\ users[t] \in User /\ q.set \in Change
        /\ decided \in [Users -> Status \cup {None}]
    BY <1>1 DEF IInv, TypeOK, Request
  <2>2. SetOK(q) /\ SlotOK(q) /\ q.pc = "save"
    BY <1>1 DEF IInv, SlotOK, At
  <2>3. q.op \in {"UPDATE_ADMIN", "SUSPEND_ADMIN", "RESTORE_ADMIN", "DELETE_ADMIN"}
    <3>1. t \notin RoleIds
      BY <1>1, IdsAssumption
    <3> QED BY <1>1, <2>2, <3>1 DEF SlotOK, Actions
  <2>4. /\ users' \in [Users -> User] /\ users'[t] = Saved(users[t], q.set)
        /\ \A u \in Users : u # t => users'[u] = users[u]
    BY <1>1, <1>3, <2>1, SavedIs
  <2>5. /\ users'[t].there
        /\ users'[t].role = IF q.set.role = None THEN users[t].role ELSE q.set.role
        /\ users'[t].status = IF q.set.status = None THEN users[t].status ELSE q.set.status
        /\ q.op # "DELETE_ADMIN" => users'[t].deleted = users[t].deleted
    <3>1. q.op # "DELETE_ADMIN" => q.set.deleted = None
      BY <2>2, <2>3 DEF SetOK, Deciding
    <3> QED BY <1>3, <2>1, <2>4, <3>1, SavedIs
  <2>6. /\ q.op \notin Deciding => q.set.status = None
        /\ IsSuper(t) => /\ q.set.role = None /\ q.op # "SUSPEND_ADMIN"
                         /\ q.set.status \in {None, "active"}
    BY <2>2, <2>3 DEF SetOK, Deciding, Deletion, Unmodified, Decision
  <2>7. /\ \A u \in Users : u # t => decided'[u] = decided[u]
        /\ decided'[t] = IF q.op \in Deciding /\ decided[t] # None
                         THEN Decision(q.op) ELSE decided[t]
        /\ decided' \in [Users -> Status \cup {None}]
    BY <1>1, <1>3, <2>1 DEF Decision, Status
  <2>8. HistoryKept(r)
    <3>1. \A u \in Users : decided[u] = None => decided'[u] = None
      BY <2>7
    <3>2. ASSUME NEW s \in Requests \ {r}, At(s, "save"), requests[s].op \in Deciding,
                 decided'[requests[s].target] # None
          PROVE  decided'[requests[s].target] = decided[requests[s].target]
      <4>1. requests[s].target \in Users
        BY <3>2 DEF IInv, SlotOK, At, Deciding
      <4>2. CASE requests[s].target # t \/ q.op \notin Deciding
        BY <2>7, <4>1, <4>2
      <4>3. CASE requests[s].target = t /\ q.op \in Deciding /\ ~IsSuper(t)
        <5>1. decided[t] = None
          BY <1>1, <3>2, <4>3 DEF IInv, DecidersNoticed
        <5> QED BY <2>7, <4>3, <5>1
      <4>4. CASE requests[s].target = t /\ q.op \in Deciding /\ IsSuper(t)
        <5>1. decided[t] = "active" /\ Decision(q.op) = "active"
          BY <2>6, <4>4 DEF IInv, IsSuper, Decision
        <5> QED BY <2>7, <4>4, <5>1
      <4> QED BY <4>2, <4>3, <4>4
    <3> QED BY <1>1, <3>1, <3>2 DEF HistoryKept
  <2>9. \A u \in SuperAdmins : decided'[u] = "active"
    <3>1. IsSuper(t) => Decision(q.op) = "active"
      BY <2>6 DEF Decision
    <3>2. \A u \in SuperAdmins : u \in Users /\ decided[u] = "active"
      BY SuperAdminsAssumption DEF IInv
    <3> QED BY <2>7, <3>1, <3>2 DEF IsSuper
  <2>10. SuperAdminsIntact'
    <3>1. \A u \in SuperAdmins : u \in Users
      BY SuperAdminsAssumption DEF IInv, SuperAdminsIntact
    <3> QED BY <1>1, <1>3, <2>4, <2>5, <2>6, <3>1 DEF IInv, SuperAdminsIntact, IsSuper
  <2>11. StatusStands'
    <3> SUFFICES ASSUME NEW u \in Users, users'[u].there, decided'[u] # None
                 PROVE  users'[u].status = decided'[u]
      BY DEF StatusStands
    <3>1. CASE u # t
      BY <2>4, <2>7, <3>1 DEF IInv, StatusStands
    <3>2. CASE u = t /\ q.op \notin Deciding
      BY <1>3, <2>5, <2>6, <2>7, <3>2 DEF IInv, StatusStands
    <3>3. CASE u = t /\ q.op \in Deciding
      <4>1. decided[t] # None /\ decided'[t] = Decision(q.op) /\ users[t].status = decided[t]
        BY <1>1, <1>3, <2>7, <3>3 DEF IInv, StatusStands
      <4>2. q.set.status \in {None, Decision(q.op)}
        BY <2>2, <3>3 DEF SetOK
      <4>3. q.set.status = None => decided[t] = Decision(q.op)
        BY <2>2, <3>3, <4>1 DEF SlotOK
      <4> QED BY <2>5, <3>3, <4>1, <4>2, <4>3
    <3> QED BY <3>1, <3>2, <3>3
  <2>12. DocsOK'
    BY <1>1, <2>4, <2>7, <2>9, <2>10, <2>11
       DEF DocsOK, DocsTypeOK, IInv, TypeOK, OneRolePerName
  <2>13. Survivor'
    <3>1. \A u \in SuperAdmins : Visible(u) =>
             Visible(u)' \/ (Pending(r, "DELETE_ADMIN") /\ t = u)
      <4> SUFFICES ASSUME NEW u \in SuperAdmins, Visible(u),
                          ~(Pending(r, "DELETE_ADMIN") /\ t = u)
                   PROVE  Visible(u)'
        OBVIOUS
      <4>1. u \in Users
        BY SuperAdminsAssumption
      <4>2. CASE u # t
        BY <2>4, <4>1, <4>2 DEF Visible
      <4>3. CASE u = t /\ q.op # "DELETE_ADMIN"
        BY <2>5, <4>3 DEF Visible
      <4> QED BY <1>1, <4>2, <4>3 DEF Pending
    <3> QED BY <1>1, <1>3, <3>1, SurvivorWritten
  <2> QED BY <1>3, <2>8, <2>12, <2>13, Written1
<1> QED BY <1>2, <1>3 DEF SaveUser
\* A request's last call, which replaces one account; status stays, and a super admin keeps
\* its role and is not deleted, unless history notes it.
LEMMA DirectOK ==
    ASSUME IInv, NEW r \in Requests, Finish(r), NEW t \in Users, NEW doc \in User,
           users' = [users EXCEPT ![t] = doc],
           doc.there => users[t].there /\ doc.status = users[t].status,
           IsSuper(t) /\ doc.there => doc.role = users[t].role \/ t \in demoted',
           IsSuper(t) /\ Visible(t) => uncounted' \/ (doc.there /\ ~doc.deleted),
           demoted \subseteq demoted', demoted' \subseteq SuperAdmins,
           uncounted' \in BOOLEAN, uncounted => uncounted',
           UNCHANGED <<roles, topic, decided>>
    PROVE  IInv'
<1>1. /\ users \in [Users -> User] /\ users' \in [Users -> User] /\ users'[t] = doc
      /\ \A u \in Users : u # t => users'[u] = users[u]
  BY DEF IInv, TypeOK
<1>2. \A u \in SuperAdmins : u \in Users
  BY SuperAdminsAssumption
<1>3. SuperAdminsIntact'
  BY <1>1, <1>2 DEF IInv, SuperAdminsIntact, IsSuper
<1>4. StatusStands'
  BY <1>1 DEF IInv, StatusStands
<1>5. DocsOK'
  BY <1>1, <1>3, <1>4 DEF DocsOK, DocsTypeOK, IInv, TypeOK, OneRolePerName
<1>6. Survivor'
  <2>1. CASE uncounted'
    BY <2>1 DEF Survivor
  <2>2. CASE ~uncounted'
    <3>1. \A u \in SuperAdmins : Visible(u) => Visible(u)'
      BY <1>1, <1>2, <2>2 DEF Visible, IsSuper
    <3> QED BY <3>1, SurvivorWritten
  <2> QED BY <2>1, <2>2
<1>7. HistoryKept(r)
  BY DEF HistoryKept
<1> QED BY <1>5, <1>6, <1>7, Written1

LEMMA GoneIs == Gone \in User /\ ~Gone.there
BY RolesAssumption DEF Gone, User, Status

LEMMA ChangeRoleOK ==
    ASSUME IInv, NEW r \in Requests, ChangeRole(r)
    PROVE  IInv'
<1> DEFINE q == requests[r]
           t == q.target
<1>1. /\ At(r, "save") /\ q.op = "changeRole" /\ q.set \in Change /\ q.pc = "save"
      /\ Finish(r) /\ UNCHANGED <<roles, topic, history>>
  BY DEF ChangeRole, Pending, IInv, TypeOK, Request, At
<1>2. t \in Users /\ (~IsSuper(t) \/ t \in demoted) /\ users[t] \in User /\ q.set.role \in RoleNames
  BY <1>1 DEF IInv, TypeOK, SlotOK, SetOK, Change
<1>3. CASE UNCHANGED users
  BY <1>1, <1>3, ReadIdle DEF dbVars
<1>4. CASE Visible(t)
  <2>1. PICK doc : doc = [users[t] EXCEPT !.role = q.set.role]
    OBVIOUS
  <2>2. doc \in User /\ doc.status = users[t].status /\ doc.there = users[t].there
        /\ doc.deleted = users[t].deleted
    BY <1>2, <2>1 DEF User
  <2>3. users' = [users EXCEPT ![t] = doc]
    BY <1>4, <2>1 DEF ChangeRole
  <2>4. demoted \subseteq SuperAdmins /\ uncounted \in BOOLEAN
    BY DEF IInv, TypeOK
  <2> QED BY <1>1, <1>2, <1>4, <2>2, <2>3, <2>4, DirectOK DEF history, Visible
<1> QED BY <1>3, <1>4 DEF ChangeRole

LEMMA HardDeleteOK ==
    ASSUME IInv, NEW r \in Requests, HardDelete(r)
    PROVE  IInv'
<1> DEFINE q == requests[r]
           t == q.target
<1>1. /\ At(r, "save") /\ q.op = "deleteAdmin" /\ Finish(r)
      /\ UNCHANGED <<roles, topic, decided, demoted>>
      /\ uncounted' = (uncounted \/ (Visible(t) /\ t \in demoted))
  BY DEF HardDelete, Pending
<1>2. /\ t \in Users /\ (~IsSuper(t) \/ t \in demoted)
      /\ demoted \subseteq SuperAdmins /\ uncounted \in BOOLEAN
  BY <1>1 DEF IInv, TypeOK, SlotOK, SetOK, At
<1>3. CASE ~Visible(t)
  <2>1. UNCHANGED <<users, uncounted>>
    BY <1>1, <1>2, <1>3 DEF HardDelete
  <2> QED BY <1>1, <2>1, ReadIdle DEF dbVars, history
<1>4. CASE Visible(t)
  <2>1. users' = [users EXCEPT ![t] = Gone]
    BY <1>4 DEF HardDelete
  <2>2. uncounted' \in BOOLEAN
    BY <1>1, Zenon
  <2> QED BY <1>1, <1>2, <1>4, <2>1, <2>2, GoneIs, DirectOK
<1> QED BY <1>3, <1>4

LEMMA SaveAsLawyerOK ==
    ASSUME IInv, NEW r \in Requests, SaveAsLawyer(r)
    PROVE  IInv'
<1> DEFINE q == requests[r]
           t == q.target
<1>1. /\ At(r, "save") /\ q.op = "createLawyer" /\ q.set \in Change /\ q.pc = "save"
      /\ Finish(r) /\ UNCHANGED <<roles, topic, decided, uncounted>>
  BY DEF SaveAsLawyer, Pending, IInv, TypeOK, Request, At
<1>2. /\ t \in Users /\ users[t] \in User /\ q.set.status = None /\ q.set.deleted = None
      /\ demoted \subseteq SuperAdmins /\ uncounted \in BOOLEAN
  BY <1>1 DEF IInv, TypeOK, SlotOK, SetOK
<1>3. CASE ~users[t].there
  BY <1>1, <1>3, ReadIdle DEF SaveAsLawyer, dbVars, history
<1>4. CASE users[t].there
  <2>1. PICK doc \in User : doc = Saved(users[t], q.set)
    BY <1>1, <1>2, SavedIs
  <2>2. /\ doc.there = users[t].there /\ doc.status = users[t].status
        /\ doc.deleted = users[t].deleted
    BY <1>1, <1>2, <2>1, SavedIs
  <2>3. users' = [users EXCEPT ![t] = doc] /\ demoted' = demoted \cup (SuperAdmins \cap {t})
    BY <1>4, <2>1 DEF SaveAsLawyer
  <2> QED BY <1>1, <1>2, <1>4, <2>2, <2>3, DirectOK DEF IsSuper, Visible
<1> QED BY <1>3, <1>4

LEMMA DeleteUserOK ==
    ASSUME IInv, NEW t \in Users, DeleteUser(t)
    PROVE  IInv'
<1>1. /\ users' = [users EXCEPT ![t] = Gone]
      /\ uncounted' = (uncounted \/ IsSuper(t))
      /\ UNCHANGED <<roles, requests, topic, decided, demoted>>
  BY DEF DeleteUser
<1>2. /\ users \in [Users -> User] /\ users' \in [Users -> User]
      /\ \A u \in Users : u # t => users'[u] = users[u]
      /\ \A u \in Users : users'[u].there => users'[u] = users[u]
  BY <1>1, GoneIs DEF IInv, TypeOK
<1>3. uncounted' \in BOOLEAN
  BY <1>1, Zenon
<1>4. TypeOK'
  BY <1>1, <1>2, <1>3 DEF IInv, TypeOK
<1>5. SuperAdminsIntact' /\ StatusStands' /\ OneRolePerName' /\ DecidersNoticed'
      /\ \A u \in SuperAdmins : decided'[u] = "active"
  BY <1>1, <1>2, SuperAdminsAssumption
     DEF IInv, SuperAdminsIntact, StatusStands, OneRolePerName, DecidersNoticed, At
<1>6. \A r \in Requests : SlotOK(requests[r])'
  BY <1>1 DEF IInv, SlotOK, SetOK, IsSuper, Decision, Deciding, Deletion, Unmodified
<1>7. Survivor'
  <2> SUFFICES ASSUME SuperAdmins # {}, ~uncounted' PROVE Survivor'
    BY DEF Survivor
  <2>1. PICK u \in SuperAdmins :
           Visible(u) /\ \A s \in Requests : Pending(s, "DELETE_ADMIN") => requests[s].target # u
    BY <1>1 DEF IInv, Survivor, SuperAdminsLeft
  <2>2. u # t /\ u \in Users
    BY <1>1, SuperAdminsAssumption DEF IsSuper
  <2>3. Visible(u)'
    BY <1>2, <2>1, <2>2 DEF Visible
  <2>4. \A s \in Requests : Pending(s, "DELETE_ADMIN")' => requests'[s].target # u
    BY <1>1, <2>1 DEF Pending, At
  <2> QED BY <2>3, <2>4 DEF Survivor, SuperAdminsLeft
<1> QED BY <1>4, <1>5, <1>6, <1>7 DEF IInv

LEMMA SaveRoleOK ==
    ASSUME IInv, NEW r \in Requests, SaveRole(r)
    PROVE  IInv'
<1> DEFINE q == requests[r]
           i == q.target
<1>1. At(r, "save") /\ i \in RoleIds /\ UNCHANGED <<users, topic, history>>
  BY DEF SaveRole
<1>2. CASE Finish(r) /\ UNCHANGED roles
  BY <1>1, <1>2, ReadIdle DEF dbVars
<1>3. CASE CanWrite(q) /\ roles' = Written(q) /\ Become(r, [Idle EXCEPT !.pc = "log"])
  <2>1. /\ q.op \in {"CREATE_ROLE", "UPDATE_ROLE", "DELETE_ROLE"}
        /\ q.op = "CREATE_ROLE" => q.set.role # None
        /\ q.set.role \in RoleNames \cup {None} /\ roles \in [RoleIds -> RoleDoc]
        /\ roles[i] \in RoleDoc
    <3>1. i \notin Users
      BY <1>1, IdsAssumption
    <3>2. q \in Request
      BY DEF IInv, TypeOK
    <3>3. q.pc = "save" /\ SlotOK(q) /\ q.set \in Change
      BY <1>1, <3>2 DEF IInv, At, Request
    <3> QED BY <1>1, <3>1, <3>3 DEF IInv, TypeOK, SlotOK, SetOK, Change
  <2>2. roles' \in [RoleIds -> RoleDoc] /\ OneRolePerName'
    <3>1. CASE q.op = "DELETE_ROLE"
      <4>1. roles' = [roles EXCEPT ![i].there = FALSE]
        BY <1>3, <3>1 DEF Written
      <4> QED BY <2>1, <4>1 DEF RoleDoc, IInv, OneRolePerName
    <3>2. CASE q.op # "DELETE_ROLE"
      <4>1. PICK name : name = Or(q.set.role, roles[i].name)
        OBVIOUS
      <4>2. name \in RoleNames
        BY <2>1, <4>1 DEF Or, RoleDoc
      <4>3. ~NameTaken(name, i)
        BY <1>3, <2>1, <3>2, <4>1 DEF CanWrite, Or
      <4>4. roles' = [roles EXCEPT ![i].there = TRUE, ![i].name = Or(q.set.role, @)]
        BY <1>3, <3>2 DEF Written
      <4>5. PICK doc : doc = [roles[i] EXCEPT !.there = TRUE, !.name = name]
        OBVIOUS
      <4>6. doc \in RoleDoc /\ doc.name = name
        BY <2>1, <4>2, <4>5 DEF RoleDoc
      <4>7. roles' = [roles EXCEPT ![i] = doc]
        BY <2>1, <4>1, <4>4, <4>5 DEF RoleDoc, Or
      <4>8. /\ roles' \in [RoleIds -> RoleDoc] /\ roles'[i] = doc
            /\ \A j \in RoleIds : j # i => roles'[j] = roles[j]
        BY <1>1, <2>1, <4>6, <4>7
      <4>9. OneRolePerName'
        BY <1>1, <4>3, <4>6, <4>8 DEF IInv, OneRolePerName, NameTaken
      <4> QED BY <4>8, <4>9
    <3> QED BY <3>1, <3>2
  <2>3. DocsOK'
    BY <1>1, <2>2 DEF DocsOK, DocsTypeOK, IInv, TypeOK, SuperAdminsIntact, StatusStands, history
  <2>4. Survivor'
    BY <1>1, <1>3, SurvivorWritten DEF Visible, history
  <2>5. HistoryKept(r)
    BY <1>1 DEF HistoryKept, history
  <2> QED BY <1>3, <2>3, <2>4, <2>5, Written1
<1> QED BY <1>2, <1>3 DEF SaveRole

LEMMA OthersOK ==
    ASSUME IInv, NEW r \in Requests,
           NotFound(r) \/ CannotSuspend(r) \/ WriteLog(r) \/ Fail(r)
    PROVE  IInv'
BY ReadIdle DEF NotFound, CannotSuspend, WriteLog, Fail

-----------------------------------------------------------------------------
LEMMA StepOK == IInv /\ [Next]_vars => IInv'
<1> SUFFICES ASSUME IInv, [Next]_vars PROVE IInv'
  OBVIOUS
<1>1. ASSUME NEW r \in Requests, Accounts(r) PROVE IInv'
  BY <1>1, EnterOK, ReadForUpdateOK, ReadForStatusOK, OthersOK, ReadForDeleteOK,
     CountSuperAdminsOK, ReadForChangeRoleOK, ReadForHardDeleteOK, ReadForCreateLawyerOK,
     SaveUserOK, ChangeRoleOK, HardDeleteOK, SaveAsLawyerOK
     DEF Accounts
<1>2. ASSUME NEW r \in Requests, Roles(r) PROVE IInv'
  BY <1>2, EnterOK, ReadForRoleOK, SaveRoleOK DEF Roles
<1>3. CASE UNCHANGED vars
  <2>1. TypeOK' /\ SuperAdminsIntact' /\ StatusStands' /\ OneRolePerName' /\ DecidersNoticed'
        /\ \A u \in SuperAdmins : decided'[u] = "active"
    BY <1>3 DEF vars, dbVars, history, IInv, TypeOK, SuperAdminsIntact, StatusStands,
       OneRolePerName, DecidersNoticed, At
  <2>2. Survivor'
    BY <1>3 DEF vars, dbVars, history, IInv, Survivor, SuperAdminsLeft, Visible, Pending, At
  <2>3. \A r \in Requests : SlotOK(requests[r])'
    BY <1>3 DEF vars, history, IInv, SlotOK, SetOK, IsSuper, Decision, Deciding, Deletion,
       Unmodified
  <2> QED BY <2>1, <2>2, <2>3 DEF IInv
<1> QED BY <1>1, <1>2, <1>3, OthersOK, DeleteUserOK DEF Next

\* The invariant, with the types of users, roles and requests.
THEOREM Invariance == Spec => []IInv
BY InitIInv, StepOK, PTL DEF Spec

\* A super admin is left as long as each was counted before it was deleted: whatever else
\* overlaps, no other call removes the last one.
THEOREM SuperAdminKept == Spec => []SuperAdminRemains
<1>1. IInv => SuperAdminRemains
  BY DEF IInv, Survivor, SuperAdminRemains
<1> QED BY <1>1, Invariance, PTL

\* Super admins are not suspended and keep their role until LawyerService.create takes it,
\* however old the copies that are saved.
THEOREM SuperAdminsKept == Spec => []SuperAdminsIntact
<1>1. IInv => SuperAdminsIntact
  BY DEF IInv
<1> QED BY <1>1, Invariance, PTL

\* suspendAdmin, restoreAdmin: a status stands until the next decision, whatever else is saved.
THEOREM StatusKept == Spec => []StatusStands
<1>1. IInv => StatusStands
  BY DEF IInv
<1> QED BY <1>1, Invariance, PTL

\* RolesController: a name belongs to one role.
THEOREM NamesKept == Spec => []OneRolePerName
<1>1. IInv => OneRolePerName
  BY DEF IInv
<1> QED BY <1>1, Invariance, PTL

\* Each step leaves every account with the same documents, or changes one as below.
LEMMA DeletedStep ==
    ASSUME IInv, [Next]_vars, NEW u \in Users
    PROVE  (users[u].deleted => users'[u].deleted) /\ (~users[u].there => ~users'[u].there)
<1>1. users \in [Users -> User] /\ users[u] \in User
  BY DEF IInv, TypeOK
<1>2. ASSUME NEW r \in Requests, SaveUser(r) \/ SaveAsLawyer(r), ~UNCHANGED users
      PROVE  (users[u].deleted => users'[u].deleted) /\ (~users[u].there => ~users'[u].there)
  <2> DEFINE t == requests[r].target
             set == requests[r].set
  <2>1. t \in Users /\ users' = [users EXCEPT ![t] = Saved(@, set)]
    <3>1. SaveAsLawyer(r) => t \in Users
      BY DEF IInv, SlotOK, SaveAsLawyer, Pending, At
    <3> QED BY <1>2, <3>1 DEF SaveUser, SaveAsLawyer
  <2>2. set \in Change
    BY DEF IInv, TypeOK, Request
  <2>3. users[t] \in User /\ users'[t] = Saved(users[t], set)
    BY <1>1, <2>1
  <2>4. users'[t].there = users[t].there
    BY <2>2, <2>3, SavedIs
  <2>5. users[t].deleted => users'[t].deleted
    <3>1. set.deleted = TRUE \/ set.deleted = None
      BY <2>2 DEF Change
    <3>2. CASE set.deleted = None
      BY <2>2, <2>3, <3>2, SavedIs
    <3>3. CASE set.deleted = TRUE /\ set.deleted # None
      BY <2>2, <2>3, <3>3, SavedIs
    <3> QED BY <3>1, <3>2, <3>3
  <2>6. CASE u = t
    BY <2>4, <2>5, <2>6
  <2>7. CASE u # t
    BY <1>1, <2>1, <2>7
  <2> QED BY <2>6, <2>7
<1>3. ASSUME NEW r \in Requests, ChangeRole(r), ~UNCHANGED users
      PROVE  (users[u].deleted => users'[u].deleted) /\ (~users[u].there => ~users'[u].there)
  <2>1. requests[r].target \in Users
    BY <1>3 DEF IInv, SlotOK, ChangeRole, Pending, At
  <2> QED BY <1>1, <1>3, <2>1 DEF ChangeRole, User
<1>4. ASSUME NEW t \in Users, Visible(t), users' = [users EXCEPT ![t] = Gone]
      PROVE  (users[u].deleted => users'[u].deleted) /\ (~users[u].there => ~users'[u].there)
  BY <1>1, <1>4 DEF Visible, Gone
<1>5. ASSUME NEW r \in Requests, EnterForUser(r) \/ EnterForRole(r) PROVE UNCHANGED users
  BY <1>5 DEF EnterForUser, EnterForRole, Enter, dbVars
<1>6. ASSUME NEW r \in Requests, Accounts(r) \/ Roles(r) \/ NotFound(r) \/ WriteLog(r) \/ Fail(r)
      PROVE  \/ UNCHANGED users \/ SaveUser(r) \/ SaveAsLawyer(r) \/ ChangeRole(r) \/ HardDelete(r)
  BY <1>5, <1>6 DEF Accounts, Roles, ReadForUpdate, ReadForSuspend, ReadForRestore,
     ReadForStatus, CannotSuspend, ReadForDelete, CountSuperAdmins, ReadForChangeRole,
     ReadForHardDelete, ReadForCreateLawyer, ReadForCreateRole, ReadForUpdateRole,
     ReadForDeleteRole, SaveRole, NotFound, WriteLog, Fail, dbVars
<1>9. ASSUME NEW r \in Requests, HardDelete(r), ~UNCHANGED users
      PROVE  (users[u].deleted => users'[u].deleted) /\ (~users[u].there => ~users'[u].there)
  <2>1. requests[r].target \in Users
    BY <1>9 DEF IInv, SlotOK, HardDelete, Pending, At
  <2> QED BY <1>4, <1>9, <2>1 DEF HardDelete
<1>7. CASE \E t \in Users : DeleteUser(t)
  BY <1>4, <1>7 DEF DeleteUser
<1>8. CASE UNCHANGED users
  BY <1>8
<1> QED BY <1>2, <1>3, <1>6, <1>7, <1>8, <1>9 DEF Next, vars, dbVars

\* save() of an old copy brings no account back.
THEOREM DeletedStays == Spec => DeletedStaysDeleted
<1>1. IInv /\ [Next]_vars =>
         [\A u \in Users : (users[u].deleted => users'[u].deleted)
                            /\ (~users[u].there => ~users'[u].there)]_vars
  BY DeletedStep
<1> QED BY <1>1, Invariance, PTL DEF Spec, DeletedStaysDeleted
=============================================================================
