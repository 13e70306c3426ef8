---------------------------- MODULE AdminAccounts ----------------------------
(***************************************************************************)
(* Administrators and roles: AdminsController, RolesController, and what   *)
(* SuperadminService, UsersService and LawyerService do to an existing     *)
(* account.                                                                *)
(*                                                                         *)
(* One action is one awaited call.  authenticate reads the user of the     *)
(* access token; the handler reads its target, changes the copy, and       *)
(* save() writes the paths that were modified, whatever has become of the  *)
(* document since.  The hook pre(/^find/) hides users with deletedAt from  *)
(* reads, not from save().  Which permissions a user or a role holds is    *)
(* left open: any user that authenticate lets in may pass                  *)
(* authorizePermissions.  Accounts and roles are written by different      *)
(* handlers, so a behaviour is about one of the two.                       *)
(***************************************************************************)
EXTENDS Naturals, FiniteSets

CONSTANTS
    Users,          \* ids of user documents
    SuperAdmins,    \* users the seed made super admins; nothing else sets isSuperAdmin
    RoleIds,        \* ids of role documents
    RoleNames,      \* what role may be: of a user, or the name of a role document
    Chosen,         \* users that admins have LawyerService.create make lawyers
    Requests,       \* requests being served at the same time
    None,           \* null
    RequestsFail    \* whether a request may die between two calls

ASSUME SuperAdminsAssumption == SuperAdmins \subseteq Users

ASSUME IdsAssumption == Users \cap RoleIds = {}

ASSUME RolesAssumption == {"admin", "superadmin", "lawyer"} \subseteq RoleNames

ASSUME NoneAssumption ==
    /\ None \notin Users \cup RoleIds
    /\ None \notin RoleNames \cup {"active", "suspended"}

ASSUME SwitchAssumption == RequestsFail \in BOOLEAN

VARIABLES
    users,          \* the User collection
    roles,          \* the Role collection
    requests,       \* what each request in flight has read and does next
    topic,          \* whether accounts or roles change in this behaviour
    decided,        \* history: the status last decided for a user, None once two requests
                    \* about it overlapped
    demoted,        \* history: super admins that LawyerService.create made lawyers
    uncounted       \* history: a super admin was deleted who was not counted in time: two
                    \* deletes overlapped, UsersService deleted one, or SuperadminService
                    \* deleted one that had been demoted

dbVars == <<users, roles>>
history == <<decided, demoted, uncounted>>
vars == <<dbVars, requests, topic, history>>

(***************************************************************************)
(* Documents.                                                              *)
(***************************************************************************)
Status == {"active", "suspended"}
User == [there: BOOLEAN, deleted: BOOLEAN, status: Status, role: RoleNames]
RoleDoc == [there: BOOLEAN, name: RoleNames, system: BOOLEAN]

\* A document that is no more, and nothing of it.
Gone == [there |-> FALSE, deleted |-> FALSE, status |-> "active", role |-> "admin"]

IsSuper(u) == u \in SuperAdmins
Visible(u) == users[u].there /\ ~users[u].deleted

\* What countDocuments({ isSuperAdmin: true, deletedAt: null }) counts.
SuperAdminsLeft == {u \in SuperAdmins : Visible(u)}

(***************************************************************************)
(* Requests.  super is isSuperAdmin of req.user, as long as it matters;    *)
(* set is the $set of the save() to come, where None is a path that was    *)
(* not modified.                                                           *)
(***************************************************************************)
Change == [role: RoleNames \cup {None}, status: Status \cup {None}, deleted: {TRUE, None}]
Unmodified == [role |-> None, status |-> None, deleted |-> None]

Actions == {"UPDATE_ADMIN", "SUSPEND_ADMIN", "RESTORE_ADMIN", "DELETE_ADMIN",
            "CREATE_ROLE", "UPDATE_ROLE", "DELETE_ROLE"}
Direct == {"changeRole", "deleteAdmin", "createLawyer"}
Ops == Actions \cup Direct
Targets == Users \cup RoleIds

Steps == {"idle", "read", "count", "save", "log"}

Request == [pc: Steps, op: Ops \cup {None}, super: BOOLEAN,
            target: Targets \cup {None}, set: Change]

Idle == [pc |-> "idle", op |-> None, super |-> FALSE, target |-> None, set |-> Unmodified]

At(r, step) == requests[r].pc = step
Become(r, state) == requests' = [requests EXCEPT ![r] = state]
Goto(r, step) == Become(r, [requests[r] EXCEPT !.pc = step])
Finish(r) == Become(r, Idle)

TypeOK ==
    /\ users \in [Users -> User]
    /\ roles \in [RoleIds -> RoleDoc]
    /\ requests \in [Requests -> Request]
    /\ topic \in {"accounts", "roles"}
    /\ decided \in [Users -> Status \cup {None}]
    /\ demoted \subseteq SuperAdmins
    /\ uncounted \in BOOLEAN

\* No action on accounts reads a role document: where accounts change there is none.
Init ==
    /\ users = [u \in Users |->
           [there |-> TRUE, deleted |-> FALSE, status |-> "active",
            role |-> IF IsSuper(u) THEN "superadmin" ELSE "admin"]]
    /\ topic \in {"accounts", "roles"}
    /\ \E system \in SUBSET RoleIds :
          /\ \A i, j \in system : i = j
          /\ topic = "accounts" => system = {}
          /\ roles = [i \in RoleIds |-> [there |-> i \in system, name |-> "admin",
                                         system |-> i \in system]]
    /\ requests = [r \in Requests |-> Idle]
    /\ decided = [u \in Users |-> "active"]
    /\ demoted = {}
    /\ uncounted = FALSE

(***************************************************************************)
(* Getting in: authenticate, then the gate of the route.                   *)
(***************************************************************************)
Authenticated(u) == Visible(u) /\ users[u].status = "active"

\* authorizeRoles
HasRole(u, allowed) == IsSuper(u) \/ users[u].role \in allowed

Enter(r, u, op, t) ==
    /\ At(r, "idle")
    /\ Authenticated(u)
    /\ op \in {"changeRole", "deleteAdmin"} => HasRole(u, {"superadmin"})
    /\ op = "createLawyer" => HasRole(u, {"admin"})
    /\ Become(r, [Idle EXCEPT !.pc = "read", !.op = op, !.target = t,
                              !.super = (op = "UPDATE_ADMIN" /\ IsSuper(u))])
    /\ UNCHANGED <<dbVars, topic, history>>

EnterForUser(r) ==
    /\ topic = "accounts"
    /\ \E u, t \in Users :
          \E op \in Direct \cup {"UPDATE_ADMIN", "SUSPEND_ADMIN", "RESTORE_ADMIN", "DELETE_ADMIN"} :
             /\ op = "changeRole" => u # t
             /\ op = "createLawyer" => t \in Chosen
             /\ Enter(r, u, op, t)

\* The bound on ids: a create is let in only if one is left for it.
RoleIdFree(i) == ~roles[i].there /\ \A r \in Requests : requests[r].target # i

EnterForRole(r) ==
    /\ topic = "roles"
    /\ \E u \in Users, i \in RoleIds, op \in {"CREATE_ROLE", "UPDATE_ROLE", "DELETE_ROLE"} :
          /\ IF op = "CREATE_ROLE" THEN RoleIdFree(i) ELSE roles[i].there
          /\ Enter(r, u, op, i)

(***************************************************************************)
(* Accounts: reading the target.                                           *)
(***************************************************************************)
\* A path set to the value it has is not modified.
Modified(old, new) == IF new = old THEN None ELSE new

\* The request has read its target and goes on to save set.
Prepared(r, set) == Become(r, [requests[r] EXCEPT !.pc = "save", !.super = FALSE, !.set = set])

Reading(r, op) == At(r, "read") /\ requests[r].op = op
Pending(r, op) == At(r, "save") /\ requests[r].op = op

\* A handler that does not find its target answers 404.
NotFound(r) ==
    /\ At(r, "read")
    /\ IF requests[r].target \in Users THEN ~Visible(requests[r].target)
       ELSE requests[r].op # "CREATE_ROLE" /\ ~roles[requests[r].target].there
    /\ Finish(r)
    /\ UNCHANGED <<dbVars, topic, history>>

\* Mutant: the role of a super admin is assigned, too.
ReadForUpdateAnyRole(r) ==
    LET t == requests[r].target IN
    /\ Reading(r, "UPDATE_ADMIN") /\ Visible(t)
    /\ \E role \in RoleNames :
          Prepared(r, [Unmodified EXCEPT !.role = Modified(users[t].role, role)])
    /\ UNCHANGED <<dbVars, topic, history>>

\* Mutant: all of the document that was read is written back.
ReadForUpdateWhole(r) ==
    LET t == requests[r].target IN
    /\ Reading(r, "UPDATE_ADMIN") /\ Visible(t) /\ ~IsSuper(t)
    /\ \E role \in RoleNames :
          Prepared(r, [Unmodified EXCEPT !.role = role, !.status = users[t].status])
    /\ UNCHANGED <<dbVars, topic, history>>

ReadForUpdate(r) ==
    LET t == requests[r].target IN
    /\ Reading(r, "UPDATE_ADMIN") /\ Visible(t)
    /\ IF IsSuper(t)
       THEN IF requests[r].super THEN Prepared(r, Unmodified) ELSE Finish(r)
       ELSE \E role \in RoleNames :
               Prepared(r, [Unmodified EXCEPT !.role = Modified(users[t].role, role)])
    /\ UNCHANGED <<dbVars, topic, history>>

\* Another request is about to decide on the status of t.
Deciding == {"SUSPEND_ADMIN", "RESTORE_ADMIN"}
Decision(op) == IF op = "SUSPEND_ADMIN" THEN "suspended" ELSE "active"
Contested(r, t) ==
    /\ ~IsSuper(t)
    /\ \E s \in Requests \ {r} :
          At(s, "save") /\ requests[s].op \in Deciding /\ requests[s].target = t

ReadForStatus(r, op) ==
    LET t == requests[r].target IN
    /\ Reading(r, op) /\ Visible(t)
    /\ Prepared(r, [Unmodified EXCEPT !.status = Modified(users[t].status, Decision(op))])
    /\ decided' = IF Contested(r, t) THEN [decided EXCEPT ![t] = None] ELSE decided
    /\ UNCHANGED <<dbVars, topic, demoted, uncounted>>

ReadForSuspend(r) == ~IsSuper(requests[r].target) /\ ReadForStatus(r, "SUSPEND_ADMIN")
ReadForRestore(r) == ReadForStatus(r, "RESTORE_ADMIN")

CannotSuspend(r) ==
    /\ Reading(r, "SUSPEND_ADMIN") /\ IsSuper(requests[r].target)
    /\ Finish(r)
    /\ UNCHANGED <<dbVars, topic, history>>

Deletion == [Unmodified EXCEPT !.deleted = TRUE]

ReadForDelete(r) ==
    LET t == requests[r].target IN
    /\ Reading(r, "DELETE_ADMIN") /\ Visible(t)
    /\ IF IsSuper(t) THEN Goto(r, "count") ELSE Prepared(r, Deletion)
    /\ UNCHANGED <<dbVars, topic, history>>

\* Another super admin is about to be deleted, and was counted as one that is left.
DeletePending(r) ==
    \E s \in Requests \ {r} :
        /\ Pending(s, "DELETE_ADMIN")
        /\ requests[s].target \in SuperAdmins \ {requests[r].target}

\* Mutant: the one to be deleted is not reckoned with.
CountSuperAdminsOff(r) ==
    /\ At(r, "count")
    /\ IF Cardinality(SuperAdminsLeft) < 1
       THEN Finish(r) /\ UNCHANGED uncounted
       ELSE Prepared(r, Deletion) /\ uncounted' = (uncounted \/ DeletePending(r))
    /\ UNCHANGED <<dbVars, topic, decided, demoted>>

CountSuperAdmins(r) ==
    /\ At(r, "count")
    /\ IF Cardinality(SuperAdminsLeft) <= 1
       THEN Finish(r) /\ UNCHANGED uncounted
       ELSE Prepared(r, Deletion) /\ uncounted' = (uncounted \/ DeletePending(r))
    /\ UNCHANGED <<dbVars, topic, decided, demoted>>

ReadForChangeRole(r) ==
    LET t == requests[r].target IN
    /\ Reading(r, "changeRole") /\ Visible(t)
    /\ IF users[t].role = "superadmin" THEN Finish(r)
       ELSE \E role \in RoleNames \cap {"client", "lawyer", "admin"} :
               Prepared(r, [Unmodified EXCEPT !.role = role])
    /\ UNCHANGED <<dbVars, topic, history>>

ReadForHardDelete(r) ==
    LET t == requests[r].target IN
    /\ Reading(r, "deleteAdmin") /\ Visible(t)
    /\ IF users[t].role # "admin" THEN Finish(r) ELSE Prepared(r, Unmodified)
    /\ UNCHANGED <<dbVars, topic, history>>

\* LawyerService.create looks neither at the role of its user nor at isSuperAdmin.
ReadForCreateLawyer(r) ==
    LET t == requests[r].target IN
    /\ Reading(r, "createLawyer") /\ Visible(t)
    /\ Prepared(r, [Unmodified EXCEPT !.role = Modified(users[t].role, "lawyer")])
    /\ UNCHANGED <<dbVars, topic, history>>

(***************************************************************************)
(* Accounts: writing the target.                                           *)
(***************************************************************************)
Or(new, old) == IF new = None THEN old ELSE new

\* Mutant: deletedAt is written as it was read.
SavedWhole(doc, set) ==
    [doc EXCEPT !.role = Or(set.role, @), !.status = Or(set.status, @),
                !.deleted = (set.deleted = TRUE)]

Saved(doc, set) ==
    [doc EXCEPT !.role = Or(set.role, @), !.status = Or(set.status, @),
                !.deleted = Or(set.deleted, @)]

\* admin.save(): throws when the document is gone.
SaveUser(r) ==
    LET q == requests[r]
        t == q.target
    IN
    /\ At(r, "save") /\ q.op \in Actions /\ t \in Users
    /\ \/ /\ users[t].there
          /\ users' = [users EXCEPT ![t] = Saved(@, q.set)]
          /\ decided' = IF q.op \in Deciding /\ decided[t] # None
                        THEN [decided EXCEPT ![t] = Decision(q.op)] ELSE decided
          /\ Become(r, [Idle EXCEPT !.pc = "log"])
       \/ /\ ~users[t].there
          /\ Finish(r)
          /\ UNCHANGED <<users, decided>>
    /\ UNCHANGED <<roles, topic, demoted, uncounted>>

\* findByIdAndUpdate and findByIdAndDelete see only what is visible.
ChangeRole(r) ==
    LET q == requests[r]
        t == q.target
    IN
    /\ Pending(r, "changeRole")
    /\ users' = IF Visible(t) THEN [users EXCEPT ![t].role = q.set.role] ELSE users
    /\ Finish(r)
    /\ UNCHANGED <<roles, topic, history>>

HardDelete(r) ==
    LET q == requests[r]
        t == q.target
    IN
    /\ Pending(r, "deleteAdmin")
    /\ users' = IF Visible(t) THEN [users EXCEPT ![t] = Gone] ELSE users
    /\ uncounted' = (uncounted \/ (Visible(t) /\ t \in demoted))
    /\ Finish(r)
    /\ UNCHANGED <<roles, topic, decided, demoted>>

\* user.save() of LawyerService.create, which throws when the document is gone.  The
\* Lawyer.create after it always throws, for a Lawyer needs a specialization.
SaveAsLawyer(r) ==
    LET q == requests[r]
        t == q.target
    IN
    /\ Pending(r, "createLawyer")
    /\ IF users[t].there
       THEN /\ users' = [users EXCEPT ![t] = Saved(@, q.set)]
            /\ demoted' = demoted \cup (SuperAdmins \cap {t})
       ELSE UNCHANGED <<users, demoted>>
    /\ Finish(r)
    /\ UNCHANGED <<roles, topic, decided, uncounted>>

\* UsersService.deleteUser: one call after the gate, for whoever passes it.
DeleteUser(t) ==
    /\ topic = "accounts" /\ Visible(t)
    /\ \E u \in Users : Authenticated(u) /\ HasRole(u, {"admin"})
    /\ users' = [users EXCEPT ![t] = Gone]
    /\ uncounted' = (uncounted \/ IsSuper(t))
    /\ UNCHANGED <<roles, requests, topic, decided, demoted>>

(***************************************************************************)
(* Roles.                                                                  *)
(***************************************************************************)
NameTaken(name, i) == \E j \in RoleIds \ {i} : roles[j].there /\ roles[j].name = name

ReadForCreateRole(r) ==
    LET i == requests[r].target IN
    /\ Reading(r, "CREATE_ROLE")
    /\ \E name \in RoleNames :
          IF NameTaken(name, i) THEN Finish(r) ELSE Prepared(r, [Unmodified EXCEPT !.role = name])
    /\ UNCHANGED <<dbVars, topic, history>>

ReadForUpdateRole(r) ==
    LET role == roles[requests[r].target] IN
    /\ Reading(r, "UPDATE_ROLE") /\ role.there
    /\ \E name \in RoleNames :
          /\ role.system => name = role.name
          /\ Prepared(r, [Unmodified EXCEPT !.role = Modified(role.name, name)])
    /\ UNCHANGED <<dbVars, topic, history>>

ReadForDeleteRole(r) ==
    LET role == roles[requests[r].target] IN
    /\ Reading(r, "DELETE_ROLE") /\ role.there
    /\ IF role.system THEN Finish(r) ELSE Prepared(r, Deletion)
    /\ UNCHANGED <<dbVars, topic, history>>

\* Role.create, role.save() and role.deleteOne(): the first two need that the name is free,
\* save() that the document is there, deleteOne() nothing.
Written(q) ==
    IF q.op = "DELETE_ROLE" THEN [roles EXCEPT ![q.target].there = FALSE]
    ELSE [roles EXCEPT ![q.target].there = TRUE, ![q.target].name = Or(q.set.role, @)]

\* Mutant: no unique index on the name.
CanWriteNoIndex(q) ==
    q.op \in {"DELETE_ROLE", "CREATE_ROLE"} \/ (q.op = "UPDATE_ROLE" /\ roles[q.target].there)

CanWrite(q) ==
    LET i == q.target IN
    \/ q.op = "DELETE_ROLE"
    \/ q.op = "UPDATE_ROLE" /\ roles[i].there /\ ~NameTaken(Or(q.set.role, roles[i].name), i)
    \/ q.op = "CREATE_ROLE" /\ ~NameTaken(q.set.role, i)

SaveRole(r) ==
    LET q == requests[r] IN
    /\ At(r, "save") /\ q.target \in RoleIds
    /\ \/ /\ CanWrite(q)
          /\ roles' = Written(q)
          /\ Become(r, [Idle EXCEPT !.pc = "log"])
       \/ ~CanWrite(q) /\ Finish(r) /\ UNCHANGED roles
    /\ UNCHANGED <<users, topic, history>>

(***************************************************************************)
(* The log, failures, the specification.                                   *)
(***************************************************************************)
\* AuditLog.create, the last call of each handler that writes one; no handler reads it back.
WriteLog(r) ==
    /\ At(r, "log")
    /\ Finish(r)
    /\ UNCHANGED <<dbVars, topic, history>>

Fail(r) ==
    /\ RequestsFail /\ ~At(r, "idle")
    /\ Finish(r)
    /\ UNCHANGED <<dbVars, topic, history>>

Accounts(r) ==
    \/ EnterForUser(r) \/ ReadForUpdate(r) \/ ReadForSuspend(r) \/ ReadForRestore(r)
    \/ CannotSuspend(r) \/ ReadForDelete(r) \/ CountSuperAdmins(r) \/ ReadForChangeRole(r)
    \/ ReadForHardDelete(r) \/ ReadForCreateLawyer(r)
    \/ SaveUser(r) \/ ChangeRole(r) \/ HardDelete(r) \/ SaveAsLawyer(r)

Roles(r) ==
    \/ EnterForRole(r) \/ ReadForCreateRole(r) \/ ReadForUpdateRole(r)
    \/ ReadForDeleteRole(r) \/ SaveRole(r)

Next ==
    \/ \E r \in Requests :
          Accounts(r) \/ Roles(r) \/ NotFound(r) \/ WriteLog(r) \/ Fail(r)
    \/ \E t \in Users : DeleteUser(t)

Spec == Init /\ [][Next]_vars

(***************************************************************************)
(* Properties.                                                             *)
(***************************************************************************)
\* Some super admin is left as long as each was counted before it was deleted: not when two
\* deletes overlap, nor when UsersService deletes one, nor when SuperadminService deletes one
\* whose role LawyerService.create took before.
SuperAdminRemains == (SuperAdmins # {} /\ ~uncounted) => SuperAdminsLeft # {}

\* However stale what they have read, no handler suspends a super admin of the seed, and none
\* but LawyerService.create is the first to take its role.
SuperAdminsIntact ==
    \A u \in SuperAdmins : users[u].there =>
        /\ users[u].status = "active"
        /\ users[u].role = "superadmin" \/ u \in demoted

\* The status of an account is what was decided last, whatever else was saved from an older
\* copy, unless two decisions on it overlapped.
StatusStands ==
    \A u \in Users : users[u].there /\ decided[u] # None => users[u].status = decided[u]

\* A save from a copy read before a deletion does not bring the account back.
DeletedStaysDeleted ==
    [][\A u \in Users : (users[u].deleted => users'[u].deleted)
                       /\ (~users[u].there => ~users'[u].there)]_vars

\* However creates and renamings overlap, a name belongs to one role.
OneRolePerName ==
    \A i, j \in RoleIds :
        roles[i].there /\ roles[j].there /\ roles[i].name = roles[j].name => i = j

(***************************************************************************)
(* The inductive invariant.                                                *)
(***************************************************************************)
\* Some super admin is left that nobody is about to delete.
Survivor ==
    (SuperAdmins # {} /\ ~uncounted) =>
        \E u \in SuperAdminsLeft :
            \A r \in Requests : Pending(r, "DELETE_ADMIN") => requests[r].target # u

\* What a request that has read its target is going to write.
SetOK(q) ==
    /\ q.op = "UPDATE_ADMIN" =>
          q.set.status = None /\ q.set.deleted = None /\ (IsSuper(q.target) => q.set.role = None)
    /\ q.op \in Deciding =>
          q.set.role = None /\ q.set.deleted = None /\ q.set.status \in {None, Decision(q.op)}
    /\ q.op = "DELETE_ADMIN" => q.set = Deletion
    /\ q.op \in {"changeRole", "CREATE_ROLE"} => q.set.role # None
    /\ q.op = "createLawyer" =>
          q.set.role \in {"lawyer", None} /\ q.set.status = None /\ q.set.deleted = None
    /\ q.op = "SUSPEND_ADMIN" => ~IsSuper(q.target)
    /\ q.op \in {"changeRole", "deleteAdmin"} => ~IsSuper(q.target) \/ q.target \in demoted

\* What its target is, and what a request that decides on a status still knows of it.
SlotOK(q) ==
    /\ q.pc \in {"read", "count", "save"} =>
          /\ q.op \in Ops
          /\ q.target \in (IF q.op \in {"CREATE_ROLE", "UPDATE_ROLE", "DELETE_ROLE"}
                            THEN RoleIds ELSE Users)
    /\ q.pc = "count" => q.op = "DELETE_ADMIN"
    /\ q.pc = "save" => SetOK(q)
    /\ q.pc = "save" /\ q.op \in Deciding /\ q.set.status = None /\ decided[q.target] # None
          => decided[q.target] = Decision(q.op)

\* Two requests that decide on one status have been noticed.
DecidersNoticed ==
    \A r, s \in Requests :
        r # s /\ At(r, "save") /\ At(s, "save") /\ requests[r].target = requests[s].target
            /\ requests[r].op \in Deciding /\ requests[s].op \in Deciding
            /\ ~IsSuper(requests[r].target)
        => decided[requests[r].target] = None

IInv ==
    /\ TypeOK
    /\ SuperAdminsIntact /\ StatusStands /\ OneRolePerName
    /\ Survivor
    /\ \A u \in SuperAdmins : decided[u] = "active"
    /\ \A r \in Requests : SlotOK(requests[r])
    /\ DecidersNoticed
=============================================================================
