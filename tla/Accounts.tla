------------------------------ MODULE Accounts ------------------------------
(***************************************************************************)
(* Accounts and sessions: AuthService, the calls of ClientService,         *)
(* AdminService, SuperadminService and AdminsController that create a user,*)
(* over the collections User, Lawyer, Client and RefreshToken.             *)
(*                                                                         *)
(* As in Offers one action is one awaited call of one request, requests    *)
(* interleave and may die between two calls.  Access tokens are kept       *)
(* nowhere and are left out; so is what ends a request before its first    *)
(* write (a ban, a wrong password, a token that has expired).              *)
(*                                                                         *)
(* "createAdminUser" is also SuperadminService.createAdmin, which does the *)
(* same; "createAdmin" is AdminsController.createAdmin, which takes the    *)
(* role of the new user from the body.  Three handlers give a role to a    *)
(* user that exists, changeRole, updateAdmin and LawyerService.create:     *)
(* each reads the user, writes the role, and creates no profile.           *)
(***************************************************************************)
EXTENDS Naturals, FiniteSets

CONSTANTS
    Users,          \* ids of user documents
    Emails,         \* addresses
    Passwords,      \* what people type
    Tokens,         \* refresh tokens
    Resets,         \* tokens of password reset links
    Requests,       \* requests being served at the same time
    None,           \* null
    Paths,          \* the ways in which accounts are created
    NewRoles,       \* the roles that administrators give to users that exist
    Legacy,         \* users whose password was stored before passwords were hashed
    RequestsFail    \* whether a request may die between two calls

Prehashed == {"createClient", "createAdminUser"}
Registering == {"register_lawyer", "register_client", "register_admin"}
WithProfile == {"register_lawyer", "register_client", "createClient"}
AllPaths == Registering \cup Prehashed \cup {"createAdmin"}

\* "admin" stands for every role without a profile.
Roles == {"client", "lawyer", "admin"}

ASSUME NoneAssumption ==
    None \notin Roles \cup Users \cup Emails \cup Passwords \cup Tokens \cup Resets

ASSUME PathsAssumption == Paths \subseteq AllPaths

ASSUME NewRolesAssumption == NewRoles \subseteq Roles

ASSUME LegacyAssumption == Legacy \subseteq Users

ASSUME SwitchAssumption == RequestsFail \in BOOLEAN

VARIABLES
    users,          \* the User collection
    profiles,       \* users with a Lawyer or Client document
    tokens,         \* the RefreshToken collection
    links,          \* reset tokens that were mailed
    requests,       \* what each request in flight has read and does next
    chosen,         \* history: the password last chosen for a user
    followed,       \* history: users that opened their verification link
    spent,          \* history: tokens exchanged, or ended by a logout or a reset
    abandoned,      \* history: users whose creation died before their profile, or whose
                    \* profile was deleted
    appointed       \* history: users whose role was chosen by an administrator

dbVars == <<users, profiles, tokens, links>>
history == <<chosen, followed, spent, abandoned, appointed>>
vars == <<dbVars, requests, history>>

(***************************************************************************)
(* Passwords and verification tokens.  layers counts how often bcrypt was  *)
(* applied; comparePassword undoes one layer, and a password that does not *)
(* look hashed is compared as it is.                                       *)
(***************************************************************************)
Stored == [layers: 0..2, text: Passwords]
Plain(p) == [layers |-> 0, text |-> p]
Hash(s) == [s EXCEPT !.layers = @ + 1]
Accepts(s, p) == s.layers \in 0..1 /\ s.text = p

\* userSchema.pre('save') hashes whatever was assigned to password.
SavedPassword(s) == Hash(s)

\* The mailed token and its SHA-256 are different strings.
Verification == {"none", "raw", "sha256", "verified"}

(***************************************************************************)
(* Documents and requests.                                                 *)
(***************************************************************************)
UserDoc == [st: {"unused", "live", "deleted"}, email: Emails \cup {None},
            path: AllPaths \cup {None}, role: Roles \cup {None}, password: Stored \cup {None},
            reset: Resets \cup {None}, verification: Verification]

NoUser == [st |-> "unused", email |-> None, path |-> None, role |-> None, password |-> None,
           reset |-> None, verification |-> "none"]

TokenDoc == [st: {"unused", "live", "revoked", "expired"}, user: Users \cup {None}]

Live(u) == users[u].st = "live"
EmailTaken(e) == \E u \in Users : Live(u) /\ users[u].email = e
LiveTokens(u) == {t \in Tokens : tokens[t].st = "live" /\ tokens[t].user = u}
Dead(t) == tokens[t].st \in {"revoked", "expired"}

Steps == {"idle", "create_user", "create_profile", "issue", "login_save", "login_migrate",
          "logout_token", "revoke", "logout_end", "forgot_save", "reset_save", "role_save"}

\* known are the tokens that the request spends; after updateMany it goes to next.
Idle == [pc |-> "idle", user |-> None, email |-> None, path |-> None, role |-> None,
         password |-> None,
         token |-> None, known |-> {}, todo |-> {}, next |-> "idle"]

Request == [pc: Steps, user: Users \cup {None}, email: Emails \cup {None},
            path: AllPaths \cup {None}, role: Roles \cup {None}, password: Passwords \cup {None},
            token: Tokens \cup Resets \cup {None}, known: SUBSET Tokens,
            todo: SUBSET Tokens, next: Steps]

At(r, step) == requests[r].pc = step
Become(r, state) == requests' = [requests EXCEPT ![r] = state]
Goto(r, step) == Become(r, [requests[r] EXCEPT !.pc = step])
Finish(r) == Become(r, Idle)

TypeOK ==
    /\ users \in [Users -> UserDoc]
    /\ \A u \in Users : Live(u) => users[u].password \in Stored
    /\ profiles \subseteq Users
    /\ tokens \in [Tokens -> TokenDoc]
    /\ \A t \in Tokens : tokens[t].st # "unused" => tokens[t].user \in Users
    /\ links \subseteq Resets
    /\ requests \in [Requests -> Request]
    /\ chosen \in [Users -> Passwords \cup {None}]
    /\ followed \subseteq Users
    /\ spent \subseteq Tokens
    /\ abandoned \subseteq Users
    /\ appointed \subseteq Users

\* Legacy users are clients with a profile and a password in plain text.
Init ==
    \E email \in [Legacy -> Emails], text \in [Legacy -> Passwords] :
        /\ \A u, v \in Legacy : email[u] = email[v] => u = v
        /\ users = [u \in Users |->
               IF u \in Legacy
               THEN [NoUser EXCEPT !.st = "live", !.email = email[u], !.path = "register_client",
                                   !.role = "client", !.password = Plain(text[u])]
               ELSE NoUser]
        /\ chosen = [u \in Users |-> IF u \in Legacy THEN text[u] ELSE None]
        /\ profiles = Legacy
        /\ tokens = [t \in Tokens |-> [st |-> "unused", user |-> None]]
        /\ links = {}
        /\ requests = [r \in Requests |-> Idle]
        /\ followed = {} /\ spent = {} /\ abandoned = {} /\ appointed = {}

(***************************************************************************)
(* Creating an account.  register issues a refresh token at its end.       *)
(***************************************************************************)
\* The bounds on users, tokens and links: a request is let in only if an id is left
\* for it.
Left(ids, pending) == Cardinality({r \in Requests : pending[r]}) < Cardinality(ids)
UserLeft == Left({u \in Users : users[u].st = "unused"}, [r \in Requests |-> At(r, "create_user")])
ResetLeft == Left(Resets \ links, [r \in Requests |-> At(r, "forgot_save")])
TokenLeft == Left({t \in Tokens : tokens[t].st = "unused"},
    [r \in Requests |->
        \/ requests[r].pc \in {"login_save", "login_migrate", "issue"}
        \/ requests[r].path \in Registering
        \/ requests[r].next = "issue"])

FindByEmail(r, e, path, p) ==
    /\ At(r, "idle")
    /\ ~EmailTaken(e)
    /\ UserLeft
    /\ path \in Registering => TokenLeft
    /\ Become(r, [Idle EXCEPT !.pc = "create_user", !.email = e, !.path = path, !.password = p])
    /\ UNCHANGED <<dbVars, history>>

\* Mutant: only lawyers get a profile.
AfterCreateLawyer(path) ==
    CASE path = "register_lawyer" -> "create_profile"
      [] path \in Registering \ {"register_lawyer"} -> "issue"
      [] OTHER -> "idle"

AfterCreate(path) ==
    CASE path \in WithProfile -> "create_profile"
      [] path = "register_admin" -> "issue"
      [] OTHER -> "idle"

\* The role of a new user follows from the path, but for createAdmin, whose body names it.
RolesOf(path) ==
    CASE path \in {"register_client", "createClient"} -> {"client"}
      [] path = "register_lawyer" -> {"lawyer"}
      [] path = "createAdmin" -> Roles
      [] OTHER -> {"admin"}

NewUser(req, role) ==
    [st |-> "live", email |-> req.email, path |-> req.path, role |-> role,
     password |-> SavedPassword(IF req.path \in Prehashed THEN Hash(Plain(req.password))
                                ELSE Plain(req.password)),
     reset |-> None,
     verification |-> IF req.path \in Registering THEN "sha256" ELSE "none"]

\* Mutant: the collection has no unique index on email.
CreateUserNoIndex(r) ==
    LET req == requests[r] IN
    /\ At(r, "create_user")
    /\ \E u \in Users, role \in RolesOf(req.path) :
          /\ users[u].st = "unused"
          /\ users' = [users EXCEPT ![u] = NewUser(req, role)]
          /\ chosen' = [chosen EXCEPT ![u] = req.password]
          /\ Become(r, [Idle EXCEPT !.pc = AfterCreate(req.path), !.path = req.path, !.user = u])
    /\ UNCHANGED <<profiles, tokens, links, followed, spent, abandoned, appointed>>

CreateUser(r) ==
    LET req == requests[r] IN
    /\ At(r, "create_user")
    /\ \/ /\ EmailTaken(req.email)           \* duplicate key error
          /\ Finish(r)
          /\ UNCHANGED <<users, chosen, appointed>>
       \/ /\ ~EmailTaken(req.email)
          /\ \E u \in Users, role \in RolesOf(req.path) :
                /\ users[u].st = "unused"
                /\ users' = [users EXCEPT ![u] = NewUser(req, role)]
                /\ chosen' = [chosen EXCEPT ![u] = req.password]
                /\ appointed' = IF req.path = "createAdmin" THEN appointed \cup {u} ELSE appointed
                /\ IF AfterCreate(req.path) = "idle" THEN Finish(r)
                   ELSE Become(r, [Idle EXCEPT !.pc = AfterCreate(req.path),
                                               !.path = req.path, !.user = u])
    /\ UNCHANGED <<profiles, tokens, links, followed, spent, abandoned>>

CreateProfile(r) ==
    LET req == requests[r] IN
    /\ At(r, "create_profile")
    /\ profiles' = profiles \cup {req.user}
    /\ IF req.path \in Registering THEN Goto(r, "issue") ELSE Finish(r)
    /\ UNCHANGED <<users, tokens, links, history>>

\* generateRefreshToken, and the answer to register, login or refresh.
IssueToken(r) ==
    LET req == requests[r] IN
    /\ At(r, "issue")
    /\ req.todo = {}
    /\ \E t \in Tokens :
          /\ tokens[t].st = "unused"
          /\ tokens' = [tokens EXCEPT ![t] = [st |-> "live", user |-> req.user]]
    /\ spent' = spent \cup req.known
    /\ Finish(r)
    /\ UNCHANGED <<users, profiles, links, chosen, followed, abandoned, appointed>>

(***************************************************************************)
(* login.                                                                  *)
(***************************************************************************)
ReadUserForLogin(r, u, p) ==
    /\ At(r, "idle")
    /\ Live(u)
    /\ Accepts(users[u].password, p)
    /\ TokenLeft
    /\ Become(r, [Idle EXCEPT !.user = u, !.password = p,
                  !.pc = IF users[u].password.layers = 0 THEN "login_migrate" ELSE "login_save"])
    /\ UNCHANGED <<dbVars, history>>

\* Mutant: the whole document that was read is written back.
SaveLoginWhole(r) ==
    LET req == requests[r] IN
    /\ At(r, "login_save")
    /\ IF Live(req.user)
       THEN /\ users' = [users EXCEPT ![req.user].password = Hash(Plain(req.password))]
            /\ Goto(r, "issue")
       ELSE Finish(r) /\ UNCHANGED users
    /\ UNCHANGED <<profiles, tokens, links, history>>

\* Only lastLogin is written; save() of a deleted document throws.
SaveLogin(r) ==
    /\ At(r, "login_save")
    /\ IF Live(requests[r].user) THEN Goto(r, "issue") ELSE Finish(r)
    /\ UNCHANGED <<dbVars, history>>

\* updateOne runs no hook, and does not complain of a missing document.
MigratePassword(r) ==
    LET req == requests[r] IN
    /\ At(r, "login_migrate")
    /\ users' = IF Live(req.user)
                THEN [users EXCEPT ![req.user].password = Hash(Plain(req.password))]
                ELSE users
    /\ Goto(r, "issue")
    /\ UNCHANGED <<profiles, tokens, links, history>>

(***************************************************************************)
(* refreshToken and logout, which revoke by updateMany, document by        *)
(* document.                                                               *)
(***************************************************************************)
\* Also fails when populate finds no user.
FindToken(r, t) ==
    /\ At(r, "idle")
    /\ tokens[t].st = "live"
    /\ Live(tokens[t].user)
    /\ TokenLeft
    /\ Become(r, [Idle EXCEPT !.pc = "revoke", !.next = "issue", !.user = tokens[t].user,
                              !.known = {t}])
    /\ UNCHANGED <<dbVars, history>>

\* The authenticated user, with or without its refresh token.
ReadUserForLogout(r, u, t) ==
    /\ At(r, "idle")
    /\ Live(u)
    /\ Become(r, [Idle EXCEPT !.pc = IF t = None THEN "revoke" ELSE "logout_token",
                  !.next = "logout_end", !.user = u, !.token = t, !.known = LiveTokens(u)])
    /\ UNCHANGED <<dbVars, history>>

RevokePresented(r) ==
    LET req == requests[r] IN
    /\ At(r, "logout_token")
    /\ tokens' = IF req.token \in LiveTokens(req.user)
                 THEN [tokens EXCEPT ![req.token].st = "revoked"] ELSE tokens
    /\ Goto(r, "revoke")
    /\ UNCHANGED <<users, profiles, links, history>>

\* Mutant: updateMany is forgotten.
StartRevokingNone(r) ==
    /\ At(r, "revoke")
    /\ Goto(r, requests[r].next)
    /\ UNCHANGED <<dbVars, history>>

\* updateMany matches the live tokens of the user, then updates one by one.
StartRevoking(r) ==
    LET req == requests[r] IN
    /\ At(r, "revoke")
    /\ Become(r, [req EXCEPT !.pc = req.next, !.todo = LiveTokens(req.user)])
    /\ UNCHANGED <<dbVars, history>>

RevokeOne(r, t) ==
    LET req == requests[r] IN
    /\ t \in req.todo
    /\ tokens' = IF tokens[t].st = "live" THEN [tokens EXCEPT ![t].st = "revoked"] ELSE tokens
    /\ Become(r, [req EXCEPT !.todo = @ \ {t}])
    /\ UNCHANGED <<users, profiles, links, history>>

EndLogout(r) ==
    LET req == requests[r] IN
    /\ At(r, "logout_end")
    /\ req.todo = {}
    /\ spent' = spent \cup req.known
    /\ Finish(r)
    /\ UNCHANGED <<dbVars, chosen, followed, abandoned, appointed>>

(***************************************************************************)
(* forgotPassword, resetPassword and verifyEmail.                          *)
(***************************************************************************)
ReadUserForForgot(r, u) ==
    /\ At(r, "idle")
    /\ Live(u)
    /\ ResetLeft
    /\ Become(r, [Idle EXCEPT !.pc = "forgot_save", !.user = u])
    /\ UNCHANGED <<dbVars, history>>

\* One token at a time: a second request replaces the first one's.
SaveResetToken(r) ==
    LET u == requests[r].user IN
    /\ At(r, "forgot_save")
    /\ IF Live(u)
       THEN \E k \in Resets \ links :
               /\ users' = [users EXCEPT ![u].reset = k]
               /\ links' = links \cup {k}
       ELSE UNCHANGED <<users, links>>
    /\ Finish(r)
    /\ UNCHANGED <<profiles, tokens, history>>

ReadUserForReset(r, u, p) ==
    /\ At(r, "idle")
    /\ Live(u)
    /\ users[u].reset \in links
    /\ Become(r, [Idle EXCEPT !.pc = "revoke", !.next = "reset_save", !.user = u,
                              !.password = p, !.known = LiveTokens(u)])
    /\ UNCHANGED <<dbVars, history>>

SavePassword(r) ==
    LET req == requests[r] IN
    /\ At(r, "reset_save")
    /\ req.todo = {}
    /\ IF Live(req.user)
       THEN /\ users' = [users EXCEPT ![req.user].password = SavedPassword(Plain(req.password)),
                                      ![req.user].reset = None]
            /\ chosen' = [chosen EXCEPT ![req.user] = req.password]
            /\ spent' = spent \cup req.known
       ELSE UNCHANGED <<users, chosen, spent>>
    /\ Finish(r)
    /\ UNCHANGED <<profiles, tokens, links, followed, abandoned, appointed>>

\* The link carries the token itself, which verifyEmail looks for; register stores
\* its hash, so that the save that follows the findOne is never reached.
FollowVerificationLink(u) ==
    /\ Live(u)
    /\ users[u].path \in Registering
    /\ u \notin Legacy \cup followed
    /\ followed' = followed \cup {u}
    /\ users' = IF users[u].verification = "raw"
                THEN [users EXCEPT ![u].verification = "verified"] ELSE users
    /\ UNCHANGED <<profiles, tokens, links, requests, chosen, spent, abandoned, appointed>>

(***************************************************************************)
(* An administrator gives a role to a user: SuperadminService.changeRole,  *)
(* AdminsController.updateAdmin, LawyerService.create.  The last creates a *)
(* profile after its save, but without the specialization that the schema  *)
(* requires, so that this call always throws.                              *)
(***************************************************************************)
ReadUserForRole(r, u, role) ==
    /\ At(r, "idle")
    /\ Live(u)
    /\ Become(r, [Idle EXCEPT !.pc = "role_save", !.user = u, !.role = role])
    /\ UNCHANGED <<dbVars, history>>

SaveRole(r) ==
    LET req == requests[r] IN
    /\ At(r, "role_save")
    /\ IF Live(req.user)
       THEN /\ users' = [users EXCEPT ![req.user].role = req.role]
            /\ appointed' = IF users[req.user].role = req.role THEN appointed
                            ELSE appointed \cup {req.user}
       ELSE UNCHANGED <<users, appointed>>
    /\ Finish(r)
    /\ UNCHANGED <<profiles, tokens, links, chosen, followed, spent, abandoned>>

(***************************************************************************)
(* Administrators delete users or profiles, the TTL index deletes tokens.  *)
(* Soft deletion (AdminsController.deleteAdmin) is left out.               *)
(***************************************************************************)
DeleteUser(u) ==
    /\ Live(u)
    /\ users' = [users EXCEPT ![u] = [NoUser EXCEPT !.st = "deleted"]]
    /\ UNCHANGED <<profiles, tokens, links, requests, history>>

DeleteProfile(u) ==
    /\ u \in profiles
    /\ profiles' = profiles \ {u}
    /\ abandoned' = abandoned \cup {u}
    /\ UNCHANGED <<users, tokens, links, requests, chosen, followed, spent, appointed>>

ExpireToken(t) ==
    /\ tokens[t].st \in {"live", "revoked"}
    /\ tokens' = [tokens EXCEPT ![t].st = "expired"]
    /\ UNCHANGED <<users, profiles, links, requests, history>>

\* The process serving r crashes, or a call of r throws.
Fail(r) ==
    /\ RequestsFail
    /\ ~At(r, "idle")
    /\ abandoned' = IF At(r, "create_profile") THEN abandoned \cup {requests[r].user}
                    ELSE abandoned
    /\ Finish(r)
    /\ UNCHANGED <<dbVars, chosen, followed, spent, appointed>>

----------------------------------------------------------------------------
Proceed(r) ==
    \/ CreateUser(r) \/ CreateProfile(r) \/ IssueToken(r)
    \/ SaveLogin(r) \/ MigratePassword(r)
    \/ RevokePresented(r) \/ StartRevoking(r) \/ EndLogout(r)
    \/ \E t \in Tokens : RevokeOne(r, t)
    \/ SaveResetToken(r) \/ SavePassword(r) \/ SaveRole(r)

Arrive(r) ==
    \/ \E e \in Emails, path \in Paths, p \in Passwords : FindByEmail(r, e, path, p)
    \/ \E t \in Tokens : FindToken(r, t)
    \/ \E u \in Users :
          \/ \E p \in Passwords : ReadUserForLogin(r, u, p) \/ ReadUserForReset(r, u, p)
          \/ \E t \in Tokens \cup {None} : ReadUserForLogout(r, u, t)
          \/ ReadUserForForgot(r, u)
          \/ \E role \in NewRoles : ReadUserForRole(r, u, role)

Next ==
    \/ \E r \in Requests : Arrive(r) \/ Proceed(r) \/ Fail(r)
    \/ \E u \in Users : FollowVerificationLink(u) \/ DeleteUser(u) \/ DeleteProfile(u)
    \/ \E t \in Tokens : ExpireToken(t)

Spec == Init /\ [][Next]_vars
----------------------------------------------------------------------------
\* However many requests create accounts, an email has one account: the unique
\* index decides, not the findOne before it (register, createClient, createAdmin).
OneAccountPerEmail ==
    \A u, v \in Users : (Live(u) /\ Live(v) /\ users[u].email = users[v].email) => u = v

\* A refresh token that was exchanged, or that existed when a logout or a reset that
\* was answered began, is never accepted again (refreshToken, logout, resetPassword).
SpentTokensRevoked == \A t \in spent : Dead(t)

\* The password last chosen for an account opens it, whatever logins and resets
\* overlap (the pre-save hook, login, resetPassword).
\* Legacy accounts are excepted: the migration of one may undo a reset.
CredentialsWork ==
    \A u \in Users \ Legacy : Live(u) => Accepts(users[u].password, chosen[u])

\* A client or lawyer lacks a profile only if the request that created it died half
\* way, if an administrator deleted the profile, or if its role is not the one it came
\* with: createAdmin, changeRole, updateAdmin and LawyerService.create give the roles
\* of clients and lawyers to users without a profile (register, createClient).
ProfilesComplete ==
    \A u \in Users : (Live(u) /\ users[u].role \in {"client", "lawyer"}) =>
        \/ u \in profiles \cup abandoned \cup appointed
        \/ \E r \in Requests : At(r, "create_profile") /\ requests[r].user = u

----------------------------------------------------------------------------
(***************************************************************************)
(* What the requests in flight rely on, which makes the above inductive.   *)
(***************************************************************************)
\* A password is never stored in plain text but for legacy users, and is hashed
\* twice only where the path hashes it before the hook does.
UserOK(u) ==
    (Live(u) /\ u \notin Legacy) =>
        /\ users[u].path \in Paths
        /\ users[u].password.layers \in 1..2
        /\ users[u].path \notin Prehashed => Accepts(users[u].password, chosen[u])

\* The tokens a request ends are, until updateMany has matched them, live tokens of
\* its user or dead, and then those still to do or dead.
SlotOK(q) ==
    /\ q.pc = "create_user" => q.path \in Paths
    /\ q.pc \in {"create_user", "login_migrate", "reset_save"} => q.password \in Passwords
    /\ q.pc \notin {"idle", "create_user"} => q.user \in Users
    /\ q.pc = "role_save" => q.role \in Roles
    /\ q.pc = "login_migrate" => q.user \in Legacy
    /\ q.pc \in {"logout_token", "revoke"} =>
          /\ q.next \in {"issue", "logout_end", "reset_save"}
          /\ q.next = "reset_save" => q.password \in Passwords
          /\ q.todo = {}
          /\ \A t \in q.known : Dead(t) \/ t \in LiveTokens(q.user)
    /\ q.pc \notin {"logout_token", "revoke"} => \A t \in q.known : Dead(t) \/ t \in q.todo
    /\ \A t \in q.todo : tokens[t].st # "unused"

IInv ==
    /\ TypeOK
    /\ OneAccountPerEmail
    /\ SpentTokensRevoked
    /\ ProfilesComplete
    /\ \A u \in Users : UserOK(u)
    /\ \A r \in Requests : SlotOK(requests[r])
=============================================================================
