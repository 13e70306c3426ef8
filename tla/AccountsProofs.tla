--------------------------- MODULE AccountsProofs ---------------------------
(***************************************************************************)
(* Theorems about Accounts, for any number of users, tokens and requests   *)
(* in flight, with or without failures.                                    *)
(***************************************************************************)
EXTENDS Accounts, TLAPS

\* No token that was issued becomes unused or changes hands, none revives.
TokensMove ==
    \A t \in Tokens :
        /\ Dead(t) => Dead(t)'
        /\ tokens[t].st # "unused" =>
              tokens'[t].st # "unused" /\ tokens'[t].user = tokens[t].user

\* No account appears or changes its address, and a role changes only by appointment.
UsersShrink ==
    \A u \in Users : Live(u)' => /\ Live(u)
                                 /\ users'[u].email = users[u].email
                                 /\ users'[u].role = users[u].role \/ u \in appointed'

\* Everything of TypeOK but the slots.
DocsTypeOK ==
    /\ users \in [Users -> UserDoc]
    /\ \A u \in Users : Live(u) => users[u].password \in Stored
    /\ profiles \subseteq Users
    /\ tokens \in [Tokens -> TokenDoc]
    /\ \A t \in Tokens : tokens[t].st # "unused" => tokens[t].user \in Users
    /\ links \subseteq Resets
    /\ chosen \in [Users -> Passwords \cup {None}]
    /\ followed \subseteq Users
    /\ spent \subseteq Tokens
    /\ abandoned \subseteq Users
    /\ appointed \subseteq Users

\* Everything of IInv but the slots and the profiles.
DocsOK ==
    /\ DocsTypeOK
    /\ OneAccountPerEmail
    /\ SpentTokensRevoked
    /\ \A u \in Users : UserOK(u)

LEMMA IdleOK == Idle \in Request /\ SlotOK(Idle) /\ SlotOK(Idle)'
BY DEF Idle, Request, Steps, SlotOK

LEMMA SlotStays ==
    ASSUME NEW q \in Request, TokensMove, tokens \in [Tokens -> TokenDoc],
           tokens' \in [Tokens -> TokenDoc], SlotOK(q)
    PROVE  SlotOK(q)'
<1>1. q.known \subseteq Tokens /\ q.todo \subseteq Tokens
  BY DEF Request
<1>2. \A t \in Tokens, u \in Users :
         (Dead(t) \/ t \in LiveTokens(u)) => (Dead(t) \/ t \in LiveTokens(u))'
  BY DEF TokensMove, Dead, LiveTokens, TokenDoc
<1>3. \A t \in q.todo : tokens'[t].st # "unused"
  BY <1>1 DEF SlotOK, TokensMove
<1>4. q.pc \notin {"logout_token", "revoke"} => (\A t \in q.known : Dead(t) \/ t \in q.todo)'
  BY <1>1 DEF SlotOK, TokensMove
<1>5. q.pc \in {"logout_token", "revoke"} =>
         (\A t \in q.known : Dead(t) \/ t \in LiveTokens(q.user))'
  BY <1>1, <1>2 DEF SlotOK
<1> QED BY <1>3, <1>4, <1>5 DEF SlotOK

LEMMA SetSlot ==
    ASSUME IInv, DocsOK', ProfilesComplete', TokensMove,
           NEW r \in Requests, NEW q \in Request, SlotOK(q)', Become(r, q)
    PROVE  IInv'
<1>1. requests' = [requests EXCEPT ![r] = q]
  BY DEF Become
<1>2. requests' \in [Requests -> Request]
  BY <1>1 DEF IInv, TypeOK
<1>3. ASSUME NEW s \in Requests PROVE SlotOK(requests[s])'
  <2>1. CASE s = r
    <3>1. requests'[s] = q
      BY <1>1, <2>1 DEF IInv, TypeOK
    <3> QED BY <3>1 DEF SlotOK
  <2>2. CASE s # r
    <3>1. requests'[s] = requests[s] /\ requests[s] \in Request
      BY <1>1, <2>2 DEF IInv, TypeOK
    <3>2. PICK p \in Request : p = requests[s]
      BY <3>1
    <3>3. SlotOK(p)'
      BY <3>2, SlotStays DEF IInv, TypeOK, DocsOK, DocsTypeOK
    <3> QED BY <3>1, <3>2, <3>3 DEF SlotOK
  <2> QED BY <2>1, <2>2
<1> QED BY <1>2, <1>3 DEF IInv, TypeOK, DocsOK, DocsTypeOK

\* A step that keeps every slot.
LEMMA KeepSlots ==
    ASSUME IInv, DocsOK', ProfilesComplete', TokensMove, UNCHANGED requests
    PROVE  IInv'
<1>1. ASSUME NEW s \in Requests PROVE SlotOK(requests[s])'
  <2>1. PICK p \in Request : p = requests[s]
    BY DEF IInv, TypeOK
  <2>2. SlotOK(p)'
    BY <2>1, SlotStays DEF IInv, TypeOK, DocsOK, DocsTypeOK
  <2> QED BY <2>1, <2>2 DEF SlotOK
<1> QED BY <1>1 DEF IInv, TypeOK, DocsOK, DocsTypeOK

\* Only a request that creates a profile, and is about to stop, matters to profiles.
LEMMA ProfilesStay ==
    ASSUME IInv, UsersShrink, NEW r \in Requests, NEW q, Become(r, q),
           profiles \cup abandoned \cup appointed
              \subseteq profiles' \cup abandoned' \cup appointed',
           At(r, "create_profile") => requests[r].user \in profiles' \cup abandoned'
    PROVE  ProfilesComplete'
<1> SUFFICES ASSUME NEW u \in Users, Live(u)', users'[u].role \in {"client", "lawyer"},
                    u \notin profiles' \cup abandoned' \cup appointed'
             PROVE  \E s \in Requests : At(s, "create_profile")' /\ requests'[s].user = u
  BY DEF ProfilesComplete
<1>1. PICK s \in Requests : At(s, "create_profile") /\ requests[s].user = u
  BY DEF IInv, ProfilesComplete, UsersShrink
<1>2. s # r
  BY <1>1
<1>3. requests'[s] = requests[s]
  BY <1>2 DEF Become, IInv, TypeOK
<1> QED BY <1>1, <1>3 DEF At

LEMMA ProfilesKept ==
    ASSUME IInv, UsersShrink, UNCHANGED requests,
           profiles \cup abandoned \cup appointed
              \subseteq profiles' \cup abandoned' \cup appointed'
    PROVE  ProfilesComplete'
BY DEF IInv, ProfilesComplete, UsersShrink, At

LEMMA DocsOKNow == IInv => DocsOK
BY DEF IInv, TypeOK, DocsOK, DocsTypeOK

\* A step that changes no document.
LEMMA ReadSlot ==
    ASSUME IInv, NEW r \in Requests, NEW q \in Request, SlotOK(q), Become(r, q),
           ~At(r, "create_profile"), UNCHANGED <<dbVars, history>>
    PROVE  IInv'
<1>1. TokensMove /\ UsersShrink
  BY DEF TokensMove, UsersShrink, Dead, Live, dbVars
<1>2. DocsOK'
  BY DocsOKNow DEF DocsOK, DocsTypeOK, OneAccountPerEmail, SpentTokensRevoked, UserOK,
     Live, Dead, dbVars, history
<1>3. SlotOK(q)'
  BY <1>1, SlotStays DEF IInv, TypeOK, dbVars
<1>4. ProfilesComplete'
  BY <1>1, ProfilesStay DEF dbVars, history
<1> QED BY <1>1, <1>2, <1>3, <1>4, SetSlot

LEMMA ReadIdle ==
    ASSUME IInv, NEW r \in Requests, Finish(r), ~At(r, "create_profile"),
           UNCHANGED <<dbVars, history>>
    PROVE  IInv'
BY IdleOK, ReadSlot DEF Finish

LEMMA InitIInv == Init => IInv
<1> SUFFICES ASSUME Init PROVE IInv
  OBVIOUS
<1>1. PICK addr \in [Legacy -> Emails], word \in [Legacy -> Passwords] :
         /\ \A u, v \in Legacy : addr[u] = addr[v] => u = v
         /\ users = [u \in Users |->
                IF u \in Legacy
                THEN [NoUser EXCEPT !.st = "live", !.email = addr[u], !.path = "register_client",
                                    !.role = "client", !.password = Plain(word[u])]
                ELSE NoUser]
         /\ chosen = [u \in Users |-> IF u \in Legacy THEN word[u] ELSE None]
         /\ profiles = Legacy
  BY DEF Init
<1>2. \A u \in Users : Live(u) <=> u \in Legacy
  BY <1>1 DEF Live, NoUser
<1>3. ASSUME NEW u \in Legacy
      PROVE  users[u].email = addr[u] /\ users[u].password \in Stored /\ users[u] \in UserDoc
  <2>1. users[u] = [st |-> "live", email |-> addr[u], path |-> "register_client",
                    role |-> "client", password |-> Plain(word[u]), reset |-> None, verification |-> "none"]
    BY <1>1, LegacyAssumption DEF NoUser
  <2>2. Plain(word[u]) \in Stored
    BY DEF Plain, Stored
  <2>3. "register_client" \in AllPaths /\ "client" \in Roles /\ "none" \in Verification
    BY DEF AllPaths, Registering, Roles, Verification
  <2>4. addr[u] \in Emails
    OBVIOUS
  <2> QED BY <2>1, <2>2, <2>3, <2>4 DEF UserDoc
<1>4. \A u \in Users : users[u] \in UserDoc
  <2>1. NoUser \in UserDoc
    BY DEF NoUser, UserDoc, Verification
  <2> QED BY <1>1, <1>3, <2>1
<1>5. /\ tokens = [t \in Tokens |-> [st |-> "unused", user |-> None]]
      /\ requests = [r \in Requests |-> Idle]
      /\ links = {} /\ followed = {} /\ spent = {} /\ abandoned = {} /\ appointed = {}
  BY DEF Init
<1>6. users \in [Users -> UserDoc] /\ chosen \in [Users -> Passwords \cup {None}]
  BY <1>1, <1>4
<1>7. TypeOK
  <2>1. \A u \in Users : Live(u) => users[u].password \in Stored
    BY <1>2, <1>3
  <2>2. tokens \in [Tokens -> TokenDoc] /\ \A t \in Tokens : tokens[t].st = "unused"
    BY <1>5 DEF TokenDoc
  <2> QED BY <1>1, <1>5, <1>6, <2>1, <2>2, IdleOK, LegacyAssumption DEF TypeOK
<1>8. OneAccountPerEmail
  <2> SUFFICES ASSUME NEW u \in Users, NEW v \in Users, Live(u), Live(v),
                      users[u].email = users[v].email
               PROVE  u = v
    BY DEF OneAccountPerEmail
  <2>1. u \in Legacy /\ v \in Legacy
    BY <1>2
  <2>2. addr[u] = addr[v]
    BY <1>3, <2>1
  <2> QED BY <1>1, <2>1, <2>2
<1>9. SpentTokensRevoked /\ ProfilesComplete /\ \A u \in Users : UserOK(u)
  BY <1>1, <1>2, <1>5, LegacyAssumption DEF SpentTokensRevoked, ProfilesComplete, UserOK
<1>10. \A r \in Requests : SlotOK(requests[r])
  BY <1>5, IdleOK
<1> QED BY <1>7, <1>8, <1>9, <1>10 DEF IInv

(***************************************************************************)
(* Steps that only set a slot.                                             *)
(***************************************************************************)
LEMMA FindStep ==
    ASSUME IInv, NEW r \in Requests
    PROVE  /\ \A e \in Emails, path \in Paths, p \in Passwords : FindByEmail(r, e, path, p) => IInv'
           /\ \A t \in Tokens : FindToken(r, t) => IInv'
<1>1. ASSUME NEW e \in Emails, NEW path \in Paths, NEW p \in Passwords, FindByEmail(r, e, path, p)
      PROVE  IInv'
  <2>1. PICK q \in Request : /\ q = [Idle EXCEPT !.pc = "create_user", !.email = e,
                                                 !.path = path, !.password = p]
    BY IdleOK, PathsAssumption DEF Idle, Request, Steps
  <2>2. SlotOK(q)
    BY <2>1 DEF SlotOK, Idle
  <2> QED BY <1>1, <2>1, <2>2, ReadSlot DEF FindByEmail, At
<1>2. ASSUME NEW t \in Tokens, FindToken(r, t) PROVE IInv'
  <2>1. tokens[t].user \in Users
    BY <1>2, NoneAssumption DEF FindToken, Live, IInv, TypeOK, TokenDoc
  <2>2. PICK q \in Request : q = [Idle EXCEPT !.pc = "revoke", !.next = "issue",
                                              !.user = tokens[t].user, !.known = {t}]
    BY <2>1, IdleOK DEF Idle, Request, Steps
  <2>3. SlotOK(q)
    BY <1>2, <2>1, <2>2 DEF SlotOK, Idle, FindToken, LiveTokens
  <2> QED BY <1>2, <2>2, <2>3, ReadSlot DEF FindToken, At
<1> QED BY <1>1, <1>2

LEMMA ReadUserStep ==
    ASSUME IInv, NEW r \in Requests, NEW u \in Users
    PROVE  /\ \A p \in Passwords : ReadUserForLogin(r, u, p) => IInv'
           /\ \A p \in Passwords : ReadUserForReset(r, u, p) => IInv'
           /\ \A t \in Tokens \cup {None} : ReadUserForLogout(r, u, t) => IInv'
           /\ ReadUserForForgot(r, u) => IInv'
           /\ \A role \in NewRoles : ReadUserForRole(r, u, role) => IInv'
<1>1. ASSUME NEW p \in Passwords, ReadUserForLogin(r, u, p) PROVE IInv'
  <2>1. PICK step \in {"login_migrate", "login_save"} :
           /\ step = IF users[u].password.layers = 0 THEN "login_migrate" ELSE "login_save"
           /\ Become(r, [Idle EXCEPT !.user = u, !.password = p, !.pc = step])
    BY <1>1 DEF ReadUserForLogin
  <2>2. PICK q \in Request : q = [Idle EXCEPT !.user = u, !.password = p, !.pc = step]
    BY IdleOK DEF Idle, Request, Steps
  <2>3. step = "login_migrate" => u \in Legacy
    BY <1>1, <2>1 DEF ReadUserForLogin, IInv, UserOK
  <2>4. SlotOK(q)
    BY <2>2, <2>3 DEF SlotOK, Idle
  <2> QED BY <1>1, <2>1, <2>2, <2>4, ReadSlot DEF ReadUserForLogin, At
<1>2. ASSUME NEW p \in Passwords, ReadUserForReset(r, u, p) PROVE IInv'
  <2>1. PICK q \in Request : q = [Idle EXCEPT !.pc = "revoke", !.next = "reset_save", !.user = u,
                                              !.password = p, !.known = LiveTokens(u)]
    BY IdleOK DEF Idle, Request, Steps, LiveTokens
  <2>2. SlotOK(q)
    BY <2>1 DEF SlotOK, Idle
  <2> QED BY <1>2, <2>1, <2>2, ReadSlot DEF ReadUserForReset, At
<1>3. ASSUME NEW t \in Tokens \cup {None}, ReadUserForLogout(r, u, t) PROVE IInv'
  <2>1. PICK step \in {"logout_token", "revoke"} :
           Become(r, [Idle EXCEPT !.pc = step, !.next = "logout_end", !.user = u,
                                  !.token = t, !.known = LiveTokens(u)])
    BY <1>3 DEF ReadUserForLogout
  <2>2. PICK q \in Request : q = [Idle EXCEPT !.pc = step, !.next = "logout_end", !.user = u,
                                              !.token = t, !.known = LiveTokens(u)]
    BY IdleOK DEF Idle, Request, Steps, LiveTokens
  <2>3. SlotOK(q)
    BY <2>2 DEF SlotOK, Idle
  <2> QED BY <1>3, <2>1, <2>2, <2>3, ReadSlot DEF ReadUserForLogout, At
<1>4. ASSUME ReadUserForForgot(r, u) PROVE IInv'
  <2>1. PICK q \in Request : q = [Idle EXCEPT !.pc = "forgot_save", !.user = u]
    BY IdleOK DEF Idle, Request, Steps
  <2>2. SlotOK(q)
    BY <2>1 DEF SlotOK, Idle
  <2> QED BY <1>4, <2>1, <2>2, ReadSlot DEF ReadUserForForgot, At
<1>5. ASSUME NEW role \in NewRoles, ReadUserForRole(r, u, role) PROVE IInv'
  <2>1. PICK q \in Request : q = [Idle EXCEPT !.pc = "role_save", !.user = u, !.role = role]
    BY IdleOK, NewRolesAssumption DEF Idle, Request, Steps
  <2>2. SlotOK(q)
    BY <2>1, NewRolesAssumption DEF SlotOK, Idle
  <2> QED BY <1>5, <2>1, <2>2, ReadSlot DEF ReadUserForRole, At
<1> QED BY <1>1, <1>2, <1>3, <1>4, <1>5

LEMMA SaveLoginStep ==
    ASSUME IInv, NEW r \in Requests, SaveLogin(r)
    PROVE  IInv'
<1>1. CASE Finish(r)
  BY <1>1, ReadIdle DEF SaveLogin, At
<1>2. CASE Goto(r, "issue")
  <2>1. PICK p \in Request : p = requests[r]
    BY DEF IInv, TypeOK
  <2>2. PICK q \in Request : q = [p EXCEPT !.pc = "issue"]
    BY DEF Request, Steps
  <2>3. SlotOK(q)
    BY <2>1, <2>2 DEF IInv, SlotOK, SaveLogin, At, Request
  <2> QED BY <1>2, <2>1, <2>2, <2>3, ReadSlot DEF SaveLogin, Goto, At
<1> QED BY <1>1, <1>2 DEF SaveLogin

LEMMA StartRevokingStep ==
    ASSUME IInv, NEW r \in Requests, StartRevoking(r)
    PROVE  IInv'
<1>1. PICK p \in Request : p = requests[r] /\ p.pc = "revoke"
  BY DEF IInv, TypeOK, StartRevoking, At
<1>2. p.next \in Steps \ {"logout_token", "revoke"}
  BY <1>1 DEF IInv, SlotOK, Steps
<1>3. PICK q \in Request : q = [p EXCEPT !.pc = p.next, !.todo = LiveTokens(p.user)]
  BY <1>2 DEF Request, LiveTokens
<1>4. SlotOK(p)
  BY <1>1 DEF IInv
<1>5. \A t \in q.todo : tokens[t].st # "unused"
  BY <1>3 DEF LiveTokens, Request
<1>6. q.known = p.known /\ q.user = p.user /\ q.pc = p.next /\ q.next = p.next
      /\ q.password = p.password /\ q.todo = LiveTokens(p.user)
  BY <1>3 DEF Request
<1>7. SlotOK(q)
  BY <1>1, <1>4, <1>5, <1>6 DEF SlotOK
<1> QED BY <1>1, <1>3, <1>7, ReadSlot DEF StartRevoking, At

(***************************************************************************)
(* Steps that change tokens.                                               *)
(***************************************************************************)
LEMMA TokenStep ==
    ASSUME IInv, UNCHANGED <<users, profiles, links, chosen, followed, abandoned, appointed>>,
           TokensMove, tokens' \in [Tokens -> TokenDoc],
           \A t \in Tokens : tokens'[t].st # "unused" => tokens'[t].user \in Users,
           spent' \subseteq Tokens, \A t \in spent' \ spent : Dead(t)'
    PROVE  DocsOK' /\ UsersShrink
<1>1. UsersShrink
  BY DEF UsersShrink, Live
<1>2. DocsTypeOK'
  BY DEF IInv, TypeOK, DocsTypeOK, Live
<1>3. OneAccountPerEmail' /\ \A u \in Users : UserOK(u)'
  BY DEF IInv, OneAccountPerEmail, UserOK, Live
<1>4. SpentTokensRevoked'
  BY DEF IInv, TypeOK, SpentTokensRevoked, TokensMove
<1> QED BY <1>1, <1>2, <1>3, <1>4 DEF DocsOK

\* One live token of the collection is revoked, or expires.
LEMMA EndToken ==
    ASSUME IInv, NEW t \in Tokens, NEW st \in {"revoked", "expired"}, tokens[t].st # "unused",
           tokens' = [tokens EXCEPT ![t].st = st],
           UNCHANGED <<users, profiles, links, history>>
    PROVE  DocsOK' /\ UsersShrink /\ TokensMove
<1>1. tokens \in [Tokens -> TokenDoc]
  BY DEF IInv, TypeOK
<1>2. tokens' \in [Tokens -> TokenDoc]
  BY <1>1 DEF TokenDoc
<1>3. TokensMove
  BY <1>1 DEF TokensMove, Dead, TokenDoc
<1>4. \A s \in Tokens : tokens'[s].st # "unused" => tokens'[s].user \in Users
  BY <1>1 DEF IInv, TypeOK, TokenDoc
<1> QED BY <1>2, <1>3, <1>4, TokenStep DEF history, IInv, TypeOK

LEMMA SameTokens ==
    ASSUME IInv, UNCHANGED <<dbVars, history>>
    PROVE  DocsOK' /\ UsersShrink /\ TokensMove
<1>1. TokensMove
  BY DEF TokensMove, Dead, dbVars
<1> QED BY <1>1, TokenStep DEF IInv, TypeOK, dbVars, history

LEMMA RevokePresentedStep ==
    ASSUME IInv, NEW r \in Requests, RevokePresented(r)
    PROVE  IInv'
<1>1. PICK p \in Request : p = requests[r] /\ p.pc = "logout_token"
  BY DEF IInv, TypeOK, RevokePresented, At
<1>2. DocsOK' /\ UsersShrink /\ TokensMove
  <2>1. CASE p.token \in LiveTokens(p.user)
    BY <1>1, <2>1, EndToken DEF RevokePresented, LiveTokens
  <2>2. CASE p.token \notin LiveTokens(p.user)
    BY <1>1, <2>2, SameTokens DEF RevokePresented, dbVars
  <2> QED BY <2>1, <2>2
<1>3. PICK q \in Request : q = [p EXCEPT !.pc = "revoke"]
  BY DEF Request, Steps
<1>4. SlotOK(q)
  BY <1>1, <1>3 DEF IInv, SlotOK, Request
<1>5. SlotOK(q)'
  BY <1>2, <1>4, SlotStays DEF IInv, TypeOK, DocsOK, DocsTypeOK
<1>6. Become(r, q)
  BY <1>1, <1>3 DEF RevokePresented, Goto
<1>7. ProfilesComplete'
  BY <1>1, <1>2, <1>6, ProfilesStay DEF RevokePresented, At, history
<1> QED BY <1>2, <1>5, <1>6, <1>7, SetSlot

LEMMA RevokeOneStep ==
    ASSUME IInv, NEW r \in Requests, NEW t \in Tokens, RevokeOne(r, t)
    PROVE  IInv'
<1>1. PICK p \in Request : p = requests[r]
  BY DEF IInv, TypeOK
<1>2. t \in p.todo /\ tokens[t].st # "unused"
  BY <1>1 DEF RevokeOne, IInv, SlotOK
<1>3. DocsOK' /\ UsersShrink /\ TokensMove
  <2>1. CASE tokens[t].st = "live"
    BY <1>2, <2>1, EndToken DEF RevokeOne
  <2>2. CASE tokens[t].st # "live"
    BY <2>2, SameTokens DEF RevokeOne, dbVars
  <2> QED BY <2>1, <2>2
<1>4. Dead(t)'
  BY <1>2 DEF RevokeOne, IInv, TypeOK, TokenDoc, Dead
<1>5. PICK q \in Request : q = [p EXCEPT !.todo = p.todo \ {t}]
  BY DEF Request
<1>6. SlotOK(p)'
  BY <1>1, <1>3, SlotStays DEF IInv, TypeOK, DocsOK, DocsTypeOK
<1>7. SlotOK(q)'
  BY <1>2, <1>4, <1>5, <1>6 DEF SlotOK, Request
<1>8. Become(r, q)
  BY <1>1, <1>5 DEF RevokeOne
<1>9. ProfilesComplete'
  <2> SUFFICES ASSUME NEW u \in Users, Live(u)', users'[u].role \in {"client", "lawyer"},
                      u \notin profiles' \cup abandoned' \cup appointed'
               PROVE  \E s \in Requests : At(s, "create_profile")' /\ requests'[s].user = u
    BY DEF ProfilesComplete
  <2>1. PICK s \in Requests : At(s, "create_profile") /\ requests[s].user = u
    BY <1>3 DEF IInv, ProfilesComplete, UsersShrink, RevokeOne, history
  <2>2. requests'[s].pc = requests[s].pc /\ requests'[s].user = requests[s].user
    BY <1>1, <1>5, <1>8 DEF Become, IInv, TypeOK, Request
  <2> QED BY <2>1, <2>2 DEF At
<1> QED BY <1>3, <1>7, <1>8, <1>9, SetSlot

LEMMA IssueTokenStep ==
    ASSUME IInv, NEW r \in Requests, IssueToken(r)
    PROVE  IInv'
<1>1. PICK p \in Request : p = requests[r] /\ p.pc = "issue" /\ p.todo = {} /\ p.user \in Users
  BY DEF IInv, TypeOK, IssueToken, At, SlotOK
<1>2. PICK t \in Tokens :
         /\ tokens[t].st = "unused"
         /\ tokens' = [tokens EXCEPT ![t] = [st |-> "live", user |-> p.user]]
  BY <1>1 DEF IssueToken
<1>3. tokens \in [Tokens -> TokenDoc] /\ tokens' \in [Tokens -> TokenDoc]
  BY <1>1, <1>2 DEF IInv, TypeOK, TokenDoc
<1>4. TokensMove
  BY <1>2, <1>3 DEF TokensMove, Dead
<1>5. \A s \in p.known : Dead(s)
  BY <1>1 DEF IInv, SlotOK
<1>6. spent' \subseteq Tokens /\ \A s \in spent' \ spent : Dead(s)'
  BY <1>1, <1>4, <1>5 DEF IssueToken, IInv, TypeOK, Request, TokensMove
<1>7. \A s \in Tokens : tokens'[s].st # "unused" => tokens'[s].user \in Users
  BY <1>1, <1>2, <1>3 DEF IInv, TypeOK
<1>8. DocsOK' /\ UsersShrink
  BY <1>3, <1>4, <1>6, <1>7, TokenStep DEF IssueToken
<1>9. ProfilesComplete'
  BY <1>1, <1>8, ProfilesStay DEF IssueToken, Finish, At
<1> QED BY <1>4, <1>8, <1>9, IdleOK, SetSlot DEF IssueToken, Finish

LEMMA EndLogoutStep ==
    ASSUME IInv, NEW r \in Requests, EndLogout(r)
    PROVE  IInv'
<1>1. PICK p \in Request : p = requests[r] /\ p.pc = "logout_end" /\ p.todo = {}
  BY DEF IInv, TypeOK, EndLogout, At
<1>2. TokensMove
  BY DEF TokensMove, Dead, EndLogout, dbVars
<1>3. \A s \in p.known : Dead(s)
  BY <1>1 DEF IInv, SlotOK
<1>4. spent' \subseteq Tokens /\ \A s \in spent' \ spent : Dead(s)'
  BY <1>1, <1>2, <1>3 DEF EndLogout, IInv, TypeOK, Request, TokensMove
<1>5. DocsOK' /\ UsersShrink
  BY <1>2, <1>4, TokenStep DEF EndLogout, IInv, TypeOK, dbVars
<1>6. ProfilesComplete'
  BY <1>1, <1>5, ProfilesStay DEF EndLogout, Finish, At, dbVars
<1> QED BY <1>2, <1>5, <1>6, IdleOK, SetSlot DEF EndLogout, Finish

LEMMA ExpireTokenStep ==
    ASSUME IInv, NEW t \in Tokens, ExpireToken(t)
    PROVE  IInv'
<1>1. DocsOK' /\ UsersShrink /\ TokensMove
  BY EndToken DEF ExpireToken
<1> QED BY <1>1, ProfilesKept, KeepSlots DEF ExpireToken, history

(***************************************************************************)
(* Steps that change users or profiles.                                    *)
(***************************************************************************)
LEMMA UserStep ==
    ASSUME IInv, UsersShrink, users' \in [Users -> UserDoc],
           \A u \in Users : Live(u)' => users'[u].password \in Stored,
           \A u \in Users : UserOK(u)',
           profiles' \subseteq Users, links' \subseteq Resets, UNCHANGED tokens,
           chosen' \in [Users -> Passwords \cup {None}], followed' \subseteq Users,
           abandoned' \subseteq Users, appointed' \subseteq Users, spent' \subseteq Tokens, \A t \in spent' \ spent : Dead(t)
    PROVE  DocsOK' /\ TokensMove
<1>1. TokensMove
  BY DEF TokensMove, Dead
<1>2. OneAccountPerEmail'
  BY DEF IInv, OneAccountPerEmail, UsersShrink
<1>3. SpentTokensRevoked'
  BY DEF IInv, TypeOK, SpentTokensRevoked, Dead
<1>4. DocsTypeOK'
  BY DEF IInv, TypeOK, DocsTypeOK
<1> QED BY <1>1, <1>2, <1>3, <1>4 DEF DocsOK

\* Nothing of users changes that UserOK speaks of.
LEMMA SameUsers ==
    ASSUME IInv, UNCHANGED <<users, chosen, appointed>>
    PROVE  /\ UsersShrink /\ users' \in [Users -> UserDoc]
           /\ \A u \in Users : Live(u)' => users'[u].password \in Stored
           /\ \A u \in Users : UserOK(u)'
           /\ chosen' \in [Users -> Passwords \cup {None}]
BY DEF IInv, TypeOK, UsersShrink, UserOK, Live

\* A request that ends by a step that is not the loss of a profile.
LEMMA EndsOK ==
    ASSUME IInv, DocsOK', TokensMove, UsersShrink, NEW r \in Requests, Finish(r),
           profiles \cup abandoned \cup appointed
              \subseteq profiles' \cup abandoned' \cup appointed',
           At(r, "create_profile") => requests[r].user \in profiles' \cup abandoned'
    PROVE  IInv'
BY IdleOK, ProfilesStay, SetSlot DEF Finish

LEMMA HashOK ==
    ASSUME NEW p \in Passwords
    PROVE  /\ Hash(Plain(p)) \in Stored /\ Hash(Plain(p)).layers = 1
           /\ Accepts(Hash(Plain(p)), p)
           /\ Hash(Hash(Plain(p))) \in Stored /\ Hash(Hash(Plain(p))).layers = 2
<1>1. Hash(Plain(p)) = [layers |-> 1, text |-> p]
  BY DEF Hash, Plain
<1>2. Hash([layers |-> 1, text |-> p]) = [layers |-> 2, text |-> p]
  BY DEF Hash
<1> QED BY <1>1, <1>2 DEF Stored, Accepts

LEMMA CreateUserStep ==
    ASSUME IInv, NEW r \in Requests, CreateUser(r)
    PROVE  IInv'
<1>1. PICK p \in Request : p = requests[r] /\ p.pc = "create_user" /\ SlotOK(p)
  BY DEF IInv, TypeOK, CreateUser, At
<1>2. CASE EmailTaken(p.email)
  BY <1>1, <1>2, ReadIdle DEF CreateUser, At, dbVars, history
<1>3. CASE ~EmailTaken(p.email)
  <2>1. PICK n \in Users, role \in RolesOf(p.path) :
           /\ users[n].st = "unused"
           /\ users' = [users EXCEPT ![n] = NewUser(p, role)]
           /\ chosen' = [chosen EXCEPT ![n] = p.password]
           /\ appointed' = IF p.path = "createAdmin" THEN appointed \cup {n} ELSE appointed
           /\ IF AfterCreate(p.path) = "idle" THEN Finish(r)
              ELSE Become(r, [Idle EXCEPT !.pc = AfterCreate(p.path), !.path = p.path, !.user = n])
    BY <1>1, <1>3 DEF CreateUser
  <2>2. p.path \in Paths /\ p.path \in AllPaths /\ p.password \in Passwords
    BY <1>1, PathsAssumption DEF SlotOK
  <2>3. /\ NewUser(p, role).st = "live" /\ NewUser(p, role).email = p.email /\ NewUser(p, role).path = p.path
        /\ NewUser(p, role).password \in Stored /\ NewUser(p, role).password.layers \in 1..2
        /\ p.path \notin Prehashed => Accepts(NewUser(p, role).password, p.password)
    BY <2>2, HashOK DEF NewUser, SavedPassword
  <2>4. NewUser(p, role) \in UserDoc /\ NewUser(p, role).role = role
    <3>1. role \in Roles
      BY <2>1 DEF RolesOf, Roles
    <3> QED BY <2>2, <2>3, <3>1 DEF NewUser, UserDoc, Verification, Request
  <2>5. users' \in [Users -> UserDoc] /\ chosen' \in [Users -> Passwords \cup {None}]
    BY <2>1, <2>2, <2>4 DEF IInv, TypeOK
  <2>6. /\ users'[n] = NewUser(p, role) /\ chosen'[n] = p.password
        /\ \A u \in Users \ {n} : users'[u] = users[u] /\ chosen'[u] = chosen[u]
    BY <2>1 DEF IInv, TypeOK
  <2>7. \A u \in Users : UserOK(u)' /\ (Live(u)' => users'[u].password \in Stored)
    BY <2>2, <2>3, <2>6 DEF IInv, TypeOK, UserOK, Live
  <2>8. OneAccountPerEmail'
    BY <1>3, <2>3, <2>6 DEF IInv, OneAccountPerEmail, EmailTaken, Live
  <2>9. SpentTokensRevoked' /\ TokensMove
    BY DEF CreateUser, IInv, SpentTokensRevoked, Dead, TokensMove
  <2>10. DocsTypeOK'
    BY <2>1, <2>5, <2>7 DEF CreateUser, IInv, TypeOK, DocsTypeOK
  <2>11. DocsOK'
    BY <2>7, <2>8, <2>9, <2>10 DEF DocsOK
  <2>12. PICK q \in Request :
            /\ Become(r, q)
            /\ q = Idle \/ q = [Idle EXCEPT !.pc = AfterCreate(p.path), !.path = p.path, !.user = n]
            /\ AfterCreate(p.path) = "create_profile" => q.pc = "create_profile" /\ q.user = n
    <3>1. AfterCreate(p.path) \in {"create_profile", "issue", "idle"}
      BY DEF AfterCreate
    <3>2. CASE AfterCreate(p.path) = "idle"
      BY <2>1, <3>2, IdleOK DEF Finish
    <3>3. CASE AfterCreate(p.path) # "idle"
      <4> DEFINE slot == [Idle EXCEPT !.pc = AfterCreate(p.path), !.path = p.path, !.user = n]
      <4>1. Become(r, slot)
        BY <2>1, <3>3
      <4>2. slot \in Request /\ slot.pc = AfterCreate(p.path) /\ slot.user = n
        BY <2>2, <3>1, IdleOK DEF Idle, Request, Steps
      <4> QED BY <4>1, <4>2
    <3> QED BY <3>2, <3>3
  <2>13. SlotOK(q)'
    <3>1. CASE q = Idle
      BY <3>1, IdleOK DEF SlotOK
    <3>2. CASE q = [Idle EXCEPT !.pc = AfterCreate(p.path), !.path = p.path, !.user = n]
      <4>1. q.pc \in {"create_profile", "issue", "idle"} /\ q.user = n /\ q.known = {} /\ q.todo = {}
        BY <3>2 DEF Idle, AfterCreate
      <4> QED BY <4>1 DEF SlotOK
    <3> QED BY <2>12, <3>1, <3>2
  <2>14. ProfilesComplete'
    <3>1. requests' = [requests EXCEPT ![r] = q] /\ requests'[r] = q
      BY <2>12 DEF Become, IInv, TypeOK
    <3>2. ASSUME NEW u \in Users \ {n}, Live(u)', users'[u].role \in {"client", "lawyer"},
                 u \notin profiles' \cup abandoned' \cup appointed'
          PROVE  \E s \in Requests : At(s, "create_profile")' /\ requests'[s].user = u
      <4>1. PICK s \in Requests : At(s, "create_profile") /\ requests[s].user = u
        BY <2>1, <2>6, <3>2 DEF CreateUser, IInv, ProfilesComplete, Live
      <4> QED BY <1>1, <3>1, <4>1 DEF At, IInv, TypeOK
    <3>3. role \in {"client", "lawyer"} =>
             n \in appointed' \/ (At(r, "create_profile")' /\ requests'[r].user = n)
      <4>1. CASE p.path = "createAdmin"
        BY <2>1, <4>1
      <4>2. CASE p.path \in WithProfile
        <5>1. AfterCreate(p.path) = "create_profile"
          BY <4>2 DEF AfterCreate, WithProfile
        <5>2. q.pc = "create_profile" /\ q.user = n
          BY <2>12, <5>1
        <5>3. At(r, "create_profile")' /\ requests'[r].user = n
          BY <3>1, <5>2 DEF At
        <5> QED BY <5>3
      <4>3. CASE p.path \notin WithProfile \cup {"createAdmin"}
        BY <2>1, <4>3 DEF RolesOf, WithProfile
      <4> QED BY <4>1, <4>2, <4>3
    <3>4. users'[n].role = role
      BY <2>4, <2>6
    <3> QED BY <3>2, <3>3, <3>4 DEF ProfilesComplete
  <2> QED BY <2>9, <2>11, <2>12, <2>13, <2>14, SetSlot
<1> QED BY <1>2, <1>3

LEMMA CreateProfileStep ==
    ASSUME IInv, NEW r \in Requests, CreateProfile(r)
    PROVE  IInv'
<1>1. PICK p \in Request : p = requests[r] /\ p.pc = "create_profile" /\ p.user \in Users /\ SlotOK(p)
  BY DEF IInv, TypeOK, CreateProfile, At, SlotOK
<1>2. profiles' = profiles \cup {p.user} /\ UNCHANGED <<users, chosen>>
  BY <1>1 DEF CreateProfile, history
<1>3. DocsOK' /\ TokensMove /\ UsersShrink
  BY <1>1, <1>2, SameUsers, UserStep DEF CreateProfile, history, IInv, TypeOK
<1>4. CASE Finish(r)
  BY <1>1, <1>2, <1>3, <1>4, EndsOK DEF CreateProfile, history
<1>5. CASE Goto(r, "issue")
  <2>1. PICK q \in Request : q = [p EXCEPT !.pc = "issue"]
    BY DEF Request, Steps
  <2>2. SlotOK(q)
    BY <1>1, <2>1 DEF SlotOK, Request
  <2>3. SlotOK(q)'
    BY <1>3, <2>2, SlotStays DEF IInv, TypeOK, DocsOK, DocsTypeOK
  <2>4. Become(r, q)
    BY <1>1, <1>5, <2>1 DEF Goto
  <2>5. ProfilesComplete'
    BY <1>1, <1>2, <1>3, <2>4, ProfilesStay DEF CreateProfile, history
  <2> QED BY <1>3, <2>3, <2>4, <2>5, SetSlot
<1> QED BY <1>4, <1>5 DEF CreateProfile

LEMMA MigratePasswordStep ==
    ASSUME IInv, NEW r \in Requests, MigratePassword(r)
    PROVE  IInv'
<1>1. PICK p \in Request : /\ p = requests[r] /\ p.pc = "login_migrate" /\ SlotOK(p)
                           /\ p.user \in Legacy /\ p.password \in Passwords
  BY DEF IInv, TypeOK, MigratePassword, At, SlotOK
<1>2. users' = IF Live(p.user)
               THEN [users EXCEPT ![p.user].password = Hash(Plain(p.password))]
               ELSE users
  BY <1>1 DEF MigratePassword
<1>3. /\ users' \in [Users -> UserDoc] /\ UsersShrink
      /\ \A u \in Users : UserOK(u)' /\ (Live(u)' => users'[u].password \in Stored)
  <2>1. CASE Live(p.user)
    <3>1. users' = [users EXCEPT ![p.user].password = Hash(Plain(p.password))]
      BY <1>2, <2>1
    <3>2. users \in [Users -> UserDoc] /\ p.user \in Users
      BY <1>1, LegacyAssumption DEF IInv, TypeOK
    <3>3. users' \in [Users -> UserDoc]
      BY <1>1, <3>1, <3>2, HashOK DEF UserDoc
    <3>4. UsersShrink
      BY <3>1, <3>2 DEF UsersShrink, Live, UserDoc
    <3>5. \A u \in Users : Live(u)' => users'[u].password \in Stored
      BY <1>1, <3>1, <3>2, HashOK DEF Live, IInv, TypeOK, UserDoc
    <3>6. \A u \in Users : UserOK(u)'
      BY <1>1, <3>1, <3>2 DEF UserOK, Live, IInv, MigratePassword, history
    <3> QED BY <3>3, <3>4, <3>5, <3>6
  <2>2. CASE ~Live(p.user)
    BY <1>2, <2>2, SameUsers DEF MigratePassword, history
  <2> QED BY <2>1, <2>2
<1>4. DocsOK' /\ TokensMove
  BY <1>3, UserStep DEF MigratePassword, history, IInv, TypeOK
<1>5. PICK q \in Request : q = [p EXCEPT !.pc = "issue"]
  BY DEF Request, Steps
<1>6. SlotOK(q)
  BY <1>1, <1>5 DEF SlotOK, Request
<1>7. SlotOK(q)'
  BY <1>4, <1>6, SlotStays DEF IInv, TypeOK, DocsOK, DocsTypeOK
<1>8. Become(r, q)
  BY <1>1, <1>5 DEF MigratePassword, Goto
<1>9. ProfilesComplete'
  BY <1>1, <1>3, <1>8, ProfilesStay DEF MigratePassword, history, At
<1> QED BY <1>4, <1>7, <1>8, <1>9, SetSlot

LEMMA SaveResetTokenStep ==
    ASSUME IInv, NEW r \in Requests, SaveResetToken(r)
    PROVE  IInv'
<1>1. At(r, "forgot_save") /\ requests[r].user \in Users /\ Finish(r)
  BY DEF IInv, SaveResetToken, At, SlotOK
<1>2. CASE ~Live(requests[r].user)
  BY <1>1, <1>2, ReadIdle DEF SaveResetToken, At, dbVars
<1>3. CASE Live(requests[r].user)
  <2>1. PICK k \in Resets : /\ users' = [users EXCEPT ![requests[r].user].reset = k]
                            /\ links' = links \cup {k}
    BY <1>3 DEF SaveResetToken
  <2>2. users \in [Users -> UserDoc]
    BY DEF IInv, TypeOK
  <2>3. users' \in [Users -> UserDoc]
    BY <1>1, <2>1, <2>2 DEF UserDoc
  <2>4. \A u \in Users : /\ users'[u].st = users[u].st /\ users'[u].email = users[u].email
                         /\ users'[u].path = users[u].path /\ users'[u].role = users[u].role
                         /\ users'[u].password = users[u].password
    BY <2>1, <2>2 DEF UserDoc
  <2>5. UsersShrink
    BY <2>4 DEF UsersShrink, Live
  <2>6. \A u \in Users : UserOK(u)' /\ (Live(u)' => users'[u].password \in Stored)
    BY <2>4 DEF UserOK, Live, IInv, TypeOK, SaveResetToken, history
  <2>7. DocsOK' /\ TokensMove
    BY <2>1, <2>3, <2>5, <2>6, UserStep DEF SaveResetToken, history, IInv, TypeOK
  <2> QED BY <1>1, <2>5, <2>7, EndsOK DEF SaveResetToken, history, At
<1> QED BY <1>2, <1>3

LEMMA SavePasswordStep ==
    ASSUME IInv, NEW r \in Requests, SavePassword(r)
    PROVE  IInv'
<1>1. PICK p \in Request : /\ p = requests[r] /\ p.pc = "reset_save" /\ p.todo = {} /\ SlotOK(p)
                           /\ p.user \in Users /\ p.password \in Passwords
  BY DEF IInv, TypeOK, SavePassword, At, SlotOK
<1>2. CASE ~Live(p.user)
  BY <1>1, <1>2, ReadIdle DEF SavePassword, At, dbVars, history
<1>3. CASE Live(p.user)
  <2>1. /\ users' = [users EXCEPT ![p.user].password = Hash(Plain(p.password)),
                                  ![p.user].reset = None]
        /\ chosen' = [chosen EXCEPT ![p.user] = p.password]
        /\ spent' = spent \cup p.known
    BY <1>1, <1>3 DEF SavePassword, SavedPassword
  <2>2. users \in [Users -> UserDoc]
    BY DEF IInv, TypeOK
  <2>3. users' \in [Users -> UserDoc] /\ chosen' \in [Users -> Passwords \cup {None}]
    BY <1>1, <2>1, <2>2, HashOK DEF UserDoc, IInv, TypeOK
  <2>4. \A u \in Users : /\ users'[u].st = users[u].st /\ users'[u].email = users[u].email
                         /\ users'[u].path = users[u].path /\ users'[u].role = users[u].role
                         /\ users'[u].password = IF u = p.user THEN Hash(Plain(p.password))
                                                 ELSE users[u].password
                         /\ chosen'[u] = IF u = p.user THEN p.password ELSE chosen[u]
    BY <1>1, <2>1, <2>2 DEF UserDoc, IInv, TypeOK
  <2>5. UsersShrink
    BY <2>4 DEF UsersShrink, Live
  <2>6. \A u \in Users : UserOK(u)' /\ (Live(u)' => users'[u].password \in Stored)
    BY <1>1, <2>4, HashOK DEF UserOK, Live, IInv, TypeOK
  <2>7. spent' \subseteq Tokens /\ \A t \in spent' \ spent : Dead(t)
    BY <1>1, <2>1 DEF IInv, TypeOK, SlotOK, Request
  <2>8. DocsOK' /\ TokensMove
    BY <2>3, <2>5, <2>6, <2>7, UserStep DEF SavePassword, IInv, TypeOK
  <2> QED BY <1>1, <2>5, <2>8, EndsOK DEF SavePassword, At
<1> QED BY <1>2, <1>3

LEMMA SaveRoleStep ==
    ASSUME IInv, NEW r \in Requests, SaveRole(r)
    PROVE  IInv'
<1>1. PICK p \in Request : /\ p = requests[r] /\ p.pc = "role_save"
                           /\ p.user \in Users /\ p.role \in Roles
  BY DEF IInv, TypeOK, SaveRole, At, SlotOK
<1>2. CASE ~Live(p.user)
  BY <1>1, <1>2, ReadIdle DEF SaveRole, At, dbVars, history
<1>3. CASE Live(p.user)
  <2>1. /\ users' = [users EXCEPT ![p.user].role = p.role]
        /\ appointed' = IF users[p.user].role = p.role THEN appointed
                        ELSE appointed \cup {p.user}
    BY <1>1, <1>3 DEF SaveRole
  <2>2. users \in [Users -> UserDoc] /\ appointed \subseteq Users
    BY DEF IInv, TypeOK
  <2>3. users' \in [Users -> UserDoc] /\ appointed \subseteq appointed' /\ appointed' \subseteq Users
    BY <1>1, <2>1, <2>2 DEF UserDoc
  <2>4. \A u \in Users : /\ users'[u].st = users[u].st /\ users'[u].email = users[u].email
                         /\ users'[u].path = users[u].path
                         /\ users'[u].password = users[u].password
                         /\ users'[u].role = users[u].role \/ u \in appointed'
    BY <1>1, <2>1, <2>2 DEF UserDoc
  <2>5. UsersShrink
    BY <2>4 DEF UsersShrink, Live
  <2>6. \A u \in Users : UserOK(u)' /\ (Live(u)' => users'[u].password \in Stored)
    BY <2>4 DEF UserOK, Live, IInv, TypeOK, SaveRole
  <2>7. DocsOK' /\ TokensMove
    BY <2>3, <2>5, <2>6, UserStep DEF SaveRole, IInv, TypeOK
  <2> QED BY <1>1, <2>3, <2>5, <2>7, EndsOK DEF SaveRole, At
<1> QED BY <1>2, <1>3

LEMMA AdministerStep ==
    ASSUME IInv, NEW u \in Users, FollowVerificationLink(u) \/ DeleteUser(u) \/ DeleteProfile(u)
    PROVE  IInv'
<1>1. users \in [Users -> UserDoc]
  BY DEF IInv, TypeOK
<1>2. CASE FollowVerificationLink(u)
  <2>1. users' \in [Users -> UserDoc]
    BY <1>1, <1>2 DEF FollowVerificationLink, UserDoc, Verification
  <2>2. \A v \in Users : /\ users'[v].st = users[v].st /\ users'[v].email = users[v].email
                         /\ users'[v].path = users[v].path /\ users'[v].role = users[v].role
                         /\ users'[v].password = users[v].password
    BY <1>1, <1>2 DEF FollowVerificationLink, UserDoc
  <2>3. UsersShrink
    BY <2>2 DEF UsersShrink, Live
  <2>4. \A v \in Users : UserOK(v)' /\ (Live(v)' => users'[v].password \in Stored)
    BY <1>2, <2>2 DEF UserOK, Live, IInv, TypeOK, FollowVerificationLink
  <2>5. DocsOK' /\ TokensMove
    BY <1>2, <2>1, <2>3, <2>4, UserStep DEF FollowVerificationLink, IInv, TypeOK
  <2> QED BY <1>2, <2>3, <2>5, ProfilesKept, KeepSlots DEF FollowVerificationLink
<1>3. CASE DeleteUser(u)
  <2>1. [NoUser EXCEPT !.st = "deleted"] \in UserDoc
    BY DEF NoUser, UserDoc, Verification
  <2>2. users' \in [Users -> UserDoc]
    BY <1>1, <1>3, <2>1 DEF DeleteUser
  <2>3. /\ ~Live(u)'
        /\ \A v \in Users \ {u} : users'[v] = users[v]
    BY <1>1, <1>3 DEF DeleteUser, Live, NoUser
  <2>4. UsersShrink
    BY <2>3 DEF UsersShrink, Live
  <2>5. \A v \in Users : UserOK(v)' /\ (Live(v)' => users'[v].password \in Stored)
    BY <1>3, <2>3 DEF UserOK, Live, IInv, TypeOK, DeleteUser, history
  <2>6. DocsOK' /\ TokensMove
    BY <1>3, <2>2, <2>4, <2>5, UserStep DEF DeleteUser, history, IInv, TypeOK
  <2> QED BY <1>3, <2>4, <2>6, ProfilesKept, KeepSlots DEF DeleteUser, history
<1>4. CASE DeleteProfile(u)
  <2>1. DocsOK' /\ TokensMove /\ UsersShrink
    BY <1>4, SameUsers, UserStep DEF DeleteProfile, IInv, TypeOK
  <2> QED BY <1>4, <2>1, ProfilesKept, KeepSlots DEF DeleteProfile
<1> QED BY <1>2, <1>3, <1>4

LEMMA FailStep ==
    ASSUME IInv, NEW r \in Requests, Fail(r)
    PROVE  IInv'
<1>1. abandoned' \subseteq Users
  BY DEF Fail, IInv, TypeOK, SlotOK, At
<1>2. DocsOK' /\ TokensMove /\ UsersShrink
  BY <1>1, SameUsers, UserStep DEF Fail, IInv, TypeOK, dbVars
<1> QED BY <1>2, EndsOK DEF Fail, dbVars

(***************************************************************************)
(* The theorems.                                                           *)
(***************************************************************************)
LEMMA NextIInv == IInv /\ [Next]_vars => IInv'
<1> SUFFICES ASSUME IInv, [Next]_vars PROVE IInv'
  OBVIOUS
<1>1. ASSUME NEW r \in Requests, Arrive(r) PROVE IInv'
  BY <1>1, FindStep, ReadUserStep DEF Arrive
<1>2. ASSUME NEW r \in Requests, Proceed(r) PROVE IInv'
  BY <1>2, CreateUserStep, CreateProfileStep, IssueTokenStep, SaveLoginStep, MigratePasswordStep,
     RevokePresentedStep, StartRevokingStep, EndLogoutStep, RevokeOneStep, SaveResetTokenStep,
     SavePasswordStep, SaveRoleStep DEF Proceed
<1>3. ASSUME NEW r \in Requests, Fail(r) PROVE IInv'
  BY <1>3, FailStep
<1>4. ASSUME NEW u \in Users, FollowVerificationLink(u) \/ DeleteUser(u) \/ DeleteProfile(u)
      PROVE  IInv'
  BY <1>4, AdministerStep
<1>5. ASSUME NEW t \in Tokens, ExpireToken(t) PROVE IInv'
  BY <1>5, ExpireTokenStep
<1>6. CASE UNCHANGED vars
  <2>1. DocsOK' /\ UsersShrink /\ TokensMove
    BY <1>6, SameTokens DEF vars, dbVars, history
  <2> QED BY <1>6, <2>1, ProfilesKept, KeepSlots DEF vars, dbVars, history
<1> QED BY <1>1, <1>2, <1>3, <1>4, <1>5, <1>6 DEF Next

\* The inductive invariant holds: what each request in flight remembers suffices to
\* finish what it began, whatever the others did (AuthService, all paths of creation).
THEOREM Invariance == Spec => []IInv
<1>1. Init => IInv
  BY InitIInv
<1>2. IInv /\ [Next]_vars => IInv'
  BY NextIInv
<1> QED BY <1>1, <1>2, PTL DEF Spec

\* Documents and slots stay well formed through every creation, login and reset.
THEOREM TypeCorrect == Spec => []TypeOK
<1>1. IInv => TypeOK
  BY DEF IInv
<1> QED BY <1>1, Invariance, PTL

\* However many creations overlap, an email has one account: the unique index of
\* users.model.js, not the findOne of each path, sees to it.
THEOREM EmailUnique == Spec => []OneAccountPerEmail
<1>1. IInv => OneAccountPerEmail
  BY DEF IInv
<1> QED BY <1>1, Invariance, PTL

\* No token survives the refresh, logout or reset that was answered for it, although
\* updateMany visits the tokens one by one and others are issued meanwhile.
THEOREM SpentTokensStayDead == Spec => []SpentTokensRevoked
<1>1. IInv => SpentTokensRevoked
  BY DEF IInv
<1> QED BY <1>1, Invariance, PTL

\* A client or lawyer that came with this role by registration or createClient lacks
\* a profile only after a failure or a deletion; users to whom an administrator gave
\* the role (createAdmin, changeRole, updateAdmin, LawyerService.create) may lack one.
THEOREM ProfilesFollow == Spec => []ProfilesComplete
<1>1. IInv => ProfilesComplete
  BY DEF IInv
<1> QED BY <1>1, Invariance, PTL

\* Where no path hashes a password before the hook does, the password last chosen
\* opens the account, whatever logins, migrations and resets overlap.
THEOREM CredentialsAlwaysWork ==
    ASSUME Paths \cap Prehashed = {}
    PROVE  Spec => []CredentialsWork
<1>1. IInv => CredentialsWork
  BY DEF IInv, UserOK, CredentialsWork
<1> QED BY <1>1, Invariance, PTL
=============================================================================
