# Mowakely backend: a verification project

This directory holds TLA+ specifications of the backend under `src/`
(`mohamedsaaleh/backend-_mowakely`), the TLC configurations that model-check
them and proofs that the TLA+ proof system checks. `PROJECT.json` lists the
runs, the mutants, the code each definition stands for, the hazards and the
theorems.

## 1. The system

The backend is a marketplace for legal services: clients post cases, lawyers
make offers on them, the client accepts one, the lawyer invoices and the client
pays through the gateway Paymob. It is Node, Express and Mongoose over MongoDB,
with Redis as a cache and Socket.IO for chat. PM2 runs it in cluster mode with
one process per core, restarts a process that exits and kills one that does not
stop within five seconds.

No request holds anything in memory that another request sees (the socket map
excepted). What makes the code hard is this:

* **Interleaving at every `await`.** A handler is a chain of database calls.
  Requests of one process interleave at each of them, those of different
  processes anywhere. MongoDB makes one document's update atomic and nothing
  more; `utils/transactionHelper.js` exists but nothing calls it.
* **Reads that go stale.** Handlers read, check and later write, mostly without
  repeating the check in the write's filter. `save()` writes only the paths that
  were modified and throws when the document is gone.
* **Dying half way.** A crash, a restart (`server.js` 43-69), a dropped database
  connection or an error thrown by the third of five calls leaves the first two
  done. Nothing repairs them.
* **Webhooks.** The gateway reports a transaction late, more than once, or in an
  order that is not the order of events.

### Inventory

| Component | State | Operations that write | Interacts with | What makes it correct |
|---|---|---|---|---|
| Cases | `Case`: status, lawyer, accepted offer, offers_count | create, update, delete, updateStatus | read and written by Offers | an accepted offer and its case agree; a decided case is not deleted by its client |
| Offers | `Offer`: case, lawyer, status; unique on (case, lawyer) | create, accept, reject, delete | Cases, Lawyers, Notifications | one live offer per lawyer and case, one accepted offer per case, decisions stand |
| Invoices | `Invoice`: paymentStatus, status, method, transaction, overrides | create, cancel, payment, override | Payments, Admin | a paid invoice has one explanation and stays paid |
| Payments | `Payment`, unique on the transaction id | createPaymentSession, handleWebhook | Invoices, Paymob | each transaction recorded once, each success settles its invoice |
| Admin | none of its own | markAsPaidOnly, createAdminUser | Invoices, Users | an override never replaces a payment |
| Lawyers | `Lawyer`: profile, offers_count; cached in Redis | create, update, verify, delete | Offers, cache | counters agree with what they count; the cache does not outlive the profile |
| Auth, refresh tokens | `User`, `RefreshToken` | register, login, refresh, logout, verify, forgot, reset | Users, Lawyers, Clients | a user has its profile; a password reset or logout ends the sessions it found |
| Admin accounts, super admin, roles | `User` (role, status, deletedAt), `Role` | create, suspend, restore, delete, changeRole | Audit | one super admin always remains |
| Categories | `Category`; cached in Redis | create, update, delete | cache | a reader sees an update after its invalidation |
| Lists | none: a page is two queries over a collection that changes | none | every collection | a walk through the pages misses no row and shows none twice, as long as rows do not come or go |
| HTTP pipeline, process | routers, gates, error handler; connections, signals, the shutdown timer | listen, answer, shut down | every handler, MongoDB | whoever waits is answered, a refusal wrote nothing, the process stops |
| Sockets | `connectedUsers` in each process | connect, disconnect, subscribe | none that keeps state | a connected user is in the map |
| Messages | `Message`: case, sender, receiver, read mark | create, mark read | Cases, Notifications | what is marked read was shown |
| Reviews | `Review`: unique on (reviewer, case); Lawyer.total_reviews | create, delete | Lawyers, Cases | the total counts the reviews |
| Clients | `Client` | createClient, updateClient | Users | profile and user agree |
| Payouts | `Payout` | requestPayout, updateStatus | Invoices | one payout per invoice |
| Notifications, Audit, Users | one collection each | insert, mark read; field updates | written by the others | single-document writes |
| Favourites, files, verifications, subscriptions | schemas only | none | none | no code |
| Workers, mail, upload, logger, swagger, config | none | I/O | none | out of scope |

The hazards, each at its line, are in `PROJECT.json` under `hazards`.

## 2. Plan

Most important behaviour first; each component module comes with its runs, then
its proofs.

1. **Offers** (cases and offers), abstract specification **Hiring**; proofs in
   **OffersProofs** and, for requests that come one at a time, **OffersAloneProofs**.
   *Done.*
2. **Payments** (invoices, payments, override), abstract specification
   **InvoiceSettlement**; proofs in **PaymentsProofs**. *Done.*
3. **Accounts** (creation of users and profiles, passwords, refresh tokens);
   proofs in **AccountsProofs**. *Done.*
4. **AdminAccounts** (suspension, soft deletion, roles); proofs in
   **AdminAccountsProofs**. *Done.*
5. **ProfileCache** (the read-through caches of lawyers and categories); proofs in
   **ProfileCacheProofs**. *Done.*
6. **FollowUps** (messages with their read marks, reviews with their total), which
   composes **Lists** (the list endpoints); proofs in **FollowUpsProofs**. *Done.*
7. **Server** (the process, the pipeline, the shutdown, the socket map) over
   **Handlers** (every route as the calls it makes); proofs in **ServerProofs**.
   *Done.*
8. That `Offers` with one request implements `Hiring`, that the walk of `Lists` is
   complete for any number of rows, that an acknowledged payment is settled, and that
   a refusal wrote nothing: model-checked first, then proved. *Done.* What is left to
   the model checker is liveness (section 5).

`Hiring` and `InvoiceSettlement` are what `Offers` and `Payments` promise in the
large. For the other components what is promised is no smaller than what they do,
and invariants say it better.

## 3. How the code is modelled

**One action is one awaited database call.** `requests[r]` is one request in
flight: `pc` names the call it makes next, the other fields are the local
variables that later calls use. A read copies what the handler keeps; the write
that follows uses the copy, however stale. The first call of a request is guarded
by the checks made on what it read, a later check that fails frees the slot, and
an early return that wrote nothing is no step at all when it is the first thing
a request does. A thrown error answers the request and frees its slot.

**Fail** abandons a request between any two calls. It stands for a crashed or
killed process and for a database call that throws.

**External code.** MongoDB's per-document atomicity, unique indexes and
Mongoose's `save()` are modelled as the code relies on them. The gateway is three
external definitions of Payments.

**Request bodies.** Validation keeps the fields it does not know (`allowUnknown`),
and two handlers make a document of the whole body: `OfferService.create` and
`CaseService.create`. What a body can set there is a constant of Offers
(`OfferBodies`, `CaseBodies`). The other handlers pick the fields they write.

**History variables.** `won`, `recorded`, `posted` (Offers), `answered` (Payments),
`chosen`, `followed`, `spent`, `abandoned`, `appointed` (Accounts), `decided`,
`demoted`, `uncounted` (AdminAccounts), `excused` (ProfileCache), `drifted` and a
message's `known` (FollowUps), `grew`, `shrank` and `shown` of a walk (Lists),
`disputed` and `wrote` (Server) record what happened and influence nothing.

**What a behaviour is about.** AdminAccounts, ProfileCache and FollowUps hold parts
that share no document (accounts and roles; a lawyer and a category; messages,
reviews and a list). Their interleavings say nothing that each part does not say
alone, so `topic`, or the initial documents, choose one of them.

### Offers

| State | Code |
|---|---|
| `offers[o]` | the `Offer` document: status, case, lawyer; an id is never reused |
| `cases[c]` | the `Case` document: status, lawyer, accepted_offer_id, offers_count |
| `profiles`, `lawyerOffers` | the `Lawyer` documents and their offers_count |
| `told` | offers with an `offer_accepted` notification |
| `requests` | the local variables of the handlers |

| Operation | Actions |
|---|---|
| `OfferService.create` | ReadCaseForOffer, FindExistingOffer, InsertOffer, CountOffer |
| `OfferService.acceptOffer` | ReadOfferForAccept, ReadCaseForAccept, StartRejectingPending, RejectOnePending (once per offer), SaveAcceptedOffer, SaveCaseOfAccepted, CountAcceptance, NotifyAccepted |
| `OfferService.rejectOffer` | ReadOfferForReject, ReadCaseForReject, SaveRejectedOffer |
| `OfferService.delete` | ReadOfferForDelete, DeleteOffer |
| `CaseService.create, delete, updateStatus` | CreateCase; ReadCaseForDelete, DeleteCase; ReadCaseForStatus, SaveStatus |
| `LawyerService.deleteById` | DeleteLawyerProfile |

`updateMany` matches a set of documents and updates them one by one, each
atomically: StartRejectingPending takes the set, RejectOnePending repeats the
filter on each document as MongoDB does. `Saved` is the `$set` of `save()`: a
path equal to what was read is not written.

A new offer has the status its body names (`OfferBodies`), a new case the status,
lawyer, accepted offer and offers_count its body names (`CaseBodies`): a lawyer may
insert an offer that is accepted already, a client post a case that is taken.
`posted` remembers the accepted offer and the count a case began with. So the
properties speak of what acceptOffer did: `AcceptedOn(c)` is the offers in `won` that
stand as accepted; a case names the offer it was created with or a won one; counts are
compared with what they began at. Two assumptions: a field of a body has a value of
its type that the schema lets pass, and no body names the document's own `_id`.

Left out: titles, prices, populated fields, listings, notifications other than
`offer_accepted` (a request whose only remaining call inserts one frees its slot
at once), and `CaseService.acceptOffer`, which no route reaches.

### Payments

| State | Code |
|---|---|
| `invoices[i]` | the `Invoice`: paymentStatus, status, paymentMethod, paymentTransactionId, number of paymentOverrides |
| `payments[t]` | the `Payment` with that transactionId |
| `checkouts`, `txns`, `webhooks` | the gateway: who may pay, its transactions, what it has sent |
| `answered` | transactions whose success was answered with 200 |

| Operation | Actions |
|---|---|
| `PaymentService.createPaymentSession` | ReadInvoiceForSession, CreateOrder, GeneratePaymentKey |
| `PaymentService.handleWebhook` | ReceiveWebhook, PersistPayment, ApplyInvoiceUpdate |
| `AdminService.markAsPaidOnly` | ReadInvoiceForOverride, MarkAsPaidOnly |
| `InvoiceService.create, cancel` | CreateInvoice; ReadInvoiceForCancel, SaveCancelled |
| Paymob (external) | StartTransaction, EndTransaction, Report |

A webhook once sent stays in `webhooks`: it can be delivered any number of
times, in any order, or never. Left out: amounts, signatures, billing data;
a webhook that fails validation writes nothing.

### Accounts

| State | Code |
|---|---|
| `users[u]` | the `User` document: email, role, password, reset and verification token, and how it was made |
| `profiles` | users with a `Lawyer` or `Client` document |
| `tokens[t]` | the `RefreshToken` documents |
| `links` | the reset tokens that were mailed |
| `requests` | the local variables of the handlers |

| Operation | Actions |
|---|---|
| `AuthService.register`, `ClientService.createClient`, `AdminService.createAdminUser`, `SuperadminService.createAdmin`, `AdminsController.createAdmin` | FindByEmail, CreateUser, CreateProfile, IssueToken, as far as the path goes |
| `AuthService.login` | ReadUserForLogin, SaveLogin or MigratePassword, IssueToken |
| `AuthService.refreshToken` | FindToken, StartRevoking, RevokeOne (once per token), IssueToken |
| `AuthService.logout` | ReadUserForLogout, RevokePresented, StartRevoking, RevokeOne, EndLogout |
| `AuthService.forgotPassword` | ReadUserForForgot, SaveResetToken |
| `AuthService.resetPassword` | ReadUserForReset, StartRevoking, RevokeOne, SavePassword |
| `AuthService.verifyEmail` | FollowVerificationLink |
| `SuperadminService.changeRole`, `AdminsController.updateAdmin`, `LawyerService.create` | ReadUserForRole, SaveRole |
| `UsersService.deleteUser`, `SuperadminService.deleteAdmin` | DeleteUser |
| `ClientService.deleteClient`, `LawyerService.deleteById` | DeleteProfile |
| TTL index of `RefreshToken` | ExpireToken |

A password is a text and the number of times bcrypt was applied to it: login
undoes one layer, the pre-save hook adds one. `updateMany` matches the tokens that
are live when it starts; it may in fact also meet one that is inserted while it
runs, which only ends more tokens.

The role of a new user follows from the path, but for `AdminsController.createAdmin`,
which takes it from the body. "admin" stands for every role that has no profile. The
three handlers that give a role to a user who exists create no profile, and
`LawyerService.create` dies of the missing specialization after its save. So a lawyer
without a profile takes neither a failure nor a deletion: `appointed` has the users to
whom a role was given in one of these ways, and `ProfilesComplete` is about the others.

Left out: access tokens, bans, soft deletion,
the expiry of reset links (a link that has expired does nothing) and the unique
index on the phone (its error is one more `Fail`).

### AdminAccounts

| State | Code |
|---|---|
| `users[u]` | the `User`: role, status, deletedAt; isSuperAdmin is set by the seed alone (`SuperAdmins`) |
| `roles[i]` | the `Role`: name, is_system |
| `requests` | the target that was read and the paths that `save()` will write |

| Operation | Actions |
|---|---|
| authenticate, authorizeRoles, authorizePermissions | EnterForUser, EnterForRole |
| `AdminsController.updateAdmin` | ReadForUpdate, SaveUser, WriteLog |
| `suspendAdmin, restoreAdmin` | ReadForSuspend, ReadForRestore, CannotSuspend, SaveUser, WriteLog |
| `AdminsController.deleteAdmin` (soft) | ReadForDelete, DeletePending, CountSuperAdmins, SaveUser, WriteLog |
| `SuperadminService.changeRole, deleteAdmin` | ReadForChangeRole, ChangeRole; ReadForHardDelete, HardDelete |
| `UsersService.deleteUser` | DeleteUser |
| `LawyerService.create` | ReadForCreateLawyer, SaveAsLawyer |
| `RolesController` create, update, delete | ReadForCreateRole, ReadForUpdateRole, ReadForDeleteRole, SaveRole, WriteLog |

`save()` writes the paths that were modified and does not meet the hook that hides
deleted users, so a handler may save an account that was deleted meanwhile. Which
permissions a user holds is left open: whoever authenticate lets in may pass
authorizePermissions. Different handlers write accounts and roles, so a behaviour
(`topic`) is about one of the two, and one about accounts, where no action reads a
role document, has none. `LawyerService.create` makes a lawyer of whomever its body
names, a super admin too: it is the one handler that takes a super admin's role, after
which changeRole and `SuperadminService.deleteAdmin`, which look at the role and not at
isSuperAdmin, may make that user an admin and delete it. `Chosen` are the users this is
done to, `demoted` those among the super admins it was done to. In the run "lawyer"
stands for client as well: no handler here tells them apart.

### ProfileCache

| State | Code |
|---|---|
| `docs[d]` | whether the lawyer, its user, or the category is there |
| `entries[k]` | the Redis key: None, or the documents its copy is old in |
| `up` | `CacheManager.isConnected` |

| Operation | Actions |
|---|---|
| reads of `LawyerService`, `CategoryService` | GetProfile, GetLawyer, GetLawyers, GetCategory, GetByName, GetCategories, GetSubCategories; ReadNext; SetEntry |
| `updateProfile, updateById, deleteById, verifyLawyer` | UpdateProfile, UpdateById, DeleteById, VerifyLawyer; WriteNext |
| category create, update, delete, seed | CreateCategory, UpdateCategory, DeleteCategory, SeedCategories; WriteNext |
| `CacheManager.del`, `delPattern` | DropKey; ListKeysOfPrefix, DropFound |
| writes that no cache is told of | OtherWrite |
| Redis (external) | Expire, Disconnect, Connect |

A copy is known by whether its documents were written after it was read; what they
hold does not matter. A category's name would have an entry that no writer drops, if
`getByName` were called.

### Lists

Twenty list endpoints send two queries for a page, `find` and `countDocuments`. A
list is a record of what decides which rows a walk through its pages meets: its
order, which query comes first, whether rows can leave its filter, be deleted, or be
deleted softly. `BeginWalk`, `FindPage`, `CountRows` and `EndWalk` are the client's
walk; `Insert`, `Leave`, `LeaveAll`, `Return`, `Delete`, `SoftDelete` and `Rename`
are what the other handlers do to the rows meanwhile. Two facts of the code show:
`QueryBuilder.execute` counts before it finds, and its allow-list of sort fields lacks
`rate` and `created_at`, so the lists of lawyers and clients come in no order, of
which nothing can be promised. Two simplifications: the dates that a list is sorted by
are taken to differ, although the code has no second sort field for two rows of one
millisecond, and a walk keeps the order of its endpoint, although a client may send
a sort field of the allow-list with each page. The totals of users and admins count
the softly deleted, whom no page shows.

### FollowUps

| State | Code |
|---|---|
| `case`, `profiles` | the `Case` document's lawyer, and which `Lawyer` documents are there |
| `thread` | the `Message` documents of the case: sender, read mark |
| `reviews[i]`, `total` | the `Review` documents of one lawyer by case, and its total_reviews |

| Operation | Actions |
|---|---|
| `MessageService.getByCase` | Ask, ReadCase, CheckCaseAccess, FindMessages, MarkRead, AnswerMessages |
| `MessageService.createMessage` | Ask, ReadCase, CheckCaseAccess, InsertMessage, NotifyReceiver |
| `ReviewService.create` | AskReview, CheckReview, CreateReview, LookUpLawyer, CountReview, NotifyLawyer |
| `ReviewService.delete` | AskReview, RemoveReview, LookUpLawyer, CountReview |
| `SuperadminService.deleteReview` | DeleteReview |
| what other handlers do | CaseChanges, ProfileDeleted |

The receiver of a message is the lawyer the case had when it was read first. The
controller never asks for a second page, so messages beyond the first are marked as
read by a reader who never sees them: `ReadWasShown` is about the first page. The
super admin's deletion leaves total_reviews alone; `drifted` records it.

### Handlers and Server

`Handlers` gives every route of the API as a sequence of steps: the gates of its
middleware, then each awaited call of its controller and service by kind (a read that
may refuse, a write, a write of the code's own data, a call whose errors are caught).
`Server` takes one request through such a sequence: `Handle` does a step, leaves an
optional one out, refuses it with one of the errors of its kind, or lets it fail
before or after its effect; `errorHandler` turns the error into a status. Around it:

| State | Code |
|---|---|
| `process`, `db`, `http`, `closing`, `timer`, `signals` | `server.js` and `initializeDatabase` of `app.js` |
| `conn`, `request` | one HTTP connection, and what is left of its request |
| `userOf`, `connectedUsers` | `socket.userId` and the map of `chat.socket.js` |

`DatabaseConnects`, `DatabaseRefuses`, `GracefulShutdown`, `HttpServerClosed`,
`DatabaseCloses`, `ShutdownCompletes`, `ForcedShutdown` and `UncaughtException` are
the life of the process; `Receive`, `HangUp`, `Connect`, `Disconnect`, `Subscribe` the
clients. What the code does here that a reader may not expect:

* authenticate answers every error, also of the database, with 401.
* two kinds of call may never settle, and leave the handler waiting for ever
  (`Stalled`): `paymobRequest` settles on the end, error or timeout of the request
  only, not when a response breaks off; and the Redis client of `cache.js` has no
  `commandTimeout`, so that a Redis that hangs on an open connection is waited for.
* six handlers can still be refused after their first write (`LateRefusals`). One of
  them, `LawyerService.create`, always is: it makes a lawyer without the required
  specialization.
* a signal that arrives while the process connects closes the database although the
  server then listens; a second signal waits for the same close.
* the disconnect of one socket removes the entry of a user's other sockets, and
  `subscribe_notifications` renames a socket and leaves the old entry behind.

## 4. What is checked

All runs with TLC. CHECK_DEADLOCK is FALSE in every run: the ids are finite, so
a behaviour ends when every document has been created and deleted and nobody sends a
request; a server without requests is at rest, and in Server the process stops.

| Run | Bounds | Shows |
|---|---|---|
| OffersRaces | 1 case, 2 lawyers, 2 offers, 2 requests, bodies that name an offer, a count or that an offer is accepted, failures, admin deletes, profile deletes | the invariants that hold whatever overlaps |
| OffersOneAtATime | 2 cases, 2 lawyers, 2 offers, 1 request, bodies that name all fields or none, no failure | one request at a time implements Hiring, the counters are exact |
| OffersAnswered | 1 case, 2 lawyers, 2 offers, 2 requests, no failure, fair | every request ends; a won offer reaches its case |
| PaymentsRaces | 2 invoices, 2 transactions, 2 requests, failures, pending webhooks | PaymentExplained, and Payments implements InvoiceSettlement |
| PaymentsAnswered | 1 invoice, 2 transactions, 2 requests, no failure, fair | a success settles its invoice in whatever order webhooks are handled |
| AccountsCreation | 3 users (one legacy), 2 emails, 1 token, 2 requests, createClient and createAdmin, users made lawyers, failures | an email has one account; what can leave a client or lawyer without profile |
| AccountsSessions | 1 user, 2 passwords, 2 tokens, 1 reset link, 2 requests, failures | spent tokens stay dead, the chosen password works |
| CacheReads | one lawyer with its user or one category, 2 requests, failures, Redis down and up, expiry | an entry that is old has one of five reasons |
| AdminsRaces | 3 users (2 super admins, one of whom LawyerService.create makes a lawyer), 2 role documents, 3 role names, 2 requests, failures | what can remove the last super admin or take its role; a decision on a status stands; the deleted stay deleted; a role's name is its own |
| FollowUps | 2 lawyers, 2 messages (pages of 1), 2 reviews of 2 cases, 2 requests, failures; lists of 3 rows, pages of 1 and 2 | what is read was shown, the total explains itself, walks are complete and show nothing twice |
| Server | every handler, 1 request at a time, 2 sockets, 2 users, 2 connections, 2 signals, fair | refusals leave no trace, the database outlasts its clients, whoever waits is answered, the process stops |

The names of properties are those of the modules, where each has its comment.

**Why the bounds suffice.** Every bad interleaving of this code is between two requests,
so two slots show it; a third slot would repeat one of the two roles. Two offers on one
case are the smallest conflict of acceptances, two cases show that an acceptance leaves
the other one alone. Of bodies, what matters is whether a field is named at all and
whether the status is open: an offer may be born pending or accepted (one born rejected
is like one that was rejected at once), a case may name an offer of its own, of another
case or one yet to be made, and begin at a count of one. OffersTwoAccepts names nothing
in its bodies, so that what it shows is the fault of the overlap alone. Two transactions
on one invoice are the smallest conflict of payments, two invoices show that a payment
lands on its own. Two emails, and two users to create beside one that exists, let two
creations collide on an email or miss each other; two tokens of one user let one be
issued while the other is ended. Two super admins are what a check of "another one is
left" needs to be wrong about, and a third user acts while they are deleted; one of the
two may be made a lawyer, and the other shows what remains. A page of one message with
two messages has a first page and what is beyond it; two reviews, of one case or of two,
collide or count together. Three rows and pages of one or two give walks of up to three
pages, with full and partial last ones, and a row before, at and behind the page that is
read. Two sockets of one user, or of two, are what one entry of the map can be wrong
about; two connections let a socket outlast a request. The proofs in section 5 do not
depend on these bounds. `IdLeft` keeps a create from starting when no offer id is left
for it, and the number of overrides is at most one because an override needs an unpaid
invoice. `UserLeft`, `TokenLeft` and `ResetLeft` do for Accounts what `IdLeft` does
here, and `RoleIdFree`, `FreeIds` and `MaxMessages` elsewhere. `MaxTotal` stops new
requests for reviews once total_reviews has drifted that far; `MaxConnections` and
`MaxSignals` bound Server. Symmetry is used in the runs without liveness only.

**Fairness.** `FairSpec` asks weak fairness of `Proceed(r)`, the next call of a request
in flight: the event loop runs every callback and MongoDB answers every call. Nothing is
asked of arrivals, of the gateway or of `Fail`. There liveness is checked without
failures, since a request that dies owes nothing. Server checks it with failures: weak
fairness of `Handle`, since every call a handler awaits ends or times out but for the
two kinds that `BrokenOff` names, and of `ForcedShutdown`, since a timer fires; both
only while the process is up. Nothing is asked of clients, of the database's connection
or of sockets, which need never close.

### Where the code departs from what the repository says

The run **OffersTwoAccepts** must find `OneAcceptedOffer` violated: two overlapping
acceptances leave two accepted offers; `PROJECT.json` quotes the line that promises one.

Other consequences of overlap and failure were met while modelling and are described by
the hazards; no run is kept for them.

* Offers: a lawyer may insert an offer as accepted, and a client create a case as
  taken, since validation keeps unknown fields; such an offer stands beside the
  accepted one, and no acceptance of it is recorded. An offer inserted during an
  acceptance stays pending on a case that is taken; a request that dies between its
  two saves leaves an accepted offer on an open case; a reject, or a client's delete
  of the offer or the case, undoes an acceptance saved after it had read the document.
  `updateStatus` accepts any status, and a case that it sets back to open takes and
  accepts another offer, which is why OffersOneAtATime sets cases to completed and
  cancelled only.
* Payments: a process that dies after the payment is recorded leaves the invoice unpaid
  for good, since the redelivered webhook is answered as already processed; a webhook of
  a pending transaction takes the transaction id, and the one with its success is then a
  duplicate. AnsweredSuccessSettles holds where neither happens, and PaymentsAnswered
  excludes both by its constants.
* Accounts: createClient, createAdminUser and both createAdmin hash a password that the
  pre-save hook hashes again, so that only a reset makes the account usable
  (AccountsSessions leaves these paths out); a verification link carries the token
  while the database holds its hash, so nobody is verified. A user made a client or
  lawyer by an administrator (createAdmin, changeRole, updateAdmin,
  `LawyerService.create`) has no profile, and nothing makes one.
* AdminAccounts: two deletions of super admins that overlap each count the other one,
  and `UsersService.deleteUser` removes the last one without asking; one that
  `LawyerService.create` made a lawyer, and changeRole an admin,
  `SuperadminService.deleteAdmin` deletes uncounted; a user may be
  suspended and restored by requests that both read the old status.
* ProfileCache: `updateProfile` leaves the entry of the lawyer's id, a reader may set
  what it read before the last write, and writes of the user go by the cache
  altogether: such entries live until they expire.

## 5. What is proved

TLAPS checks every proof, for every value of the constants that satisfies the
named assumptions (`None` is no id; the statuses and switches are what they say;
for the counters, finitely many offers, reviews, rows and requests).

* **OffersProofs.** `Invariance` proves `Spec => []IInv`. None of the invariants is
  inductive alone: a case points at a won offer only because the request that saves
  the case still knows which offer it saved, although everything else it read may be
  stale. `SlotOK` says that of each request (`AfterWon`, `AfterRecorded`, and that its
  case and lawyer are still those of its offer, which no call rewrites). All of it
  holds for any `OfferBodies` and `CaseBodies`: what a body said of a case is in
  `posted` and never changes. `DbOK` says what the documents say of each other. One
  lemma per action shows that it preserves `DbOK` and every slot. From it follow
  `TypeCorrect`, `UniqueOffers`, `AcceptedWasWon`, `ToldAfterRecorded` and, as a
  property of steps, `DecisionsKept`. `CountBounded`: offers_count plus the increments
  still owed never exceeds what it began at plus the offers made. The argument is
  about cardinalities of finite sets: an insert adds one to both sides, an increment
  moves one from the owed to the counted, a request that dies drops one.
* **OffersAloneProofs.** What the handlers of offers promise if they do not overlap:
  `OneAtATime` says that there is one request slot, that no request dies, and that
  `updateStatus` never sets a case back to open. Each part is needed, and each has a
  counterexample without it (OffersTwoAccepts, and the consequences listed in section
  4); the run OffersOneAtATime satisfies the three. `AloneInvariance` proves
  `[]AloneInv`, whose part `Fresh` is the heart of it: at each call of a request the
  documents still say what it read (the offer is pending, the copy of the case is the
  case, the offers left to reject are those that are pending). `Settled` says what an
  offer that acceptOffer saved makes of its case, but for the case that the request is
  about to save (`Recording`), and `Counted` is the equation of both counters with
  what is owed added. From it follow `AloneOneAccepted`, `AloneSettles`,
  `AloneFollows` and `AloneCounts`. `AloneRefines` is the refinement: `Spec =>
  ImplementsHiring`. Under the mapping, an offer that is being accepted counts as
  accepted, and its case as taken, from StartRejectingPending on; that action is
  Hiring's acceptance, the saves that follow it are stutters, and of each other
  request the one write of an offer or a case is Hiring's step.
* **PaymentsProofs.** `Invariance` proves `Spec => []IInv`: a request about to
  update an invoice has its Payment on record, and records never change, so what
  it writes on the invoice is explained. `Explained` follows, and `Refines` proves
  that every behaviour of Payments is one of InvoiceSettlement: a record is
  written once, a paid invoice never changes again. `AcknowledgedIsPaid` is about
  what "already processed" promises the gateway. It assumes `~RequestsFail` and
  `~SendsPending`, since either breaks the promise (section 4), and as PaymentsAnswered
  does; requests may overlap in any way. `SettledInv` says that every webhook, every
  request and every Payment tells how its transaction ended, that what was acknowledged
  is recorded as paid, and that a paid Payment has a paid invoice or a request that
  is about to update it.

* **AccountsProofs.** `Invariance` proves `Spec => []IInv`. `SpentTokensRevoked` is
  not inductive: a token becomes spent because the request that ends it knew it as
  live, matched it and revoked it, and `SlotOK` follows its tokens through these
  steps (live or dead before `updateMany`, to do or dead after it). Tokens only move
  forward (`TokensMove`), so what one slot knows survives every step of the others.
  `UserOK` says how often a password is hashed; the migration of plain passwords
  keeps it because only legacy users reach it. From it follow `TypeCorrect`,
  `EmailUnique`, `SpentTokensStayDead`, `ProfilesFollow` (whose argument is that a role
  changes only by appointment, and that a path gives the role of a client or lawyer
  only if it creates the profile or is createAdmin) and, if no path hashes a
  password before the hook does, `CredentialsAlwaysWork`.

* **AdminAccountsProofs.** `Invariance` proves `Spec => []IInv`, and
  `SuperAdminKept`, `SuperAdminsKept`, `StatusKept`, `NamesKept` follow, with
  `DeletedStays` as a property of steps. `SuperAdminRemains` is not inductive: that
  the last super admin is not deleted rests on what the request that is about to
  delete one has counted. `Survivor` strengthens it: some visible super admin is one
  that nobody is about to delete, unless one was deleted `uncounted`: by two deletions
  that overlapped, by `UsersService.deleteUser`, or after it was made a lawyer. For the
  last, `SetOK` says that whoever changeRole or deleteAdmin is about to write is no
  super admin or one of the `demoted`. `DecidersNoticed`
  says that of two requests that decide on one status the history took note, and
  `SetOK` also which paths each `save()` may write: none of them the status, but for a
  decision.
* **ProfileCacheProofs.** `Invariance` proves `Spec => []IInv` and
  `StaleOnlyAsExplained` that an old entry has one of the reasons. The argument
  follows each writer: until its last entry is dropped it is due (`Due`) to drop all
  that it promised (`Promised`), and it starts to write before any of its entries is
  stale (`Wrote`). A reader carries in `old` what was written behind its back.
* **FollowUpsProofs.** `Invariance` proves `Spec => []IInv`; `ReadMessagesShown`,
  `TotalKept` and `ReviewsUnique` follow. A message is read only by a reader that will
  answer with it: `SlotOK` says that whoever is about to mark holds every message of
  the first page that is not known, and a message sent in between is known as missed.
  For the total, `StepsCount` counts the requests at given steps: each step moves one
  of them, and the sum of what is counted and what is still owed stays the same.
  `WalkStep` shows that the lists keep their types. `WalksComplete` and
  `WalksShowOnce` are proved for any number of rows and any page size. `WalkInv` gives
  each row of the list its position, the number of rows that sort up to it: a row
  that was shown stands within the pages the walk has passed until a row comes
  (`ShownBehind`), a row still to be shown stands beyond them until one leaves
  (`UnshownAhead`), and at the last page no position is left. Positions of different
  rows differ, and the rows of a page are those whose position lies in its interval;
  these facts about cardinalities, and not an induction over the pages, carry the
  proof. Lists without an order are left out of both properties: MongoDB promises
  nothing about them.
* **ServerProofs.** `LifeInvariance` proves an invariant with two more parts:
  `ShutdownOK`, the order of the listening socket, its callback, the database and the
  clients during a shutdown, and `SharedDisputed`, that a user with two sockets is
  disputed. `Invariance`, `PresenceKept` and `DatabaseClosesLast` follow. What a
  request is doing does not matter to them. `RefusalsWriteNothing` is about that: an
  answer of 4xx wrote nothing. A pipeline is `Safe` if no step that may refuse comes
  after one that writes; one lemma per router shows it of every handler in its table,
  behind gates that write nothing (`RouterSafe`), except those that `LateRefusals`
  names. `UntouchedInv` carries it along a request: what is left of a safe pipeline is
  safe, and once the request has written, nothing that may refuse is left. The lemmas
  about `Respond` and `GoOn` then cover every way a step may end.

The theorems are about overlapping and failing requests, unless a hypothesis says
otherwise: `OneAtATime`, those of `AcknowledgedIsPaid`, and for
`CredentialsAlwaysWork` that no path hashes a password twice. Every invariant and
action property of a passing run is stated by a theorem. Only model-checked:
liveness (`RequestsEnd`, `WonReachesCase`, `PaidPaymentSettles`, `Answered`, `Stops`),
which TLAPS does not handle under fairness, nor `ENABLED`. Induction over data is
beyond the installed provers and no theorem here needs it.

## 6. What is not modelled

See `components` in `PROJECT.json` for each part and the reason. In short:

* Payouts and `createFromCase` always fail validation in the code as it is (an amount
  computed from missing fields, a required field never set): there is no payout and no
  such invoice to model. Their calls are in Handlers, their lists in Lists.
* Code that nothing calls: the queues and workers, `transactionHelper`,
  `securityHelper`, `performance`, `uploadHelper`, `advancedValidation` and
  `validators`, `cacheMiddleware` and `CacheManager.getOrSet`, `CategoryController.seed`,
  `CaseService.acceptOffer`, the helpers on `io`. `InvoiceService.create` and `cancel`,
  `CategoryService.getByName` and `getSubCategories` have no caller either; they are in
  Payments and ProfileCache as the services define them: invoices have no other origin
  that works, and the entries of names and subcategories would be as modelled.
* Schemas without operations: favourites, files, verifications, subscriptions.
* The relays of the sockets (messages, typing, read marks, payments, offers): they pass
  an event on and keep no state; an event that is lost is lost.
* Updates of descriptive fields (a case's text, a client's address), bans and the
  verified flag: single writes on which nothing else depends, in Handlers as calls.
  `hideReview` and `publishReview` set a field that the schema lacks.
* `/health` and `/ready`: `isDbConnected` never becomes false once it was set, so they
  say nothing of the present.
* Mail, uploads, logging, sanitizing, configuration, swagger: I/O around the handlers.
