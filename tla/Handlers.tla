------------------------------ MODULE Handlers ------------------------------
(***************************************************************************)
(* Every HTTP handler of the API as the sequence of steps at which it can   *)
(* wait, be refused or fail.  A service method and a controller method are  *)
(* the calls they await, in order; a route is the gates of its middleware.  *)
(*                                                                         *)
(*   "check"   a read whose result (or whose cast of an id from the request)*)
(*             may make the code answer 4xx                                *)
(*   "find"    a read nothing is refused for                                *)
(*   "write"   a write of data of the request: validation, a cast, a unique *)
(*             index or a missing document may refuse it, without effect    *)
(*   "note"    a write of data the code makes up; it may only fail          *)
(*   "cache", "mail"  calls whose errors are caught where they are made     *)
(*   "paymob"  a request to the payment provider                           *)
(*                                                                         *)
(* A kind that ends in "?" is a call made on one branch only.               *)
(***************************************************************************)
EXTENDS Naturals, Sequences

(* What app.js runs before any router: body parsing and the API limiter.   *)
AppGates == <<"parse", "limit">>

(* The steps of the methods of a controller behind the gates of its routes. *)
Behind(gates, handlers) ==
    [h \in DOMAIN gates |-> AppGates \o gates[h] \o handlers[h]]

-----------------------------------------------------------------------------
AuthService ==
    [register |-> <<"check", "write", "write?", "mail", "note">>,
     login |-> <<"check", "note", "note", "find?">>,
     refreshToken |-> <<"check", "note", "note">>,
     logout |-> <<"note?", "note">>,
     verifyEmail |-> <<"check", "note">>,
     forgotPassword |-> <<"find", "note?", "mail?">>,
     resetPassword |-> <<"check", "note", "write">>,
     getMe |-> <<"check", "find?">>]

AuthController ==
    [register |-> AuthService.register, login |-> AuthService.login,
     devLogin |-> AuthService.login, refreshToken |-> AuthService.refreshToken,
     logout |-> AuthService.logout, verifyEmail |-> AuthService.verifyEmail,
     forgotPassword |-> AuthService.forgotPassword,
     resetPassword |-> AuthService.resetPassword, getMe |-> AuthService.getMe]

AuthRoutes ==
    [register |-> <<"limit", "validate">>, login |-> <<"limit", "validate">>,
     devLogin |-> <<"limit", "validate">>, refreshToken |-> <<"limit">>,
     logout |-> <<"limit", "auth">>, verifyEmail |-> <<"limit">>,
     forgotPassword |-> <<"limit", "validate">>,
     resetPassword |-> <<"limit", "validate">>, getMe |-> <<"limit", "auth">>]

-----------------------------------------------------------------------------
CasesService ==
    [create |-> <<"check", "write", "find">>,
     getAll |-> <<"check?", "find?">>,
     getById |-> <<"check", "find?", "check?">>,
     getByClient |-> <<"find", "find">>,
     getByLawyer |-> <<"find", "find">>,
     update |-> <<"check", "check?", "write", "find">>,
     delete |-> <<"check", "check?", "note">>,
     updateStatus |-> <<"check", "write">>]

CasesController ==
    [create |-> CasesService.create, getAll |-> CasesService.getAll,
     getById |-> CasesService.getById,
     getMyCases |-> <<"check">> \o CasesService.getByClient,
     getLawyerCases |-> <<"check">> \o CasesService.getByLawyer,
     update |-> CasesService.update, delete |-> CasesService.delete,
     updateStatus |-> CasesService.updateStatus]

CasesRoutes ==
    [create |-> <<"auth", "role", "validate">>, getAll |-> <<"auth">>,
     getById |-> << >>, getMyCases |-> <<"auth", "role">>,
     getLawyerCases |-> <<"auth", "role">>, update |-> <<"auth", "validate">>,
     delete |-> <<"auth", "role">>, updateStatus |-> <<"auth">>]

-----------------------------------------------------------------------------
OffersService ==
    [create |-> <<"check", "check", "check", "write", "note", "find", "note", "find">>,
     getByCase |-> <<"check", "find">>,
     getByLawyer |-> <<"find", "find">>,
     getAll |-> <<"find", "find">>,
     getMyOffers |-> <<"check", "find", "find">>,
     acceptOffer |-> <<"check", "find", "check", "note", "note", "note", "note",
                       "find", "note">>,
     rejectOffer |-> <<"check", "find", "check", "note", "find", "note">>,
     delete |-> <<"check", "check?", "note">>]

OffersController ==
    [create |-> OffersService.create, getByCase |-> OffersService.getByCase,
     getAll |-> OffersService.getAll, getMyOffers |-> OffersService.getMyOffers,
     acceptOffer |-> OffersService.acceptOffer,
     rejectOffer |-> OffersService.rejectOffer, delete |-> OffersService.delete]

OffersRoutes ==
    [h \in {"create", "getAll", "getMyOffers", "acceptOffer", "rejectOffer", "delete"}
        |-> IF h = "create" THEN <<"auth", "role", "validate">> ELSE <<"auth", "role">>]

OffersPublicRoutes == [getByCase |-> << >>]

-----------------------------------------------------------------------------
MessagesService ==
    [getByCase |-> <<"check", "check", "find?", "check?", "find", "find", "note?">>,
     createMessage |-> <<"check", "check", "find?", "check?", "find?", "find?",
                         "write", "note?", "find">>,
     getUnreadCount |-> <<"check">>]

MessagesController ==
    [getByCase |-> MessagesService.getByCase, create |-> MessagesService.createMessage,
     getUnreadCount |-> MessagesService.getUnreadCount]

MessagesRoutes ==
    [getByCase |-> <<"auth", "role">>, create |-> <<"auth", "role", "validate">>,
     getUnreadCount |-> <<"auth", "role">>]

-----------------------------------------------------------------------------
ReviewsService ==
    [getAll |-> <<"find", "find">>,
     delete |-> <<"write", "find", "note?">>,
     create |-> <<"check", "check", "check", "write", "check", "note", "note", "find">>,
     getByLawyer |-> <<"check", "find", "find">>]

ReviewsController ==
    [create |-> ReviewsService.create, getAll |-> ReviewsService.getAll,
     getByLawyer |-> ReviewsService.getByLawyer, delete |-> ReviewsService.delete]

ReviewsRoutes ==
    [create |-> <<"auth", "role", "validate">>, getAll |-> <<"auth", "role">>,
     getByLawyer |-> << >>, delete |-> <<"auth", "role">>]

-----------------------------------------------------------------------------
NotificationsService ==
    [getAll |-> <<"find", "find", "find">>,
     markAsRead |-> <<"write">>,
     markAllAsRead |-> <<"note">>,
     createNotification |-> <<"check", "write">>,
     deleteNotification |-> <<"write">>]

NotificationsController ==
    [getAll |-> NotificationsService.getAll,
     create |-> NotificationsService.createNotification,
     markAsRead |-> NotificationsService.markAsRead,
     markAllAsRead |-> NotificationsService.markAllAsRead,
     delete |-> NotificationsService.deleteNotification]

NotificationsRoutes ==
    [getAll |-> <<"auth", "role">>, create |-> <<"auth", "role", "validate">>,
     markAsRead |-> <<"auth", "role">>, markAllAsRead |-> <<"auth", "role">>,
     delete |-> <<"auth", "role">>]

-----------------------------------------------------------------------------
InvoicesService ==
    [createFromCase |-> <<"check", "check", "write">>,
     getAll |-> <<"find", "find">>,
     getByClient |-> <<"find", "find">>,
     getById |-> <<"check", "find?", "check?">>,
     getByLawyer |-> <<"find", "find">>]

InvoicesController ==
    [create |-> InvoicesService.createFromCase, getAll |-> InvoicesService.getAll,
     getById |-> InvoicesService.getById,
     getMyInvoices |-> <<"check">> \o InvoicesService.getByClient,
     getLawyerInvoices |-> <<"check">> \o InvoicesService.getByLawyer]

InvoicesRoutes ==
    [create |-> <<"auth", "role">>, getAll |-> <<"auth", "role">>,
     getById |-> <<"auth">>, getMyInvoices |-> <<"auth", "role">>,
     getLawyerInvoices |-> <<"auth", "role">>]

-----------------------------------------------------------------------------
(* validateWebhook and parseWebhook throw before the first call: "validate". *)
WebhookChecks == <<"validate">>
CreatePaymentSession == <<"check", "check", "paymob", "paymob", "paymob">>

\* Mutant: the invoice is settled before the payment is stored.
ProcessPaymentEventSwapped == <<"note?", "write">>

ProcessPaymentEvent == <<"write", "note?">>
VerifyTransaction == <<"paymob", "paymob">>
GetPaymentByInvoice == <<"check">>

PaymentsController ==
    [create |-> <<"validate">> \o CreatePaymentSession,
     verify |-> <<"validate">> \o VerifyTransaction,
     webhook |-> WebhookChecks \o ProcessPaymentEvent,
     getByInvoice |-> GetPaymentByInvoice]

PaymentsRoutes ==
    [create |-> <<"auth", "role">>, verify |-> << >>, webhook |-> << >>,
     getByInvoice |-> <<"auth">>]

-----------------------------------------------------------------------------
PayoutsService ==
    [requestPayout |-> <<"check", "check", "check", "write">>,
     getByLawyer |-> <<"find", "find">>,
     getAll |-> <<"find", "find">>,
     updateStatus |-> <<"check", "write">>]

PayoutsController ==
    [request |-> PayoutsService.requestPayout,
     getMyPayouts |-> <<"check">> \o PayoutsService.getByLawyer,
     getAll |-> PayoutsService.getAll, updateStatus |-> PayoutsService.updateStatus]

PayoutsRoutes ==
    [h \in {"request", "getMyPayouts", "getAll", "updateStatus"} |-> <<"auth", "role">>]

-----------------------------------------------------------------------------
LawyersService ==
    [getProfile |-> <<"cache", "check?", "cache?">>,
     updateProfile |-> <<"check", "write", "write?", "find", "cache">>,
     getAll |-> <<"cache", "check?", "find?", "cache?">>,
     getById |-> <<"cache", "check?", "cache?">>,
     create |-> <<"check", "note", "write">>,
     updateById |-> <<"check", "write", "write?", "find", "cache">>,
     deleteById |-> <<"check", "note", "cache">>,
     verifyLawyer |-> <<"check", "note", "note", "cache", "find">>]

LawyersController ==
    [getMyProfile |-> LawyersService.getProfile,
     updateMyProfile |-> LawyersService.updateProfile,
     getAll |-> LawyersService.getAll, getById |-> LawyersService.getById,
     create |-> LawyersService.create, updateById |-> LawyersService.updateById,
     deleteById |-> LawyersService.deleteById,
     verifyLawyer |-> LawyersService.verifyLawyer,
     unverifyLawyer |-> LawyersService.verifyLawyer]

LawyersRoutes ==
    [getMyProfile |-> <<"auth", "role">>, updateMyProfile |-> <<"auth", "role">>,
     getAll |-> << >>, getById |-> << >>, create |-> <<"auth", "role">>,
     updateById |-> <<"auth", "role">>, deleteById |-> <<"auth", "role">>,
     verifyLawyer |-> <<"auth", "role">>, unverifyLawyer |-> <<"auth", "role">>]

-----------------------------------------------------------------------------
ClientsService ==
    [getProfile |-> <<"check">>,
     updateProfile |-> <<"check", "write?", "note?", "find">>,
     getAll |-> <<"check", "find">>,
     createClient |-> <<"check", "write", "note", "find">>,
     getById |-> <<"check">>,
     updateClient |-> <<"check", "write?", "note?", "find">>,
     deleteClient |-> <<"check", "note">>]

ClientsController ==
    [getMyProfile |-> ClientsService.getProfile,
     updateMyProfile |-> ClientsService.updateProfile,
     getAll |-> ClientsService.getAll, create |-> ClientsService.createClient,
     getById |-> ClientsService.getById, update |-> ClientsService.updateClient,
     delete |-> ClientsService.deleteClient]

ClientsRoutes ==
    [h \in DOMAIN ClientsController |->
        IF h \in {"create", "update"} THEN <<"auth", "role", "validate">>
        ELSE <<"auth", "role">>]

-----------------------------------------------------------------------------
CategoriesService ==
    [create |-> <<"write", "cache">>,
     getAll |-> <<"cache", "check?", "find?", "cache?">>,
     getById |-> <<"cache", "check?", "cache?">>,
     update |-> <<"write", "cache", "cache">>,
     delete |-> <<"write", "cache", "cache">>]

CategoriesController ==
    [create |-> CategoriesService.create, getAll |-> CategoriesService.getAll,
     getById |-> CategoriesService.getById, update |-> CategoriesService.update,
     delete |-> CategoriesService.delete]

CategoriesRoutes ==
    [getAll |-> << >>, getById |-> << >>, create |-> <<"auth", "role", "validate">>,
     update |-> <<"auth", "role", "validate">>, delete |-> <<"auth", "role">>]

-----------------------------------------------------------------------------
UsersService ==
    [getAllUsers |-> <<"find", "find">>, getUserById |-> <<"find">>,
     updateUser |-> <<"write">>, deleteUser |-> <<"write">>,
     toggleBanUser |-> <<"write">>, toggleActive |-> <<"write">>]

(* The methods below answer 404 themselves when the service returns null:   *)
(* after a find that makes the read a check, after a findByIdAndUpdate or   *)
(* findByIdAndDelete it is the write that found nothing.                    *)
UsersController ==
    [getAll |-> UsersService.getAllUsers, getById |-> <<"check">>,
     update |-> UsersService.updateUser, delete |-> UsersService.deleteUser,
     toggleActive |-> UsersService.toggleActive,
     banUser |-> UsersService.toggleBanUser, unbanUser |-> UsersService.toggleBanUser]

UsersRoutes ==
    [h \in DOMAIN UsersController |->
        IF h \in {"getById", "update"} THEN <<"auth">> ELSE <<"auth", "role">>]

-----------------------------------------------------------------------------
AdminService ==
    [getDashboardStats |-> [i \in 1..8 |-> "find"],
     createAdminUser |-> <<"check", "write">>,
     markAsPaidOnly |-> <<"check", "write">>]

AdminController ==
    [getDashboardStats |-> AdminService.getDashboardStats,
     markAsPaidOnly |-> AdminService.markAsPaidOnly,
     createAdmin |-> AdminService.createAdminUser]

AdminRoutes ==
    [getDashboardStats |-> <<"auth", "role">>, markAsPaidOnly |-> <<"auth", "role">>,
     createAdmin |-> <<"auth", "role", "role", "validate">>]

-----------------------------------------------------------------------------
(* hideReview and publishReview set a field that the schema of a review does *)
(* not have: their save checks the document and writes nothing.             *)
SuperadminService ==
    [getStatistics |-> [i \in 1..16 |-> "find"],
     getAnalytics |-> [i \in 1..6 |-> "find"],
     getAllReviews |-> <<"check">>, getReviewById |-> <<"check">>,
     hideReview |-> <<"check", "check">>, publishReview |-> <<"check", "check">>,
     deleteReview |-> <<"check", "note">>]

SuperadminAdmins ==
    [getAllAdmins |-> <<"find", "find">>, createAdmin |-> <<"check", "write">>,
     deleteAdmin |-> <<"check", "note">>, changeRole |-> <<"check", "note">>]

SuperadminController ==
    [getDashboard |-> AdminService.getDashboardStats,
     getStatistics |-> SuperadminService.getStatistics,
     getAnalytics |-> SuperadminService.getAnalytics,
     getAllReviews |-> SuperadminService.getAllReviews,
     getReviewById |-> SuperadminService.getReviewById,
     hideReview |-> SuperadminService.hideReview,
     publishReview |-> SuperadminService.publishReview,
     deleteReview |-> SuperadminService.deleteReview,
     getAllAdmins |-> SuperadminAdmins.getAllAdmins,
     createAdmin |-> SuperadminAdmins.createAdmin,
     deleteAdmin |-> SuperadminAdmins.deleteAdmin,
     changeRole |-> SuperadminAdmins.changeRole]

SuperadminRoutes ==
    [h \in DOMAIN SuperadminController |->
        IF h \in {"createAdmin", "changeRole"} THEN <<"auth", "role", "validate">>
        ELSE <<"auth", "role">>]

-----------------------------------------------------------------------------
AdminsController ==
    [createAdmin |-> <<"check", "write", "note">>, getAdmins |-> <<"find">>,
     updateAdmin |-> <<"check", "write", "note">>,
     suspendAdmin |-> <<"check", "note", "note">>,
     restoreAdmin |-> <<"check", "note", "note">>,
     deleteAdmin |-> <<"check", "check?", "note", "note">>]

AdminsRoutes == [h \in DOMAIN AdminsController |-> <<"auth", "perms">>]

RolesController ==
    [getSystemPermissions |-> << >>, createRole |-> <<"check", "write", "note">>,
     getRoles |-> <<"find">>, updateRole |-> <<"check", "write", "note">>,
     deleteRole |-> <<"check", "note", "note">>]

RolesRoutes == [h \in DOMAIN RolesController |-> <<"auth", "perms">>]

AuditController == [getAuditLogs |-> <<"check", "find">>]
AuditRoutes == [getAuditLogs |-> <<"auth", "perms">>]

-----------------------------------------------------------------------------
(* The endpoints of app.js itself; /api/health/detailed catches the error of *)
(* its ping.  A path no route takes is refused by notFound.                 *)
AppHandlers ==
    [health |-> << >>, ready |-> << >>, live |-> << >>, detailed |-> <<"cache?">>,
     notFound |-> <<"missing">>]

AppRoutes == [h \in DOMAIN AppHandlers |-> << >>]

(* The routers as app.js mounts them.                                       *)
Routers ==
    [auth |-> Behind(AuthRoutes, AuthController),
     categories |-> Behind(CategoriesRoutes, CategoriesController),
     cases |-> Behind(CasesRoutes, CasesController),
     offers |-> Behind(OffersRoutes, OffersController),
     caseOffers |-> Behind(OffersPublicRoutes, OffersController),
     messages |-> Behind(MessagesRoutes, MessagesController),
     reviews |-> Behind(ReviewsRoutes, ReviewsController),
     notifications |-> Behind(NotificationsRoutes, NotificationsController),
     invoices |-> Behind(InvoicesRoutes, InvoicesController),
     lawyers |-> Behind(LawyersRoutes, LawyersController),
     clients |-> Behind(ClientsRoutes, ClientsController),
     admin |-> Behind(AdminRoutes, AdminController),
     superadmin |-> Behind(SuperadminRoutes, SuperadminController),
     payouts |-> Behind(PayoutsRoutes, PayoutsController),
     users |-> Behind(UsersRoutes, UsersController),
     payments |-> Behind(PaymentsRoutes, PaymentsController),
     roles |-> Behind(RolesRoutes, RolesController),
     adminsManage |-> Behind(AdminsRoutes, AdminsController),
     auditLogs |-> Behind(AuditRoutes, AuditController),
     app |-> Behind(AppRoutes, AppHandlers)]
=============================================================================
