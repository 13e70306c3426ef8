---------------------------- MODULE ServerProofs ----------------------------
(***************************************************************************)
(* Proofs about Server, for any number of sockets and users and any bound   *)
(* on connections and signals: the map of connected users agrees with the   *)
(* sockets, the database is closed under no client, and a request that is   *)
(* refused has written nothing, for every handler of every router.          *)
(***************************************************************************)
EXTENDS Server, TLAPS

(* The parts of Next, named.                                                *)
LifeStep ==
    \/ DatabaseConnects \/ DatabaseRefuses
    \/ GracefulShutdown \/ HttpServerClosed \/ DatabaseCloses
    \/ ShutdownCompletes \/ ForcedShutdown \/ UncaughtException

ClientStep == Receive \/ Handle \/ HangUp

SocketStep ==
    \E s \in Sockets : Disconnect(s) \/ \E u \in Users : Connect(s, u) \/ Subscribe(s, u)

(* Where the shutdown stands.  Once server.close has called back, or the     *)
(* server listens no more, no client is left, and none comes.               *)
ShutdownOK ==
    process = "up" =>
        /\ db = "connecting" => http = "none" /\ closing \in {"no", "early"}
        /\ db = "closed" => closing \in {"called", "early"}
        /\ http = "none" => db = "connecting"
        /\ http = "listening" => closing \in {"no", "early"}
        /\ http \in {"closing", "closed"} => closing # "no"
        /\ closing = "called" => http = "closed"
        /\ http = "closed" => Drained

(* Two live sockets of one user make the user a disputed one.               *)
SharedDisputed ==
    \A s, t \in Sockets :
        s # t /\ userOf[s] = userOf[t] /\ userOf[s] # None => userOf[s] \in disputed

(* What is inductive.                                                       *)
LInv == IInv /\ ShutdownOK /\ SharedDisputed

-----------------------------------------------------------------------------
LEMMA InitOK == Init => LInv
<1> SUFFICES ASSUME Init PROVE LInv OBVIOUS
<1>1. TypeOK
  <2>1. signals \in 0..MaxSignals
    BY BoundsAssumption DEF Init
  <2> QED BY <2>1 DEF Init, TypeOK
<1>2. PresenceAgrees
  BY NoneAssumption DEF Init, PresenceAgrees, Named
<1>3. ShutdownOK
  BY DEF Init, ShutdownOK
<1>4. SharedDisputed
  BY DEF Init, SharedDisputed
<1> QED BY <1>1, <1>2, <1>3, <1>4 DEF LInv, IInv

(* What a process that has exited satisfies.                                *)
LEMMA ExitOK ==
    ASSUME LInv, NEW code \in {"done", "failed"}, Exit(code)
    PROVE  LInv'
BY NoneAssumption
   DEF LInv, IInv, TypeOK, PresenceAgrees, ShutdownOK, SharedDisputed, Exit, Named

(* Steps that leave the sockets alone keep the map right.                   *)
LEMMA ChatKept ==
    ASSUME PresenceAgrees, SharedDisputed, UNCHANGED chat
    PROVE  PresenceAgrees' /\ SharedDisputed'
BY DEF PresenceAgrees, SharedDisputed, chat, Named

LEMMA LifeStepOK ==
    ASSUME LInv, process = "up", LifeStep
    PROVE  LInv'
<1> USE NoneAssumption, BoundsAssumption
<1>1. CASE DatabaseConnects
  <2>1. PresenceAgrees' /\ SharedDisputed'
    BY <1>1, ChatKept DEF LInv, IInv, DatabaseConnects
  <2>2. TypeOK' /\ ShutdownOK'
    BY <1>1 DEF LInv, IInv, TypeOK, ShutdownOK, DatabaseConnects, chat, Drained, Live
  <2> QED BY <2>1, <2>2 DEF LInv, IInv
<1>2. CASE DatabaseRefuses
  BY <1>2, ExitOK DEF DatabaseRefuses
<1>3. CASE GracefulShutdown
  <2>1. PresenceAgrees' /\ SharedDisputed'
    BY <1>3, ChatKept DEF LInv, IInv, GracefulShutdown
  <2>2. TypeOK' /\ ShutdownOK'
    BY <1>3 DEF LInv, IInv, TypeOK, ShutdownOK, GracefulShutdown, chat, Drained, Live
  <2> QED BY <2>1, <2>2 DEF LInv, IInv
<1>4. CASE HttpServerClosed
  <2>1. PresenceAgrees' /\ SharedDisputed'
    BY <1>4, ChatKept DEF LInv, IInv, HttpServerClosed
  <2>2. TypeOK' /\ ShutdownOK'
    BY <1>4 DEF LInv, IInv, TypeOK, ShutdownOK, HttpServerClosed, chat, Drained, Live
  <2> QED BY <2>1, <2>2 DEF LInv, IInv
<1>5. CASE DatabaseCloses
  <2>1. PresenceAgrees' /\ SharedDisputed'
    BY <1>5, ChatKept DEF LInv, IInv, DatabaseCloses
  <2>2. TypeOK' /\ ShutdownOK'
    BY <1>5 DEF LInv, IInv, TypeOK, ShutdownOK, DatabaseCloses, chat, Drained, Live
  <2> QED BY <2>1, <2>2 DEF LInv, IInv
<1>6. CASE ShutdownCompletes
  BY <1>6, ExitOK DEF ShutdownCompletes
<1>7. CASE ForcedShutdown
  BY <1>7, ExitOK DEF ForcedShutdown
<1>8. CASE UncaughtException
  BY <1>8, ExitOK DEF UncaughtException
<1> QED
  BY <1>1, <1>2, <1>3, <1>4, <1>5, <1>6, <1>7, <1>8 DEF LifeStep

(* What a step of a handler does to the connection: it may answer.          *)
LEMMA HandleConn ==
    ASSUME Handle
    PROVE  (conn' = conn \/ (conn = "waiting" /\ conn' = "idle")) /\ UNCHANGED <<life, chat>>
<1>1. UNCHANGED <<life, chat>>
  BY DEF Handle
<1> SUFFICES conn' = conn \/ (conn = "waiting" /\ conn' = "idle")
  BY <1>1
<1>2. PICK kind :
        Done(kind) \/ LeftOut(kind) \/ Refused(kind) \/ Failed(kind) \/ BrokenOff(kind)
  BY Zenon DEF Handle
<1>4. CASE Done(kind)
  BY <1>4, Zenon DEF Done, GoOn, Respond
<1>5. CASE LeftOut(kind)
  BY <1>5, Zenon DEF LeftOut, GoOn, Respond
<1>6. CASE Refused(kind)
  BY <1>6, Zenon DEF Refused, HandleError, Respond
<1>7. CASE Failed(kind)
  BY <1>7, Zenon DEF Failed, HandleError, Respond
<1>8. CASE BrokenOff(kind)
  BY <1>8 DEF BrokenOff
<1> QED
  BY <1>2, <1>4, <1>5, <1>6, <1>7, <1>8

LEMMA ClientStepOK ==
    ASSUME LInv, process = "up", ClientStep
    PROVE  LInv'
<1>1. UNCHANGED <<life, chat>>
  BY HandleConn DEF ClientStep, Receive, HangUp
<1>2. PresenceAgrees' /\ SharedDisputed'
  BY <1>1, ChatKept DEF LInv, IInv
<1>3. /\ conn' \in {"none", "waiting", "idle"}
      /\ http = "closed" /\ conn = "none" => conn' = "none"
  <2>1. CASE Receive
    BY <2>1 DEF Receive, CanConnect
  <2>2. CASE Handle
    BY <2>2, HandleConn DEF LInv, IInv, TypeOK
  <2>3. CASE HangUp
    BY <2>3 DEF HangUp
  <2> QED BY <2>1, <2>2, <2>3 DEF ClientStep
<1>4. TypeOK'
  BY <1>1, <1>3 DEF LInv, IInv, TypeOK, life, chat
<1>5. ShutdownOK'
  BY <1>1, <1>3 DEF LInv, ShutdownOK, life, chat, Drained, Live
<1> QED BY <1>2, <1>4, <1>5 DEF LInv, IInv

LEMMA SocketStepOK ==
    ASSUME LInv, process = "up", SocketStep
    PROVE  LInv'
<1> USE NoneAssumption DEF LInv, IInv, TypeOK
<1>1. ASSUME NEW s \in Sockets, NEW u \in Users, Connect(s, u)
      PROVE  LInv'
  <2>1. TypeOK'
    BY <1>1 DEF Connect, life
  <2>2. PresenceAgrees'
    BY <1>1 DEF Connect, PresenceAgrees, Named
  <2>3. ShutdownOK'
    BY <1>1 DEF Connect, CanConnect, ShutdownOK, life
  <2>4. SharedDisputed'
    BY <1>1 DEF Connect, SharedDisputed, Named
  <2> QED BY <2>1, <2>2, <2>3, <2>4
<1>2. ASSUME NEW s \in Sockets, NEW u \in Users, Subscribe(s, u)
      PROVE  LInv'
  <2>1. TypeOK'
    BY <1>2 DEF Subscribe, life
  <2>2. PresenceAgrees'
    BY <1>2 DEF Subscribe, PresenceAgrees, Named
  <2>3. ShutdownOK'
    BY <1>2 DEF Subscribe, ShutdownOK, Drained, Live, life
  <2>4. SharedDisputed'
    BY <1>2 DEF Subscribe, SharedDisputed, Named
  <2> QED BY <2>1, <2>2, <2>3, <2>4
<1>3. ASSUME NEW s \in Sockets, Disconnect(s)
      PROVE  LInv'
  <2>1. TypeOK'
    BY <1>3 DEF Disconnect, life
  <2>2. PresenceAgrees'
    <3> SUFFICES ASSUME NEW u \in Users \ disputed'
                 PROVE  u \in connectedUsers' <=> Named(u)' # {}
      BY DEF PresenceAgrees
    <3>1. Named(u)' = Named(u) \ {s}
      BY <1>3 DEF Disconnect, Named
    <3>2. u \in connectedUsers' <=> u \in connectedUsers /\ u # userOf[s]
      BY <1>3 DEF Disconnect
    <3>3. CASE u \in disputed
      BY <1>3, <3>1, <3>3 DEF Disconnect
    <3>4. CASE u \notin disputed /\ userOf[s] = u
      <4>1. Named(u) \subseteq {s}
        BY <3>4, NoneAssumption DEF SharedDisputed, Named
      <4> QED BY <3>1, <3>2, <3>4, <4>1
    <3>5. CASE u \notin disputed /\ userOf[s] # u
      BY <3>1, <3>2, <3>5 DEF PresenceAgrees, Named
    <3> QED BY <3>3, <3>4, <3>5
  <2>3. ShutdownOK'
    BY <1>3 DEF Disconnect, ShutdownOK, Drained, Live, life
  <2>4. SharedDisputed'
    BY <1>3 DEF Disconnect, SharedDisputed, Named
  <2> QED BY <2>1, <2>2, <2>3, <2>4
<1> QED
  BY <1>1, <1>2, <1>3 DEF SocketStep

LEMMA StepOK == LInv /\ [Next]_vars => LInv'
<1> SUFFICES ASSUME LInv, [Next]_vars PROVE LInv' OBVIOUS
<1>1. CASE Next
  <2>1. process = "up" /\ (LifeStep \/ ClientStep \/ SocketStep)
    BY <1>1 DEF Next, LifeStep, ClientStep, SocketStep
  <2> QED BY <2>1, LifeStepOK, ClientStepOK, SocketStepOK
<1>2. CASE UNCHANGED vars
  BY <1>2, ChatKept
     DEF vars, life, chat, LInv, IInv, TypeOK, ShutdownOK, Drained, Live
<1> QED BY <1>1, <1>2

(* The invariant with what the shutdown and the socket map need: server.js   *)
(* closes the connections in order, and only renamed sockets are disputed.   *)
THEOREM LifeInvariance == Spec => []LInv
BY InitOK, StepOK, PTL DEF Spec

-----------------------------------------------------------------------------
(* The types, and the agreement of the map of chat.socket with the sockets.  *)
THEOREM Invariance == Spec => []IInv
<1>1. LInv => IInv BY DEF LInv
<1> QED BY <1>1, LifeInvariance, PTL

(* The map says a user is connected exactly while a socket carries its id,   *)
(* but for those who had two sockets or a renamed one.                      *)
THEOREM PresenceKept == Spec => []PresenceAgrees
<1>1. IInv => PresenceAgrees BY DEF IInv
<1> QED BY <1>1, Invariance, PTL

(* The shutdown closes the database under no client, unless the signal came  *)
(* before the server listened.                                              *)
THEOREM DatabaseClosesLast == Spec => []DatabaseOutlastsClients
<1>1. LInv => DatabaseOutlastsClients
  BY DEF LInv, ShutdownOK, DatabaseOutlastsClients
<1> QED BY <1>1, LifeInvariance, PTL

-----------------------------------------------------------------------------
(* A refusal comes before the first write.  The kinds of step that may end   *)
(* a request with a 4xx, and the pipelines in which none of them is after a  *)
(* step that writes.                                                        *)
Refusable == {"parse", "limit", "auth", "role", "perms", "validate", "missing",
              "check", "check?", "write", "write?"}

IsSeq(steps) ==
    /\ Len(steps) \in Nat /\ DOMAIN steps = 1 .. Len(steps)
    /\ steps = [i \in DOMAIN steps |-> steps[i]]

Safe(steps) ==
    \A i, j \in DOMAIN steps : i < j /\ steps[i] \in Writing => steps[j] \notin Refusable
WritesNothing(steps) == \A i \in DOMAIN steps : steps[i] \notin Writing
RefusesNothing(steps) == \A i \in DOMAIN steps : steps[i] \notin Refusable

(* What the request under way has still to do cannot refuse what it wrote.   *)
RequestOK ==
    /\ request \in [todo: {request.todo}, late: BOOLEAN, wrote: BOOLEAN, answer: Nat]
    /\ IsSeq(request.todo)

UntouchedInv ==
    /\ RequestOK
    /\ request.todo # << >> => request.answer = 0
    /\ ~request.late =>
          Safe(request.todo) /\ (request.wrote => RefusesNothing(request.todo))
    /\ RefusedUntouched

(* Gates that write nothing before a safe handler, or one that is known.     *)
SeqTable(table) == \A h \in DOMAIN table : IsSeq(table[h])
QuietTable(table) == \A h \in DOMAIN table : WritesNothing(table[h])
SafeTable(m, table) ==
    \A h \in DOMAIN table : <<m, h>> \in LateRefusals \/ Safe(table[h])

RouterSafe(m, gates, handlers) ==
    /\ SeqTable(gates) /\ QuietTable(gates)
    /\ SeqTable(handlers) /\ SafeTable(m, handlers)
    /\ DOMAIN gates \subseteq DOMAIN handlers

LEMMA Joined ==
    ASSUME NEW a, NEW b, IsSeq(a), IsSeq(b), WritesNothing(a)
    PROVE  /\ IsSeq(a \o b)
           /\ WritesNothing(b) => WritesNothing(a \o b)
           /\ Safe(b) => Safe(a \o b)
<1> DEFINE Steps == {a[i] : i \in DOMAIN a} \cup {b[i] : i \in DOMAIN b}
<1>0. a \in Seq(Steps) /\ b \in Seq(Steps)
  BY DEF IsSeq
<1>1. /\ a \o b \in Seq(Steps) /\ DOMAIN (a \o b) = 1 .. Len(a) + Len(b)
      /\ DOMAIN a = 1 .. Len(a) /\ DOMAIN b = 1 .. Len(b) /\ Len(a) \in Nat /\ Len(b) \in Nat
      /\ \A i \in 1 .. Len(a) + Len(b) :
            (a \o b)[i] = IF i <= Len(a) THEN a[i] ELSE b[i - Len(a)]
  BY <1>0
<1> HIDE DEF Steps
<1>2. IsSeq(a \o b)
  <2>1. PICK s \in Seq(Steps) : s = a \o b
    BY <1>1
  <2>2. Len(s) \in Nat /\ DOMAIN s = 1 .. Len(s) /\ s = [i \in DOMAIN s |-> s[i]]
    OBVIOUS
  <2> QED BY <2>1, <2>2 DEF IsSeq
<1>3. WritesNothing(b) => WritesNothing(a \o b)
  BY <1>1 DEF WritesNothing
<1>4. ASSUME Safe(b) PROVE Safe(a \o b)
  <2>1. SUFFICES ASSUME NEW i \in 1 .. Len(a) + Len(b), NEW j \in 1 .. Len(a) + Len(b),
                        i < j, (a \o b)[i] \in Writing
                 PROVE  (a \o b)[j] \notin Refusable
    BY <1>1 DEF Safe
  <2>2. i > Len(a)
    BY <1>1, <2>1 DEF WritesNothing
  <2>3. /\ i - Len(a) \in DOMAIN b /\ j - Len(a) \in DOMAIN b /\ i - Len(a) < j - Len(a)
        /\ (a \o b)[i] = b[i - Len(a)] /\ (a \o b)[j] = b[j - Len(a)]
    BY <1>1, <2>1, <2>2
  <2> QED BY <1>4, <2>1, <2>3 DEF Safe
<1> QED BY <1>2, <1>3, <1>4

LEMMA BehindSafe ==
    ASSUME NEW m, NEW gates, NEW handlers, RouterSafe(m, gates, handlers),
           NEW h \in DOMAIN Behind(gates, handlers)
    PROVE  /\ IsSeq(Behind(gates, handlers)[h])
           /\ <<m, h>> \in LateRefusals \/ Safe(Behind(gates, handlers)[h])
<1>1. h \in DOMAIN gates /\ Behind(gates, handlers)[h] = AppGates \o gates[h] \o handlers[h]
  BY DEF Behind
<1>2. IsSeq(AppGates) /\ WritesNothing(AppGates)
  BY DEF AppGates, IsSeq, WritesNothing, Writing
<1>3. /\ IsSeq(gates[h]) /\ IsSeq(handlers[h]) /\ WritesNothing(gates[h])
      /\ <<m, h>> \in LateRefusals \/ Safe(handlers[h])
  BY <1>1 DEF RouterSafe, SeqTable, QuietTable, SafeTable
<1>4. IsSeq(AppGates \o gates[h]) /\ WritesNothing(AppGates \o gates[h])
  BY <1>2, <1>3, Joined
<1>5. /\ IsSeq(AppGates \o gates[h] \o handlers[h])
      /\ Safe(handlers[h]) => Safe(AppGates \o gates[h] \o handlers[h])
  BY <1>3, <1>4, Joined
<1> QED BY <1>1, <1>3, <1>5

(* The two kinds of gates that most routers have.                           *)
LEMMA CommonGates ==
    \A gates \in {<<"auth", "role">>, <<"auth", "perms">>, <<"auth", "role", "validate">>,
                  <<"auth">>, << >>} :
        IsSeq(gates) /\ WritesNothing(gates)
<1>1. /\ IsSeq(<<"auth", "role">>) /\ IsSeq(<<"auth", "perms">>)
      /\ IsSeq(<<"auth", "role", "validate">>) /\ IsSeq(<<"auth">>) /\ IsSeq(<< >>)
  BY DEF IsSeq
<1>2. /\ WritesNothing(<<"auth", "role">>) /\ WritesNothing(<<"auth", "perms">>)
      /\ WritesNothing(<<"auth", "role", "validate">>) /\ WritesNothing(<<"auth">>)
      /\ WritesNothing(<< >>)
  BY DEF WritesNothing, Writing
<1> QED BY <1>1, <1>2

(* The tables of Handlers, router by router.                                *)
LEMMA AuthSafe == RouterSafe("auth", AuthRoutes, AuthController)
<1>1. SeqTable(AuthRoutes)
  BY DEF AuthRoutes, SeqTable, IsSeq
<1>2. QuietTable(AuthRoutes)
  BY DEF AuthRoutes, QuietTable, WritesNothing, Writing
<1>3. SeqTable(AuthController)
  BY DEF AuthController, AuthService, SeqTable, IsSeq
<1>4. SafeTable("auth", AuthController)
  BY DEF AuthController, AuthService,
         SafeTable, Safe, Refusable, Writing, LateRefusals
<1>5. DOMAIN AuthRoutes \subseteq DOMAIN AuthController
  BY DEF AuthRoutes, AuthController
<1> QED BY <1>1, <1>2, <1>3, <1>4, <1>5 DEF RouterSafe

LEMMA CategoriesSafe == RouterSafe("categories", CategoriesRoutes, CategoriesController)
<1>1. SeqTable(CategoriesRoutes)
  BY DEF CategoriesRoutes, SeqTable, IsSeq
<1>2. QuietTable(CategoriesRoutes)
  BY DEF CategoriesRoutes, QuietTable, WritesNothing, Writing
<1>3. SeqTable(CategoriesController)
  BY DEF CategoriesController, CategoriesService, SeqTable, IsSeq
<1>4. SafeTable("categories", CategoriesController)
  BY DEF CategoriesController, CategoriesService,
         SafeTable, Safe, Refusable, Writing, LateRefusals
<1>5. DOMAIN CategoriesRoutes \subseteq DOMAIN CategoriesController
  BY DEF CategoriesRoutes, CategoriesController
<1> QED BY <1>1, <1>2, <1>3, <1>4, <1>5 DEF RouterSafe

LEMMA CasesSafe == RouterSafe("cases", CasesRoutes, CasesController)
<1>1. SeqTable(CasesRoutes)
  BY DEF CasesRoutes, SeqTable, IsSeq
<1>2. QuietTable(CasesRoutes)
  BY DEF CasesRoutes, QuietTable, WritesNothing, Writing
<1>3. SeqTable(CasesController)
  BY DEF CasesController, CasesService, SeqTable, IsSeq
<1>4. SafeTable("cases", CasesController)
  BY DEF CasesController, CasesService,
         SafeTable, Safe, Refusable, Writing, LateRefusals
<1>5. DOMAIN CasesRoutes \subseteq DOMAIN CasesController
  BY DEF CasesRoutes, CasesController
<1> QED BY <1>1, <1>2, <1>3, <1>4, <1>5 DEF RouterSafe

LEMMA OffersSafe == RouterSafe("offers", OffersRoutes, OffersController)
<1>1. SeqTable(OffersRoutes) /\ QuietTable(OffersRoutes)
  BY CommonGates DEF OffersRoutes, SeqTable, QuietTable
<1>2. SeqTable(OffersController)
  BY DEF OffersController, OffersService, SeqTable, IsSeq
<1>3. SafeTable("offers", OffersController)
  BY DEF OffersController, OffersService,
         SafeTable, Safe, Refusable, Writing, LateRefusals
<1>4. DOMAIN OffersRoutes \subseteq DOMAIN OffersController
  BY DEF OffersRoutes, OffersController
<1> QED BY <1>1, <1>2, <1>3, <1>4 DEF RouterSafe

LEMMA CaseOffersSafe == RouterSafe("caseOffers", OffersPublicRoutes, OffersController)
<1>1. SeqTable(OffersPublicRoutes)
  BY DEF OffersPublicRoutes, SeqTable, IsSeq
<1>2. QuietTable(OffersPublicRoutes)
  BY DEF OffersPublicRoutes, QuietTable, WritesNothing, Writing
<1>3. SeqTable(OffersController)
  BY DEF OffersController, OffersService, SeqTable, IsSeq
<1>4. SafeTable("caseOffers", OffersController)
  BY DEF OffersController, OffersService,
         SafeTable, Safe, Refusable, Writing, LateRefusals
<1>5. DOMAIN OffersPublicRoutes \subseteq DOMAIN OffersController
  BY DEF OffersPublicRoutes, OffersController
<1> QED BY <1>1, <1>2, <1>3, <1>4, <1>5 DEF RouterSafe

LEMMA MessagesSafe == RouterSafe("messages", MessagesRoutes, MessagesController)
<1>1. SeqTable(MessagesRoutes)
  BY DEF MessagesRoutes, SeqTable, IsSeq
<1>2. QuietTable(MessagesRoutes)
  BY DEF MessagesRoutes, QuietTable, WritesNothing, Writing
<1>3. SeqTable(MessagesController)
  BY DEF MessagesController, MessagesService, SeqTable, IsSeq
<1>4. SafeTable("messages", MessagesController)
  BY DEF MessagesController, MessagesService,
         SafeTable, Safe, Refusable, Writing, LateRefusals
<1>5. DOMAIN MessagesRoutes \subseteq DOMAIN MessagesController
  BY DEF MessagesRoutes, MessagesController
<1> QED BY <1>1, <1>2, <1>3, <1>4, <1>5 DEF RouterSafe

LEMMA ReviewsSafe == RouterSafe("reviews", ReviewsRoutes, ReviewsController)
<1>1. SeqTable(ReviewsRoutes)
  BY DEF ReviewsRoutes, SeqTable, IsSeq
<1>2. QuietTable(ReviewsRoutes)
  BY DEF ReviewsRoutes, QuietTable, WritesNothing, Writing
<1>3. SeqTable(ReviewsController)
  BY DEF ReviewsController, ReviewsService, SeqTable, IsSeq
<1>4. SafeTable("reviews", ReviewsController)
  BY DEF ReviewsController, ReviewsService,
         SafeTable, Safe, Refusable, Writing, LateRefusals
<1>5. DOMAIN ReviewsRoutes \subseteq DOMAIN ReviewsController
  BY DEF ReviewsRoutes, ReviewsController
<1> QED BY <1>1, <1>2, <1>3, <1>4, <1>5 DEF RouterSafe

LEMMA NotificationsSafe ==
    RouterSafe("notifications", NotificationsRoutes, NotificationsController)
<1>1. SeqTable(NotificationsRoutes)
  BY DEF NotificationsRoutes, SeqTable, IsSeq
<1>2. QuietTable(NotificationsRoutes)
  BY DEF NotificationsRoutes, QuietTable, WritesNothing, Writing
<1>3. SeqTable(NotificationsController)
  BY DEF NotificationsController, NotificationsService, SeqTable, IsSeq
<1>4. SafeTable("notifications", NotificationsController)
  BY DEF NotificationsController, NotificationsService,
         SafeTable, Safe, Refusable, Writing, LateRefusals
<1>5. DOMAIN NotificationsRoutes \subseteq DOMAIN NotificationsController
  BY DEF NotificationsRoutes, NotificationsController
<1> QED BY <1>1, <1>2, <1>3, <1>4, <1>5 DEF RouterSafe

LEMMA InvoicesSafe == RouterSafe("invoices", InvoicesRoutes, InvoicesController)
<1>1. SeqTable(InvoicesRoutes)
  BY DEF InvoicesRoutes, SeqTable, IsSeq
<1>2. QuietTable(InvoicesRoutes)
  BY DEF InvoicesRoutes, QuietTable, WritesNothing, Writing
<1>3. SeqTable(InvoicesController)
  BY DEF InvoicesController, InvoicesService, SeqTable, IsSeq
<1>4. SafeTable("invoices", InvoicesController)
  BY DEF InvoicesController, InvoicesService,
         SafeTable, Safe, Refusable, Writing, LateRefusals
<1>5. DOMAIN InvoicesRoutes \subseteq DOMAIN InvoicesController
  BY DEF InvoicesRoutes, InvoicesController
<1> QED BY <1>1, <1>2, <1>3, <1>4, <1>5 DEF RouterSafe

LEMMA LawyersSafe == RouterSafe("lawyers", LawyersRoutes, LawyersController)
<1>1. SeqTable(LawyersRoutes)
  BY DEF LawyersRoutes, SeqTable, IsSeq
<1>2. QuietTable(LawyersRoutes)
  BY DEF LawyersRoutes, QuietTable, WritesNothing, Writing
<1>3. SeqTable(LawyersController)
  BY DEF LawyersController, LawyersService, SeqTable, IsSeq
<1>4. SafeTable("lawyers", LawyersController)
  BY DEF LawyersController, LawyersService,
         SafeTable, Safe, Refusable, Writing, LateRefusals
<1>5. DOMAIN LawyersRoutes \subseteq DOMAIN LawyersController
  BY DEF LawyersRoutes, LawyersController
<1> QED BY <1>1, <1>2, <1>3, <1>4, <1>5 DEF RouterSafe

LEMMA ClientsSafe == RouterSafe("clients", ClientsRoutes, ClientsController)
<1>1. SeqTable(ClientsRoutes) /\ QuietTable(ClientsRoutes)
  BY CommonGates DEF ClientsRoutes, SeqTable, QuietTable
<1>2. SeqTable(ClientsController)
  BY DEF ClientsController, ClientsService, SeqTable, IsSeq
<1>3. SafeTable("clients", ClientsController)
  BY DEF ClientsController, ClientsService,
         SafeTable, Safe, Refusable, Writing, LateRefusals
<1>4. DOMAIN ClientsRoutes \subseteq DOMAIN ClientsController
  BY DEF ClientsRoutes, ClientsController
<1> QED BY <1>1, <1>2, <1>3, <1>4 DEF RouterSafe

LEMMA AdminSafe == RouterSafe("admin", AdminRoutes, AdminController)
<1>1. SeqTable(AdminRoutes)
  BY DEF AdminRoutes, SeqTable, IsSeq
<1>2. QuietTable(AdminRoutes)
  BY DEF AdminRoutes, QuietTable, WritesNothing, Writing
<1>3. SeqTable(AdminController)
  BY DEF AdminController, AdminService, SeqTable, IsSeq
<1>4. SafeTable("admin", AdminController)
  BY DEF AdminController, AdminService,
         SafeTable, Safe, Refusable, Writing, LateRefusals
<1>5. DOMAIN AdminRoutes \subseteq DOMAIN AdminController
  BY DEF AdminRoutes, AdminController
<1> QED BY <1>1, <1>2, <1>3, <1>4, <1>5 DEF RouterSafe

LEMMA SuperadminSafe == RouterSafe("superadmin", SuperadminRoutes, SuperadminController)
<1>1. SeqTable(SuperadminRoutes) /\ QuietTable(SuperadminRoutes)
  BY CommonGates DEF SuperadminRoutes, SeqTable, QuietTable
<1>2. SeqTable(SuperadminController)
  BY DEF SuperadminController, SuperadminService, SuperadminAdmins, AdminService,
         SeqTable, IsSeq
<1>3. SafeTable("superadmin", SuperadminController)
  BY DEF SuperadminController, SuperadminService, SuperadminAdmins, AdminService,
         SafeTable, Safe, Refusable, Writing, LateRefusals
<1>4. DOMAIN SuperadminRoutes \subseteq DOMAIN SuperadminController
  BY DEF SuperadminRoutes, SuperadminController
<1> QED BY <1>1, <1>2, <1>3, <1>4 DEF RouterSafe

LEMMA PayoutsSafe == RouterSafe("payouts", PayoutsRoutes, PayoutsController)
<1>1. SeqTable(PayoutsRoutes) /\ QuietTable(PayoutsRoutes)
  BY CommonGates DEF PayoutsRoutes, SeqTable, QuietTable
<1>2. SeqTable(PayoutsController)
  BY DEF PayoutsController, PayoutsService, SeqTable, IsSeq
<1>3. SafeTable("payouts", PayoutsController)
  BY DEF PayoutsController, PayoutsService,
         SafeTable, Safe, Refusable, Writing, LateRefusals
<1>4. DOMAIN PayoutsRoutes \subseteq DOMAIN PayoutsController
  BY DEF PayoutsRoutes, PayoutsController
<1> QED BY <1>1, <1>2, <1>3, <1>4 DEF RouterSafe

LEMMA UsersSafe == RouterSafe("users", UsersRoutes, UsersController)
<1>1. SeqTable(UsersRoutes) /\ QuietTable(UsersRoutes)
  BY CommonGates DEF UsersRoutes, SeqTable, QuietTable
<1>2. SeqTable(UsersController)
  BY DEF UsersController, UsersService, SeqTable, IsSeq
<1>3. SafeTable("users", UsersController)
  BY DEF UsersController, UsersService,
         SafeTable, Safe, Refusable, Writing, LateRefusals
<1>4. DOMAIN UsersRoutes \subseteq DOMAIN UsersController
  BY DEF UsersRoutes, UsersController
<1> QED BY <1>1, <1>2, <1>3, <1>4 DEF RouterSafe

LEMMA PaymentsSafe == RouterSafe("payments", PaymentsRoutes, PaymentsController)
<1>1. SeqTable(PaymentsRoutes)
  BY DEF PaymentsRoutes, SeqTable, IsSeq
<1>2. QuietTable(PaymentsRoutes)
  BY DEF PaymentsRoutes, QuietTable, WritesNothing, Writing
<1>3. SeqTable(PaymentsController)
  BY DEF PaymentsController, CreatePaymentSession, VerifyTransaction, WebhookChecks,
         ProcessPaymentEvent, GetPaymentByInvoice, SeqTable, IsSeq
<1>4. SafeTable("payments", PaymentsController)
  BY DEF PaymentsController, CreatePaymentSession, VerifyTransaction, WebhookChecks,
         ProcessPaymentEvent, GetPaymentByInvoice, SafeTable, Safe, Refusable, Writing,
         LateRefusals
<1>5. DOMAIN PaymentsRoutes \subseteq DOMAIN PaymentsController
  BY DEF PaymentsRoutes, PaymentsController
<1> QED BY <1>1, <1>2, <1>3, <1>4, <1>5 DEF RouterSafe

LEMMA RolesSafe == RouterSafe("roles", RolesRoutes, RolesController)
<1>1. SeqTable(RolesRoutes) /\ QuietTable(RolesRoutes)
  BY CommonGates DEF RolesRoutes, SeqTable, QuietTable
<1>2. SeqTable(RolesController)
  BY DEF RolesController, SeqTable, IsSeq
<1>3. SafeTable("roles", RolesController)
  BY DEF RolesController, SafeTable, Safe, Refusable, Writing, LateRefusals
<1>4. DOMAIN RolesRoutes \subseteq DOMAIN RolesController
  BY DEF RolesRoutes, RolesController
<1> QED BY <1>1, <1>2, <1>3, <1>4 DEF RouterSafe

LEMMA AdminsManageSafe == RouterSafe("adminsManage", AdminsRoutes, AdminsController)
<1>1. SeqTable(AdminsRoutes) /\ QuietTable(AdminsRoutes)
  BY CommonGates DEF AdminsRoutes, SeqTable, QuietTable
<1>2. SeqTable(AdminsController)
  BY DEF AdminsController, SeqTable, IsSeq
<1>3. SafeTable("adminsManage", AdminsController)
  BY DEF AdminsController, SafeTable, Safe, Refusable, Writing, LateRefusals
<1>4. DOMAIN AdminsRoutes \subseteq DOMAIN AdminsController
  BY DEF AdminsRoutes, AdminsController
<1> QED BY <1>1, <1>2, <1>3, <1>4 DEF RouterSafe

LEMMA AuditLogsSafe == RouterSafe("auditLogs", AuditRoutes, AuditController)
<1>1. SeqTable(AuditRoutes)
  BY DEF AuditRoutes, SeqTable, IsSeq
<1>2. QuietTable(AuditRoutes)
  BY DEF AuditRoutes, QuietTable, WritesNothing, Writing
<1>3. SeqTable(AuditController)
  BY DEF AuditController, SeqTable, IsSeq
<1>4. SafeTable("auditLogs", AuditController)
  BY DEF AuditController, SafeTable, Safe, Refusable, Writing, LateRefusals
<1>5. DOMAIN AuditRoutes \subseteq DOMAIN AuditController
  BY DEF AuditRoutes, AuditController
<1> QED BY <1>1, <1>2, <1>3, <1>4, <1>5 DEF RouterSafe

LEMMA AppSafe == RouterSafe("app", AppRoutes, AppHandlers)
<1>1. SeqTable(AppRoutes) /\ QuietTable(AppRoutes)
  BY CommonGates DEF AppRoutes, SeqTable, QuietTable
<1>2. SeqTable(AppHandlers)
  BY DEF AppHandlers, SeqTable, IsSeq
<1>3. SafeTable("app", AppHandlers)
  BY DEF AppHandlers, SafeTable, Safe, Refusable, Writing, LateRefusals
<1>4. DOMAIN AppRoutes \subseteq DOMAIN AppHandlers
  BY DEF AppRoutes, AppHandlers
<1> QED BY <1>1, <1>2, <1>3, <1>4 DEF RouterSafe

LEMMA Truth ==
    ASSUME NEW x, NEW S, NEW truth, truth = (x \in S)
    PROVE  truth \in BOOLEAN
BY SMT

(* Every request that may arrive.                                           *)
LEMMA RequestsSafe ==
    ASSUME NEW q \in Requests
    PROVE  IsSeq(q.todo) /\ q.late \in BOOLEAN /\ (q.late \/ Safe(q.todo))
<1>1. PICK m \in DOMAIN Routers : \E h \in DOMAIN Routers[m] :
         q = [todo |-> Routers[m][h], late |-> <<m, h>> \in LateRefusals]
  BY DEF Requests
<1>2. PICK h \in DOMAIN Routers[m] :
         q = [todo |-> Routers[m][h], late |-> <<m, h>> \in LateRefusals]
  BY <1>1
<1>3. IsSeq(Routers[m][h]) /\ (<<m, h>> \in LateRefusals \/ Safe(Routers[m][h]))
  <2>1. CASE m = "auth"
    BY <1>1, <2>1, AuthSafe, BehindSafe DEF Routers
  <2>2. CASE m = "categories"
    BY <1>1, <2>2, CategoriesSafe, BehindSafe DEF Routers
  <2>3. CASE m = "cases"
    BY <1>1, <2>3, CasesSafe, BehindSafe DEF Routers
  <2>4. CASE m = "offers"
    BY <1>1, <2>4, OffersSafe, BehindSafe DEF Routers
  <2>5. CASE m = "caseOffers"
    BY <1>1, <2>5, CaseOffersSafe, BehindSafe DEF Routers
  <2>6. CASE m = "messages"
    BY <1>1, <2>6, MessagesSafe, BehindSafe DEF Routers
  <2>7. CASE m = "reviews"
    BY <1>1, <2>7, ReviewsSafe, BehindSafe DEF Routers
  <2>8. CASE m = "notifications"
    BY <1>1, <2>8, NotificationsSafe, BehindSafe DEF Routers
  <2>9. CASE m = "invoices"
    BY <1>1, <2>9, InvoicesSafe, BehindSafe DEF Routers
  <2>10. CASE m = "lawyers"
    BY <1>1, <2>10, LawyersSafe, BehindSafe DEF Routers
  <2>11. CASE m = "clients"
    BY <1>1, <2>11, ClientsSafe, BehindSafe DEF Routers
  <2>12. CASE m = "admin"
    BY <1>1, <2>12, AdminSafe, BehindSafe DEF Routers
  <2>13. CASE m = "superadmin"
    BY <1>1, <2>13, SuperadminSafe, BehindSafe DEF Routers
  <2>14. CASE m = "payouts"
    BY <1>1, <2>14, PayoutsSafe, BehindSafe DEF Routers
  <2>15. CASE m = "users"
    BY <1>1, <2>15, UsersSafe, BehindSafe DEF Routers
  <2>16. CASE m = "payments"
    BY <1>1, <2>16, PaymentsSafe, BehindSafe DEF Routers
  <2>17. CASE m = "roles"
    BY <1>1, <2>17, RolesSafe, BehindSafe DEF Routers
  <2>18. CASE m = "adminsManage"
    BY <1>1, <2>18, AdminsManageSafe, BehindSafe DEF Routers
  <2>19. CASE m = "auditLogs"
    BY <1>1, <2>19, AuditLogsSafe, BehindSafe DEF Routers
  <2>20. CASE m = "app"
    BY <1>1, <2>20, AppSafe, BehindSafe DEF Routers
  <2> QED
    BY <1>1, <2>1, <2>2, <2>3, <2>4, <2>5, <2>6, <2>7, <2>8, <2>9, <2>10, <2>11,
       <2>12, <2>13, <2>14, <2>15, <2>16, <2>17, <2>18, <2>19, <2>20
       DEF Routers
<1>4. PICK x : x = <<m, h>>
  OBVIOUS
<1>5. PICK late : late = (x \in LateRefusals)
  OBVIOUS
<1>6. late \in BOOLEAN
  BY <1>5, Truth
<1>7. late <=> x \in LateRefusals
  BY <1>5, Zenon
<1>8. q = [todo |-> Routers[m][h], late |-> late]
  BY <1>2, <1>4, <1>5
<1> QED BY <1>3, <1>4, <1>6, <1>7, <1>8

LEMMA TailFacts ==
    ASSUME NEW s, IsSeq(s), s # << >>
    PROVE  /\ IsSeq(Tail(s)) /\ 1 \in DOMAIN s /\ Head(s) = s[1]
           /\ \A i \in DOMAIN Tail(s) : i + 1 \in DOMAIN s /\ Tail(s)[i] = s[i + 1]
                                        /\ i \in Nat /\ i > 0
<1> DEFINE Steps == {s[i] : i \in DOMAIN s}
<1>1. s \in Seq(Steps)
  BY DEF IsSeq
<1> HIDE DEF Steps
<1>2. /\ Tail(s) \in Seq(Steps) /\ Len(s) \in Nat /\ Len(s) > 0 /\ DOMAIN s = 1 .. Len(s)
      /\ Len(Tail(s)) = Len(s) - 1 /\ Head(s) = s[1]
      /\ \A i \in 1 .. Len(s) - 1 : Tail(s)[i] = s[i + 1]
  BY <1>1
<1>3. PICK t \in Seq(Steps) : t = Tail(s)
  BY <1>2
<1>4. Len(t) \in Nat /\ DOMAIN t = 1 .. Len(t) /\ t = [i \in DOMAIN t |-> t[i]]
  OBVIOUS
<1>5. IsSeq(Tail(s))
  BY <1>3, <1>4 DEF IsSeq
<1> QED BY <1>2, <1>3, <1>4, <1>5

(* A request with nothing left to do.                                       *)
LEMMA EmptyOK == IsSeq(<< >>) /\ Safe(<< >>) /\ RefusesNothing(<< >>)
BY DEF IsSeq, Safe, RefusesNothing

LEMMA NoRequestOK == request = NoRequest => UntouchedInv
BY EmptyOK DEF NoRequest, UntouchedInv, RequestOK, RefusedUntouched

LEMMA NoRequestNext == request' = NoRequest => UntouchedInv'
BY EmptyOK DEF NoRequest, UntouchedInv, RequestOK, RefusedUntouched

LEMMA ReceiveUntouched ==
    ASSUME UntouchedInv, Receive
    PROVE  UntouchedInv'
<1>1. PICK q \in Requests :
         request' = [todo |-> q.todo, late |-> q.late, wrote |-> FALSE, answer |-> 0]
  BY DEF Receive
<1>2. IsSeq(q.todo) /\ q.late \in BOOLEAN /\ (q.late \/ Safe(q.todo))
  BY RequestsSafe
<1> QED BY <1>1, <1>2 DEF UntouchedInv, RequestOK, RefusedUntouched

(* An answer, which nothing follows: of a refusal only what was written      *)
(* before counts.                                                           *)
LEMMA RespondUntouched ==
    ASSUME UntouchedInv, NEW status \in Nat, NEW wrote \in BOOLEAN, Respond(status, wrote),
           status \in 400 .. 499 /\ wrote => request.late
    PROVE  UntouchedInv'
<1>1. CASE conn = "waiting"
  <2>1. request' = [request EXCEPT !.todo = << >>, !.wrote = wrote, !.answer = status]
    BY <1>1 DEF Respond
  <2>2. /\ request'.todo = << >> /\ request'.wrote = wrote /\ request'.answer = status
        /\ request'.late = request.late
        /\ request' \in [todo: {<< >>}, late: BOOLEAN, wrote: BOOLEAN, answer: Nat]
    BY <2>1 DEF UntouchedInv, RequestOK
  <2> QED BY <2>2, EmptyOK DEF UntouchedInv, RequestOK, RefusedUntouched
<1>2. CASE conn # "waiting"
  BY <1>2, NoRequestNext DEF Respond
<1> QED BY <1>1, <1>2

(* A step goes by, with or without its effect.                              *)
LEMMA GoOnUntouched ==
    ASSUME UntouchedInv, request.todo # << >>, NEW wrote \in BOOLEAN, GoOn(wrote),
           wrote => request.wrote \/ Head(request.todo) \in Writing
    PROVE  UntouchedInv'
<1>1. CASE Tail(request.todo) = << >>
  <2>1. Respond(200, wrote)
    BY <1>1 DEF GoOn
  <2> QED BY <2>1, RespondUntouched
<1>2. CASE Tail(request.todo) # << >>
  <2>1. PICK s : s = request.todo
    OBVIOUS
  <2>2. request' = [request EXCEPT !.todo = Tail(s), !.wrote = wrote]
    BY <1>2, <2>1 DEF GoOn
  <2>3. /\ request'.todo = Tail(s) /\ request'.wrote = wrote
        /\ request'.answer = request.answer /\ request'.late = request.late
        /\ request' \in [todo: {Tail(s)}, late: BOOLEAN, wrote: BOOLEAN, answer: Nat]
    BY <2>2 DEF UntouchedInv, RequestOK
  <2>4. /\ IsSeq(Tail(s)) /\ 1 \in DOMAIN s /\ Head(s) = s[1]
        /\ \A i \in DOMAIN Tail(s) : i + 1 \in DOMAIN s /\ Tail(s)[i] = s[i + 1]
                                     /\ i \in Nat /\ i > 0
    BY <2>1, TailFacts DEF UntouchedInv, RequestOK
  <2>5. ASSUME Safe(s) PROVE Safe(Tail(s))
    BY <2>4, <2>5 DEF Safe
  <2>6. ASSUME Safe(s), request.wrote => RefusesNothing(s), wrote
        PROVE  RefusesNothing(Tail(s))
    <3>1. CASE request.wrote
      BY <2>4, <2>6, <3>1 DEF RefusesNothing
    <3>2. CASE ~request.wrote
      <4>1. s[1] \in Writing
        BY <2>1, <2>4, <2>6, <3>2
      <4> QED BY <2>4, <2>6, <4>1 DEF RefusesNothing, Safe
    <3> QED BY <3>1, <3>2
  <2>7. ~request.late => Safe(Tail(s)) /\ (wrote => RefusesNothing(Tail(s)))
    BY <2>1, <2>5, <2>6 DEF UntouchedInv
  <2>8. RefusedUntouched'
    <3>1. request.answer = 0
      BY DEF UntouchedInv
    <3> QED BY <2>3, <3>1 DEF RefusedUntouched
  <2>9. request.answer = 0
    BY DEF UntouchedInv
  <2> QED BY <2>3, <2>4, <2>7, <2>8, <2>9 DEF UntouchedInv, RequestOK
<1> QED BY <1>1, <1>2

(* What the kinds say: which steps are refused, and what a failure answers.  *)
LEMMA RefusalKinds ==
    ASSUME NEW kind
    PROVE  /\ kind \notin Refusable => Refusals(kind) = {}
           /\ \A error \in Failures(kind) :
                 \/ error = "Unauthorized" /\ kind = "auth"
                 \/ error \in {"BadGateway", "Error"}
BY DEF Refusals, Refusable, Failures, Databased

LEMMA StatusKinds ==
    /\ \A error : Status(error) \in Nat
    /\ \A error \in {"BadGateway", "Error"} : Status(error) \notin 400 .. 499
BY DEF Status

LEMMA HandleUntouched ==
    ASSUME UntouchedInv, Handle
    PROVE  UntouchedInv'
<1>1. PICK kind : kind = Head(request.todo)
  OBVIOUS
<1>2. /\ request.todo # << >>
      /\ Done(kind) \/ LeftOut(kind) \/ Refused(kind) \/ Failed(kind) \/ BrokenOff(kind)
  BY <1>1, Zenon DEF Handle
<1>3. request.wrote \in BOOLEAN /\ request.late \in BOOLEAN
  BY DEF UntouchedInv, RequestOK
<1>4. request.wrote /\ ~request.late => kind \notin Refusable
  <2>1. 1 \in DOMAIN request.todo /\ kind = request.todo[1]
    BY <1>1, <1>2, TailFacts DEF UntouchedInv, RequestOK
  <2> QED BY <2>1 DEF UntouchedInv, RefusesNothing
<1>5. CASE Done(kind)
  <2>1. PICK wrote : wrote = (request.wrote \/ kind \in Writing)
    OBVIOUS
  <2>2. wrote \in BOOLEAN
    BY <2>1, Zenon
  <2>3. wrote => request.wrote \/ kind \in Writing
    BY <2>1, Zenon
  <2>4. GoOn(wrote)
    BY <1>5, <2>1, Zenon DEF Done
  <2> QED BY <1>1, <1>2, <2>2, <2>3, <2>4, GoOnUntouched
<1>6. CASE LeftOut(kind)
  <2>1. GoOn(request.wrote)
    BY <1>6, Zenon DEF LeftOut
  <2> QED BY <1>2, <1>3, <2>1, GoOnUntouched
<1>7. CASE Refused(kind)
  <2>1. PICK error \in Refusals(kind) : Respond(Status(error), request.wrote)
    BY <1>7, Zenon DEF Refused, HandleError
  <2>2. kind \in Refusable
    BY <2>1, RefusalKinds
  <2>3. request.wrote => request.late
    BY <1>3, <1>4, <2>2, Zenon
  <2> QED BY <1>3, <2>1, <2>3, StatusKinds, RespondUntouched
<1>8. CASE Failed(kind)
  <2>1. PICK error \in Failures(kind), done \in {FALSE, (kind \in Writing)} :
           Respond(Status(error), request.wrote \/ done)
    BY <1>8, Zenon DEF Failed, HandleError
  <2>2. PICK wrote : wrote = (request.wrote \/ done)
    OBVIOUS
  <2>3. wrote \in BOOLEAN
    BY <2>2, Zenon
  <2>4. done => kind \in Writing
    BY <2>1, Zenon
  <2>5. wrote => request.wrote \/ kind \in Writing
    BY <2>2, <2>4, Zenon
  <2>6. Respond(Status(error), wrote)
    BY <2>1, <2>2, Zenon
  <2>7. CASE error = "Unauthorized" /\ kind = "auth"
    <3>1. kind \in Refusable /\ kind \notin Writing
      BY <2>7 DEF Refusable, Writing
    <3>2. wrote => request.late
      BY <1>3, <1>4, <2>5, <3>1, Zenon
    <3> QED BY <2>3, <2>6, <3>2, StatusKinds, RespondUntouched
  <2>8. CASE error \in {"BadGateway", "Error"}
    BY <2>3, <2>6, <2>8, StatusKinds, RespondUntouched
  <2> QED BY <2>1, <2>7, <2>8, RefusalKinds
<1>9. CASE BrokenOff(kind)
  <2>1. request' = [request EXCEPT !.todo = <<"stalled">>]
    BY <1>9 DEF BrokenOff
  <2>2. IsSeq(<<"stalled">>) /\ Safe(<<"stalled">>) /\ RefusesNothing(<<"stalled">>)
    BY DEF IsSeq, Safe, RefusesNothing, Writing, Refusable
  <2>3. /\ request'.todo = <<"stalled">> /\ (request'.wrote <=> request.wrote)
        /\ request'.answer = request.answer /\ (request'.late <=> request.late)
        /\ request' \in [todo: {<<"stalled">>}, late: BOOLEAN, wrote: BOOLEAN, answer: Nat]
    BY <2>1 DEF UntouchedInv, RequestOK
  <2>4. request.answer = 0
    BY <1>2 DEF UntouchedInv
  <2> QED BY <2>2, <2>3, <2>4 DEF UntouchedInv, RequestOK, RefusedUntouched
<1> QED BY <1>2, <1>5, <1>6, <1>7, <1>8, <1>9

LEMMA UntouchedStep == UntouchedInv /\ [Next]_vars => UntouchedInv'
<1> SUFFICES ASSUME UntouchedInv, [Next]_vars PROVE UntouchedInv'
  OBVIOUS
<1>1. ASSUME UNCHANGED request PROVE UntouchedInv'
  BY <1>1 DEF UntouchedInv, RequestOK, RefusedUntouched
<1>2. CASE LifeStep
  <2>1. ASSUME NEW code, Exit(code) PROVE UntouchedInv'
    BY <2>1, NoRequestNext DEF Exit
  <2> QED BY <1>1, <1>2, <2>1
          DEF LifeStep, DatabaseConnects, DatabaseRefuses, GracefulShutdown, HttpServerClosed,
              DatabaseCloses, ShutdownCompletes, ForcedShutdown, UncaughtException
<1>3. CASE HangUp
  BY <1>1, <1>3, NoRequestNext DEF HangUp
<1>4. CASE SocketStep
  BY <1>1, <1>4 DEF SocketStep, Connect, Disconnect, Subscribe
<1>5. CASE UNCHANGED vars
  BY <1>1, <1>5 DEF vars
<1> QED BY <1>2, <1>3, <1>4, <1>5, ReceiveUntouched, HandleUntouched
        DEF Next, LifeStep, SocketStep

(* Once a request has written, no step that may refuse it is left to do, for  *)
(* every handler of every router but those that LateRefusals names.          *)
THEOREM UntouchedInvariance == Spec => []UntouchedInv
<1>1. Init => UntouchedInv
  BY NoRequestOK DEF Init
<1> QED BY <1>1, UntouchedStep, PTL DEF Spec

(* An answer of 4xx says that nothing was written, whatever step of the      *)
(* request's pipeline gave it and whatever was left out or failed before.     *)
THEOREM RefusalsWriteNothing == Spec => []RefusedUntouched
<1>1. UntouchedInv => RefusedUntouched
  BY DEF UntouchedInv
<1> QED BY <1>1, UntouchedInvariance, PTL
=============================================================================
