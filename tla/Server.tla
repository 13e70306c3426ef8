------------------------------- MODULE Server -------------------------------
(***************************************************************************)
(* The process that serves the API: it connects to the database, listens,   *)
(* answers requests through the pipelines of Handlers, keeps the table of   *)
(* the users who are connected by a socket, and shuts down on a signal.     *)
(*                                                                         *)
(* One request is followed at a time; a handler whose client hung up runs   *)
(* on.  At most MaxConnections connections, of HTTP and of sockets, are     *)
(* open at a time (a handler that runs on counts); signals are bounded by    *)
(* MaxSignals.                                                             *)
(***************************************************************************)
EXTENDS Handlers, FiniteSets

CONSTANTS Sockets, Users, None, MaxConnections, MaxSignals

ASSUME NoneAssumption == None \notin Users
ASSUME BoundsAssumption == MaxConnections \in Nat /\ MaxSignals \in Nat

VARIABLES
    process,        \* "up", or how it exited: "done" (0), "failed" (1)
    db,             \* the connection to MongoDB
    http,           \* the listening socket of the HTTP server
    closing,        \* the callbacks of server.close: waiting, or already called
    timer,          \* the timer of a forced shutdown is running
    signals,        \* signals received so far
    conn,           \* the client's HTTP connection
    request,        \* what is left of the request, and what became of it
    userOf,         \* socket.userId of each live socket, None for no socket
    connectedUsers, \* the keys of the map of chat.socket
    disputed        \* users of whom two sockets, or a renamed one, were live

life == <<process, db, http, closing, timer, signals>>
chat == <<userOf, connectedUsers, disputed>>
vars == <<life, conn, request, chat>>

-----------------------------------------------------------------------------
(* What can become of a step of each kind.                                  *)
Optional == {"find?", "check?", "write?", "note?", "cache?", "mail?"}
Databased == {"auth", "perms", "check", "check?", "find", "find?",
              "write", "write?", "note", "note?"}
Writing == {"write", "write?", "note", "note?"}

(* The errors a step can raise before it has any effect, by the kind of     *)
(* step; "AppError" stands for the AppErrors and direct answers of the      *)
(* code, with the statuses the code gives them.                            *)
Refusals(kind) ==
    CASE kind = "parse" -> {"BadBody"}
      [] kind = "limit" -> {"TooMany"}
      [] kind = "auth" -> {"Unauthorized", "Suspended"}
      [] kind \in {"role", "perms"} -> {"Forbidden"}
      [] kind = "validate" -> {"Invalid", "Unauthorized"}
      [] kind = "missing" -> {"NotFound"}
      [] kind \in {"check", "check?"} -> {"CastError", "Invalid", "Forbidden", "NotFound"}
      [] kind \in {"write", "write?"} ->
            {"CastError", "ValidationError", "Duplicate", "NotFound"}
      [] OTHER -> {}

(* A failure of the database or of the provider.  authenticate turns every  *)
(* error into a 401; cache, mail and the health check catch theirs.         *)
Failures(kind) ==
    CASE kind = "auth" -> {"Unauthorized"}
      [] kind = "paymob" -> {"BadGateway"}
      [] kind \in Databased \ {"auth"} -> {"Error"}
      [] OTHER -> {}

(* The status errorHandler answers an error with.                           *)
Status(error) ==
    CASE error \in {"CastError", "NotFound"} -> 404
      [] error \in {"ValidationError", "Duplicate", "Invalid", "BadBody"} -> 400
      [] error = "Unauthorized" -> 401
      [] error \in {"Forbidden", "Suspended"} -> 403
      [] error = "TooMany" -> 429
      [] error = "BadGateway" -> 502
      [] OTHER -> 500

(* The handlers that can still be refused after a first write: a review is   *)
(* stored before its lawyer is looked up; a profile is created after its    *)
(* user; a lawyer's own fields are saved before the user's; the tokens are   *)
(* revoked before the new password is saved.                               *)
LateRefusals ==
    {<<"auth", "register">>, <<"auth", "resetPassword">>, <<"reviews", "create">>,
     <<"lawyers", "create">>, <<"lawyers", "updateMyProfile">>,
     <<"lawyers", "updateById">>}

Requests ==
    UNION {{[todo |-> Routers[m][h], late |-> <<m, h>> \in LateRefusals] :
                h \in DOMAIN Routers[m]} : m \in DOMAIN Routers}

NoRequest == [todo |-> << >>, late |-> FALSE, wrote |-> FALSE, answer |-> 0]

Live == {s \in Sockets : userOf[s] # None}
Named(u) == {s \in Sockets : userOf[s] = u}
Drained == conn = "none" /\ Live = {}

CanConnect ==
    /\ http = "listening"
    /\ Cardinality(Live) + (IF conn = "none" /\ request.todo = << >> THEN 0 ELSE 1)
            < MaxConnections

-----------------------------------------------------------------------------
Init ==
    /\ process = "up" /\ db = "connecting" /\ http = "none"
    /\ closing = "no" /\ timer = FALSE /\ signals = 0
    /\ conn = "none" /\ request = NoRequest
    /\ userOf = [s \in Sockets |-> None] /\ connectedUsers = {} /\ disputed = {}

(* process.exit: the connections go down with the process.                  *)
Exit(code) ==
    /\ process' = code
    /\ db' = "closed" /\ http' = "closed" /\ closing' = "no" /\ timer' = FALSE
    /\ conn' = "none" /\ request' = NoRequest
    /\ userOf' = [s \in Sockets |-> None] /\ connectedUsers' = {} /\ disputed' = {}
    /\ UNCHANGED signals

(* initializeDatabase: appReady resolves and the server listens, also when   *)
(* a signal came meanwhile; or the process exits.                           *)
DatabaseConnects ==
    /\ db = "connecting"
    /\ db' = "open" /\ http' = "listening"
    /\ UNCHANGED <<process, closing, timer, signals, conn, request, chat>>

DatabaseRefuses == db = "connecting" /\ Exit("failed")

\* Mutant: the database is closed without waiting for server.close.
GracefulShutdownAtOnce ==
    /\ signals < MaxSignals
    /\ signals' = signals + 1
    /\ timer' = TRUE
    /\ http' = IF http = "listening" THEN "closing" ELSE http
    /\ closing' = IF http = "none" THEN "early" ELSE "called"
    /\ UNCHANGED <<process, db, conn, request, chat>>

\* Mutant: no timer is set.
GracefulShutdownNoTimer ==
    /\ signals < MaxSignals
    /\ signals' = signals + 1
    /\ http' = IF http = "listening" THEN "closing" ELSE http
    /\ closing' = IF closing # "no" THEN closing
                  ELSE IF http = "none" THEN "early" ELSE "waiting"
    /\ UNCHANGED <<process, db, timer, conn, request, chat>>

(* gracefulShutdown.  server.close stops the listening and calls back when   *)
(* the last connection is gone: at once if the server never listened.       *)
GracefulShutdown ==
    /\ signals < MaxSignals
    /\ signals' = signals + 1
    /\ timer' = TRUE
    /\ http' = IF http = "listening" THEN "closing" ELSE http
    /\ closing' = IF closing # "no" THEN closing
                  ELSE IF http = "none" THEN "early" ELSE "waiting"
    /\ UNCHANGED <<process, db, conn, request, chat>>

HttpServerClosed ==
    /\ http = "closing" /\ Drained
    /\ http' = "closed"
    /\ closing' = IF closing = "waiting" THEN "called" ELSE closing
    /\ UNCHANGED <<process, db, timer, signals, conn, request, chat>>

(* mongoose.connection.close waits for a connection that is being made.     *)
DatabaseCloses ==
    /\ closing \in {"called", "early"} /\ db = "open"
    /\ db' = "closed"
    /\ UNCHANGED <<process, http, closing, timer, signals, conn, request, chat>>

(* The callback ends the process, also when the close of the database fails. *)
ShutdownCompletes ==
    closing \in {"called", "early"} /\ db # "connecting" /\ Exit("done")

ForcedShutdown == timer /\ Exit("failed")

UncaughtException == Exit("failed")

-----------------------------------------------------------------------------
(* A request arrives on a new connection or on one that was kept alive.     *)
Receive ==
    /\ \/ conn = "none" /\ CanConnect
       \/ conn = "idle"
    /\ request.todo = << >>
    /\ \E r \in Requests :
        request' = [todo |-> r.todo, late |-> r.late, wrote |-> FALSE, answer |-> 0]
    /\ conn' = "waiting"
    /\ UNCHANGED <<life, chat>>

(* The handler answers; to nobody, if the client hung up.                   *)
Respond(status, wrote) ==
    IF conn = "waiting"
    THEN /\ request' = [request EXCEPT !.todo = << >>, !.wrote = wrote, !.answer = status]
         /\ conn' = "idle"
    ELSE request' = NoRequest /\ UNCHANGED conn

\* Mutant: an error that is not caught, and so never answered.
HandleErrorLost(error, wrote) == request' = NoRequest /\ UNCHANGED conn

(* next(error): errorHandler answers.                                       *)
HandleError(error, wrote) == Respond(Status(error), wrote)

GoOn(wrote) ==
    IF Tail(request.todo) = << >> THEN Respond(200, wrote)
    ELSE /\ request' = [request EXCEPT !.todo = Tail(@), !.wrote = wrote]
         /\ UNCHANGED conn

AtStep(kind) == request.todo # << >> /\ Head(request.todo) = kind

(* A step is done, left out, refused, or fails, perhaps after its effect.   *)
Done(kind) ==
    /\ kind # "missing"
    /\ kind \in Databased => db = "open"
    /\ GoOn(request.wrote \/ kind \in Writing)

LeftOut(kind) == kind \in Optional /\ GoOn(request.wrote)

Refused(kind) ==
    \E error \in Refusals(kind) :
        /\ kind \in Databased /\ db # "open" =>
                error \in {"CastError", "ValidationError", "Unauthorized"}
        /\ HandleError(error, request.wrote)

Failed(kind) ==
    \E error \in Failures(kind), done \in {FALSE, (kind \in Writing)} :
        HandleError(error, request.wrote \/ done)

(* A call that never settles.  The provider's response breaks off: the       *)
(* promise of paymobRequest settles on "end", "error" and "timeout" of the  *)
(* request only.  Redis hangs on an open connection: the client is created  *)
(* without a commandTimeout, and its retries count lost connections only.   *)
BrokenOff(kind) ==
    /\ kind \in {"paymob", "cache", "cache?"}
    /\ request' = [request EXCEPT !.todo = <<"stalled">>]
    /\ UNCHANGED conn

Stalled == AtStep("stalled")

Handle ==
    /\ request.todo # << >> /\ ~Stalled
    /\ LET kind == Head(request.todo) IN
        \/ Done(kind)
        \/ LeftOut(kind)
        \/ Refused(kind)
        \/ Failed(kind)
        \/ BrokenOff(kind)
    /\ UNCHANGED <<life, chat>>

(* The client closes its connection: an answered or idle one, or one whose   *)
(* handler then runs on without it.                                         *)
HangUp ==
    /\ conn # "none"
    /\ conn' = "none"
    /\ request' = IF request.todo = << >> THEN NoRequest ELSE request
    /\ UNCHANGED <<life, chat>>

-----------------------------------------------------------------------------
(* chat.socket: connection, and the disconnect of a socket.                 *)
Connect(s, u) ==
    /\ CanConnect /\ userOf[s] = None
    /\ userOf' = [userOf EXCEPT ![s] = u]
    /\ connectedUsers' = connectedUsers \union {u}
    /\ disputed' = IF Named(u) = {} THEN disputed ELSE disputed \union {u}
    /\ UNCHANGED <<life, conn, request>>

\* Mutant: the entry of the map stays.
DisconnectStays(s) ==
    /\ userOf[s] # None
    /\ userOf' = [userOf EXCEPT ![s] = None]
    /\ disputed' = {u \in disputed : Named(u) \ {s} # {} \/ u \in connectedUsers'}
    /\ UNCHANGED <<life, conn, request, connectedUsers>>

Disconnect(s) ==
    /\ userOf[s] # None
    /\ connectedUsers' = connectedUsers \ {userOf[s]}
    /\ userOf' = [userOf EXCEPT ![s] = None]
    /\ disputed' = {u \in disputed : Named(u) \ {s} # {} \/ u \in connectedUsers'}
    /\ UNCHANGED <<life, conn, request>>

(* notification.socket: subscribe_notifications sets the socket's userId.   *)
Subscribe(s, u) ==
    /\ userOf[s] \notin {None, u}
    /\ userOf' = [userOf EXCEPT ![s] = u]
    /\ disputed' = disputed \union {userOf[s], u}
    /\ UNCHANGED <<life, conn, request, connectedUsers>>

Next ==
    /\ process = "up"
    /\ \/ DatabaseConnects \/ DatabaseRefuses
       \/ GracefulShutdown \/ HttpServerClosed \/ DatabaseCloses
       \/ ShutdownCompletes \/ ForcedShutdown \/ UncaughtException
       \/ Receive \/ Handle \/ HangUp
       \/ \E s \in Sockets : Disconnect(s) \/ \E u \in Users : Connect(s, u) \/ Subscribe(s, u)

(* A handler's calls end, but for those that BrokenOff names: MongoDB's and   *)
(* Paymob's have timeouts, the mail's give up.  A timer fires.              *)
Spec == Init /\ [][Next]_vars
        /\ WF_vars(process = "up" /\ Handle)
        /\ WF_vars(process = "up" /\ ForcedShutdown)

-----------------------------------------------------------------------------
TypeOK ==
    /\ process \in {"up", "done", "failed"}
    /\ db \in {"connecting", "open", "closed"}
    /\ http \in {"none", "listening", "closing", "closed"}
    /\ closing \in {"no", "waiting", "called", "early"}
    /\ timer \in BOOLEAN /\ signals \in 0..MaxSignals
    /\ conn \in {"none", "waiting", "idle"}
    /\ userOf \in [Sockets -> Users \union {None}]
    /\ connectedUsers \subseteq Users /\ disputed \subseteq Users

(* The map says a user is connected exactly while a socket carries the       *)
(* user's id, except for a user of whom two sockets were live together, or   *)
(* whose socket took or gave up the id by subscribing to notifications: the  *)
(* disconnect of one socket removes the entry of the others, and an entry    *)
(* is removed under the id the socket has last.                            *)
PresenceAgrees ==
    \A u \in Users \ disputed : u \in connectedUsers <=> Named(u) # {}

(* The database is closed under no client: the callback of server.close      *)
(* runs when the last connection, of HTTP or of a socket, is gone.  The one  *)
(* exception is a signal that came before the server listened: the server   *)
(* then starts to listen while the database is being closed.                *)
DatabaseOutlastsClients ==
    process = "up" /\ db = "closed" /\ closing # "early" => Drained

(* A request that is answered 4xx has written nothing, for every handler but *)
(* those that LateRefusals names.                                           *)
RefusedUntouched ==
    request.answer \in 400..499 /\ request.wrote => request.late

(* What holds in every state: the types and the presence of users.          *)
IInv == TypeOK /\ PresenceAgrees

(* Whoever waits for an answer gets one, whatever its handler meets: unless   *)
(* the process ends, a response of the payment provider breaks off, or the  *)
(* cache hangs.                                                             *)
Answered == conn = "waiting" ~> conn # "waiting" \/ Stalled

(* After a signal the process ends, whoever stays connected.                *)
Stops == signals > 0 ~> process # "up"
=============================================================================
