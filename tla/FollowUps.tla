------------------------------ MODULE FollowUps ------------------------------
(***************************************************************************)
(* What follows a hiring: the messages of a case, the reviews of a lawyer, *)
(* and the lists in which they and everything else are read (Lists).  The  *)
(* three share no document, so a behaviour is about one of them.           *)
(*                                                                         *)
(* One action is one awaited call.  Reads of documents that do not change  *)
(* here are part of the action of the call before them.                    *)
(***************************************************************************)
EXTENDS Lists

CONSTANTS
    Client,         \* the user of the client whose case it is
    Admin,          \* a user whose role is admin
    Lawyers,        \* users who are lawyers; each stands for its profile, too
    PageSize,       \* messages in the only page the controller asks for: 50
    MaxMessages,    \* the bound on messages
    ReviewIds,      \* ids of reviews: two of one case need two
    Reviewed,       \* completed cases of the client
    MaxTotal,       \* the bound on how far total_reviews may drift
    Requests,       \* requests being served at the same time
    None,           \* null
    RequestsFail    \* whether a request may die between two calls

ASSUME PartiesAssumption == Client # Admin /\ {Client, Admin} \cap Lawyers = {}

ASSUME NobodyAssumption ==
    None \notin {Client, Admin} \cup Lawyers \cup Reviewed \cup ReviewIds

ASSUME PageAssumption == PageSize \in Nat \ {0} /\ MaxMessages \in Nat /\ MaxTotal \in Nat

ASSUME FailAssumption == RequestsFail \in BOOLEAN

ASSUME FiniteAssumption == IsFiniteSet(Requests) /\ IsFiniteSet(ReviewIds)

VARIABLES
    topic,          \* "messages", "reviews" or "lists"
    case,           \* the case of the messages, or one that was completed: whether it is
                    \* there, and its lawyer
    profiles,       \* the lawyers whose profile is there
    thread,         \* the messages of the case, oldest first
    reviews,        \* the case of each review, None where there is none
    total,          \* total_reviews of the lawyer who is reviewed
    drifted,        \* history: a review was deleted by the super admin, or a request that
                    \* had to count one died
    requests        \* what each request in flight has read and does next

vars == <<topic, case, profiles, thread, reviews, total, drifted, requests, walkVars>>

messageVars == <<case, profiles, thread>>
reviewVars == <<reviews, total, drifted>>

(***************************************************************************)
(* Documents.  known says of a message that it was shown to a party who    *)
(* did not send it ("shown"), that it was sent while a reader was between  *)
(* fetching and marking or that a reader died before it had answered       *)
(* ("missed"), or neither.                                                 *)
(***************************************************************************)
Users == {Client, Admin} \cup Lawyers

Message == [sender: Users, read: BOOLEAN, known: {"no", "shown", "missed"}]

MessageSteps == {"case", "access", "find", "mark", "answer", "insert", "notify"}
ReviewSteps == {"check", "create", "lookupNew", "plus", "tell", "remove", "lookupOld", "minus"}

\* user, op and lawyer are what a request about messages needs: lawyer is the one of the
\* case as it was read first.  upto counts the messages that were fetched.  target is for
\* a request about reviews: the case of a new one, or the id of the one to delete.
Request == [at: {"idle"} \cup MessageSteps \cup ReviewSteps, user: Users \cup {None},
            op: {"getByCase", "createMessage", None}, lawyer: Lawyers \cup {None},
            upto: Nat, target: Reviewed \cup ReviewIds \cup {None}]

Idle == [at |-> "idle", user |-> None, op |-> None, lawyer |-> None, upto |-> 0, target |-> None]

At(r, step) == requests[r].at = step
Become(r, state) == requests' = [requests EXCEPT ![r] = state]
Goto(r, step) == Become(r, [requests[r] EXCEPT !.at = step])
Finish(r) == Become(r, Idle)

OnlyRequests == UNCHANGED <<topic, messageVars, reviewVars, walkVars>>

TypeOK ==
    /\ WalkTypeOK
    /\ topic \in {"messages", "reviews", "lists"}
    /\ case \in [there: BOOLEAN, lawyer: Lawyers \cup {None}]
    /\ profiles \subseteq Lawyers
    /\ thread \in Seq(Message) /\ Len(thread) <= MaxMessages
    /\ reviews \in [ReviewIds -> Reviewed \cup {None}]
    /\ total \in Int
    /\ drifted \in BOOLEAN
    /\ requests \in [Requests -> Request]

Init ==
    /\ topic \in {"messages", "reviews", "lists"}
    /\ \E l \in Lawyers :
          case = [there |-> TRUE, lawyer |-> IF topic = "reviews" THEN l ELSE None]
    /\ profiles = Lawyers
    /\ thread = <<>>
    /\ reviews = [i \in ReviewIds |-> None]
    /\ total = 0
    /\ drifted = FALSE
    /\ requests = [r \in Requests |-> Idle]
    /\ IF topic = "lists" THEN WalkInit
       ELSE /\ list = GetAuditLogs /\ walk = Off
            /\ rows = [r \in Rows |-> "absent"] /\ rank = [r \in Rows |-> 0]

(***************************************************************************)
(* Messages.  Both handlers read the case and answer 404 when it is gone;  *)
(* then checkCaseAccess reads it again.                                    *)
(***************************************************************************)
Ask(r) ==
    /\ topic = "messages" /\ At(r, "idle")
    /\ \E op \in {"getByCase", "createMessage"} :
          /\ op = "createMessage" => Len(thread) < MaxMessages
          /\ Become(r, [Idle EXCEPT !.at = "case", !.op = op])
    /\ OnlyRequests

ReadCase(r) ==
    LET q == requests[r] IN
    /\ At(r, "case")
    /\ IF case.there
       THEN Become(r, [q EXCEPT !.at = "access",
                                !.lawyer = IF q.op = "createMessage" THEN case.lawyer ELSE None])
       ELSE Finish(r)
    /\ OnlyRequests

HasAccess(u) ==
    case.there /\ (u \in {Admin, Client} \/ (u = case.lawyer /\ u \in profiles))

\* Which user asks is left open until it matters.
CheckCaseAccess(r) ==
    LET q == requests[r] IN
    /\ At(r, "access")
    /\ \E u \in Users :
          IF HasAccess(u)
          THEN Become(r, [q EXCEPT !.at = IF q.op = "getByCase" THEN "find" ELSE "insert",
                                   !.op = None, !.user = u])
          ELSE Finish(r)
    /\ OnlyRequests

\* find with skip 0 and limit PageSize, then countDocuments; an admin marks nothing.
FindMessages(r) ==
    LET q == requests[r] IN
    /\ At(r, "find")
    /\ Become(r, [q EXCEPT !.at = IF q.user = Admin THEN "answer" ELSE "mark",
                           !.upto = IF Len(thread) < PageSize THEN Len(thread) ELSE PageSize])
    /\ OnlyRequests

\* Mutant: the sender's own messages are marked, too.
MarkReadAll(r) ==
    /\ At(r, "mark")
    /\ thread' = [i \in DOMAIN thread |-> [thread[i] EXCEPT !.read = TRUE]]
    /\ Goto(r, "answer")
    /\ UNCHANGED <<topic, case, profiles, reviewVars, walkVars>>

\* updateMany: every unread message of the case that the user did not send.
MarkRead(r) ==
    /\ At(r, "mark")
    /\ thread' = [i \in DOMAIN thread |->
           [thread[i] EXCEPT !.read = @ \/ thread[i].sender # requests[r].user]]
    /\ Goto(r, "answer")
    /\ UNCHANGED <<topic, case, profiles, reviewVars, walkVars>>

\* Those of its messages that the answer of q shows to somebody who did not send them.
Fetched(q, i) == i <= q.upto /\ thread[i].sender # q.user

AnswerMessages(r) ==
    LET q == requests[r] IN
    /\ At(r, "answer")
    /\ thread' = IF q.user = Admin THEN thread
                 ELSE [i \in DOMAIN thread |->
                          IF Fetched(q, i) THEN [thread[i] EXCEPT !.known = "shown"] ELSE thread[i]]
    /\ Finish(r)
    /\ UNCHANGED <<topic, case, profiles, reviewVars, walkVars>>

\* The case's lawyer as it was read first, unless that is the sender or the profile has
\* gone; the client, unless that is the sender.
Receiver(q) ==
    IF q.lawyer \in profiles \ {q.user} THEN q.lawyer
    ELSE IF q.user # Client THEN Client ELSE None

BeingRead == \E s \in Requests : At(s, "mark")

\* receiver_id is required: Message.create throws without one.
InsertMessage(r) ==
    LET q == requests[r] IN
    /\ At(r, "insert")
    /\ IF Receiver(q) = None \/ Len(thread) = MaxMessages
       THEN Finish(r) /\ UNCHANGED thread
       ELSE /\ thread' = Append(thread,
                   [sender |-> q.user, read |-> FALSE,
                    known |-> IF BeingRead THEN "missed" ELSE "no"])
            /\ Become(r, [Idle EXCEPT !.at = "notify"])
    /\ UNCHANGED <<topic, case, profiles, reviewVars, walkVars>>

\* Notification.create for the receiver, and the message is read back.
NotifyReceiver(r) ==
    /\ At(r, "notify")
    /\ Finish(r)
    /\ OnlyRequests

\* What Offers does to the case: an accepted offer sets its lawyer, and it may be deleted.
CaseChanges ==
    /\ topic = "messages" /\ case.there
    /\ \/ \E l \in Lawyers : case' = [case EXCEPT !.lawyer = l]
       \/ case' = [there |-> FALSE, lawyer |-> None]
    /\ UNCHANGED <<topic, profiles, thread, reviewVars, walkVars, requests>>

ProfileDeleted ==
    /\ topic \in {"messages", "reviews"}
    /\ \E l \in profiles : profiles' = profiles \ {l}
    /\ UNCHANGED <<topic, case, thread, reviewVars, walkVars, requests>>

(***************************************************************************)
(* Reviews of one lawyer, by the client of completed cases.  The checks of *)
(* the case find what does not change any more, and are part of AskReview. *)
(***************************************************************************)
Reviewee == case.lawyer

AskReview(r) ==
    /\ topic = "reviews" /\ At(r, "idle") /\ total \in -MaxTotal .. MaxTotal
    /\ \/ \E k \in Reviewed : Become(r, [Idle EXCEPT !.at = "check", !.target = k])
       \/ \E i \in ReviewIds :
             reviews[i] # None /\ Become(r, [Idle EXCEPT !.at = "remove", !.target = i])
    /\ OnlyRequests

Exists(k) == \E i \in ReviewIds : reviews[i] = k

CheckReview(r) ==
    /\ At(r, "check")
    /\ IF Exists(requests[r].target) THEN Finish(r) ELSE Goto(r, "create")
    /\ OnlyRequests

\* Ids are not used again while a request is after them.
FreeIds == {i \in ReviewIds : reviews[i] = None /\ \A r \in Requests : requests[r].target # i}

\* The unique index on reviewer and case refuses a second one.
CreateReview(r) ==
    LET k == requests[r].target IN
    /\ At(r, "create")
    /\ IF Exists(k)
       THEN Finish(r) /\ UNCHANGED reviews
       ELSE /\ \E i \in FreeIds : reviews' = [reviews EXCEPT ![i] = k]
            /\ Become(r, [Idle EXCEPT !.at = "lookupNew"])
    /\ UNCHANGED <<topic, messageVars, total, drifted, walkVars>>

\* Lawyer.findById: a creation answers 404 when it is gone, a deletion leaves it at that.
LookUpLawyer(r) ==
    /\ requests[r].at \in {"lookupNew", "lookupOld"}
    /\ IF Reviewee \in profiles THEN Goto(r, IF At(r, "lookupNew") THEN "plus" ELSE "minus")
       ELSE Finish(r)
    /\ OnlyRequests

\* $inc by 1 and by -1; of a lawyer that is gone, nothing.
CountReview(r) ==
    /\ requests[r].at \in {"plus", "minus"}
    /\ total' = IF Reviewee \notin profiles THEN total
                ELSE IF At(r, "plus") THEN total + 1 ELSE total - 1
    /\ IF At(r, "plus") THEN Become(r, [Idle EXCEPT !.at = "tell"]) ELSE Finish(r)
    /\ UNCHANGED <<topic, messageVars, reviews, drifted, walkVars>>

\* The notification, and the review is read back.
NotifyLawyer(r) ==
    /\ At(r, "tell")
    /\ Finish(r)
    /\ OnlyRequests

\* Mutant: the review is deleted as deleteReview of the super admin does it, after it was
\* found by an earlier call.
RemoveReviewFound(r) ==
    /\ At(r, "remove")
    /\ reviews' = [reviews EXCEPT ![requests[r].target] = None]
    /\ Become(r, [Idle EXCEPT !.at = "lookupOld"])
    /\ UNCHANGED <<topic, messageVars, total, drifted, walkVars>>

\* findByIdAndDelete, 404 when it found none.
RemoveReview(r) ==
    LET i == requests[r].target IN
    /\ At(r, "remove")
    /\ IF reviews[i] # None
       THEN /\ reviews' = [reviews EXCEPT ![i] = None]
            /\ Become(r, [Idle EXCEPT !.at = "lookupOld"])
       ELSE Finish(r) /\ UNCHANGED reviews
    /\ UNCHANGED <<topic, messageVars, total, drifted, walkVars>>

\* SuperadminService.deleteReview: nobody is told, and the count stays.
DeleteReview ==
    /\ topic = "reviews"
    /\ \E i \in ReviewIds :
          reviews[i] # None /\ reviews' = [reviews EXCEPT ![i] = None]
    /\ drifted' = TRUE
    /\ UNCHANGED <<topic, messageVars, total, walkVars, requests>>

(***************************************************************************)
(* Failures and the specification.                                         *)
(***************************************************************************)
Counting == {"lookupNew", "plus", "lookupOld", "minus"}

Fail(r) ==
    LET q == requests[r] IN
    /\ RequestsFail /\ ~At(r, "idle")
    /\ Finish(r)
    /\ drifted' = (drifted \/ q.at \in Counting)
    /\ thread' = [i \in DOMAIN thread |->
           IF At(r, "answer") /\ Fetched(q, i) /\ thread[i].known = "no"
           THEN [thread[i] EXCEPT !.known = "missed"] ELSE thread[i]]
    /\ UNCHANGED <<topic, case, profiles, reviews, total, walkVars>>

Messages(r) ==
    \/ Ask(r) \/ ReadCase(r) \/ CheckCaseAccess(r) \/ FindMessages(r) \/ MarkRead(r)
    \/ AnswerMessages(r) \/ InsertMessage(r) \/ NotifyReceiver(r)

Reviews(r) ==
    \/ AskReview(r) \/ CheckReview(r) \/ CreateReview(r) \/ LookUpLawyer(r)
    \/ CountReview(r) \/ NotifyLawyer(r) \/ RemoveReview(r)

ListsNext ==
    topic = "lists" /\ WalkNext /\ UNCHANGED <<topic, messageVars, reviewVars, requests>>

Next ==
    \/ \E r \in Requests : Messages(r) \/ Reviews(r) \/ Fail(r)
    \/ CaseChanges \/ ProfileDeleted \/ DeleteReview \/ ListsNext

Spec == Init /\ [][Next]_vars

(***************************************************************************)
(* Properties.                                                             *)
(***************************************************************************)
\* A request whose answer is on its way will show message i.
Answering(i) == \E r \in Requests : At(r, "answer") /\ requests[r].user # Admin
                                    /\ Fetched(requests[r], i)

\* A message of the first page is read only when a party who did not send it was shown it,
\* or is about to be, unless it was sent while a reader was at work or a reader failed.
\* Those after the first page are marked unseen.
ReadWasShown ==
    \A i \in DOMAIN thread :
        i <= PageSize /\ thread[i].read => thread[i].known # "no" \/ Answering(i)

\* As long as the lawyer is there, total_reviews is the number of reviews, but for the
\* requests that are still to count one; a deletion by the super admin is never counted.
Live == {i \in ReviewIds : reviews[i] # None}
Steps(S) == {r \in Requests : requests[r].at \in S}

TotalExplained ==
    ~drifted /\ Reviewee \in profiles =>
        total + Cardinality(Steps({"lookupNew", "plus"}))
            = Cardinality(Live) + Cardinality(Steps({"lookupOld", "minus"}))

\* However two creations overlap, a case has one review.
OneReviewPerCase ==
    \A i, j \in ReviewIds : reviews[i] # None /\ reviews[i] = reviews[j] => i = j

(***************************************************************************)
(* The inductive invariant.                                                *)
(***************************************************************************)
\* What is known of a request about messages: a reader that marks holds all of the first
\* page that was not sent since, and nobody but the admin skips the marking.
SlotOK(q) ==
    /\ q.at \in {"find", "mark", "answer", "insert"} => q.user \in Users
    /\ q.at \in {"case", "access"} => q.op \in {"getByCase", "createMessage"}
    /\ q.at = "mark" =>
          /\ q.user # Admin
          /\ \A i \in DOMAIN thread : i <= PageSize /\ thread[i].known = "no" => i <= q.upto
    /\ q.at \in {"check", "create"} => q.target \in Reviewed
    /\ q.at = "remove" => q.target \in ReviewIds
    /\ q.at \in ReviewSteps => topic = "reviews"

\* Nothing happens to reviews in a behaviour that is about something else.
OtherTopic == topic # "reviews" => total = 0 /\ \A i \in ReviewIds : reviews[i] = None

IInv ==
    /\ TypeOK
    /\ ReadWasShown /\ TotalExplained /\ OneReviewPerCase
    /\ OtherTopic
    /\ \A r \in Requests : SlotOK(requests[r])
=============================================================================
