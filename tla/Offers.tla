------------------------------- MODULE Offers -------------------------------
(***************************************************************************)
(* Cases and the offers lawyers make on them: CaseService and OfferService *)
(* over the MongoDB collections Case, Offer, Lawyer and Notification.      *)
(*                                                                         *)
(* The server keeps no state of its own between requests.  A request is a  *)
(* chain of awaited database calls; several Node processes serve requests  *)
(* at once and no transaction spans two calls, so one action here is one   *)
(* database call and the calls of different requests interleave.  What a   *)
(* request read earlier is kept in its slot and may be stale when used.    *)
(* save() writes only the paths that differ from what was read.  Of the    *)
(* notifications only "offer_accepted" is kept (told); a request that has  *)
(* nothing left to do but to insert another one frees its slot.            *)
(*                                                                         *)
(* Validation keeps the fields of a body that it does not know             *)
(* (allowUnknown, validate.middleware.js), and a new offer or case is made *)
(* of the whole body: it has the status, and a case the lawyer, accepted   *)
(* offer and count, that the body names, or the schema's defaults.  A      *)
(* field is given a value of its type, and no body names the document's    *)
(* own _id.                                                                *)
(*                                                                         *)
(* An early return that wrote nothing is a step that frees the slot, or no *)
(* step at all when it is the first check of a request.                    *)
(***************************************************************************)
EXTENDS Naturals, FiniteSets

CONSTANTS
    Cases,          \* ids of cases; each is created at most once
    Lawyers,        \* lawyer profiles
    OfferIds,       \* ids of offers; an ObjectId is never reused
    Requests,       \* requests being served at the same time
    None,           \* null
    NewStatuses,    \* statuses that callers of updateStatus send
    OfferBodies,    \* statuses of new offers: what the bodies name, or pending
    CaseBodies,     \* what new cases are made of: what the bodies name, or defaults
    Leaving,        \* lawyers whose profile an admin may delete
    AdminDeletes,   \* whether admins use their unconditional deletes
    RequestsFail    \* whether a request may die between two calls

ASSUME NoneAssumption == None \notin Cases \cup Lawyers \cup OfferIds

ASSUME StatusAssumption ==
    NewStatuses \subseteq {"open", "in_progress", "completed", "cancelled"}

ASSUME LeavingAssumption == Leaving \subseteq Lawyers

ASSUME SwitchAssumption == AdminDeletes \in BOOLEAN /\ RequestsFail \in BOOLEAN

ASSUME FiniteAssumption == IsFiniteSet(OfferIds) /\ IsFiniteSet(Requests)

VARIABLES
    offers,         \* the Offer collection
    cases,          \* the Case collection
    profiles,       \* the Lawyer documents that exist
    lawyerOffers,   \* Lawyer.offers_count
    told,           \* offers with an "offer_accepted" Notification
    requests,       \* what each request in flight has read and does next
    won,            \* history: offers that acceptOffer saved as accepted
    recorded,       \* history: offers whose acceptance was saved in their case
    posted          \* history: accepted offer and count a case was created with

dbVars == <<offers, cases, profiles, lawyerOffers, told>>
history == <<won, recorded, posted>>
vars == <<dbVars, requests, history>>

(***************************************************************************)
(* Documents.                                                              *)
(***************************************************************************)
CaseStatus == {"open", "in_progress", "completed", "cancelled"}
Gone == {"unused", "deleted"}

OfferDoc == [st: {"pending", "accepted", "rejected"} \cup Gone,
             case: Cases \cup {None}, lawyer: Lawyers \cup {None}]

CaseDoc == [st: CaseStatus \cup Gone, lawyer: Lawyers \cup {None},
            accepted: OfferIds \cup {None}, count: Nat]

NoDoc == [st |-> "unused", lawyer |-> None, accepted |-> None, count |-> 0]
Posting == [accepted: OfferIds \cup {None}, count: Nat]

ASSUME BodyAssumption ==
    /\ OfferBodies \subseteq {"pending", "accepted", "rejected"}
    /\ CaseBodies \subseteq [st: CaseStatus, lawyer: Lawyers \cup {None},
                            accepted: OfferIds \cup {None}, count: Nat]

LiveOffer(o) == offers[o].st \notin Gone
LiveCase(c) == cases[c].st \notin Gone

\* The unique index on (case, lawyer) has no room for another document.
PairTaken(c, l) ==
    \E o \in OfferIds : LiveOffer(o) /\ offers[o].case = c /\ offers[o].lawyer = l

PendingOn(c) == {o \in OfferIds : offers[o].st = "pending" /\ offers[o].case = c}

(***************************************************************************)
(* Requests.  pc names the database call that comes next; doc is what this *)
(* request read of the Case document; todo are the offers the request's    *)
(* updateMany has still to visit; new is the status to write.              *)
(***************************************************************************)
Steps == {"idle",
          "create_find", "create_insert", "create_count",
          "accept_case", "accept_reject", "accept_save",
          "accept_case_save", "accept_count", "accept_notify",
          "reject_case", "reject_save",
          "offer_delete", "case_delete", "status_save"}

CaseRead == [st: CaseStatus \cup Gone, lawyer: Lawyers \cup {None},
             accepted: OfferIds \cup {None}]

NothingRead == [st |-> "unused", lawyer |-> None, accepted |-> None]

Read(c) == [st |-> cases[c].st, lawyer |-> cases[c].lawyer, accepted |-> cases[c].accepted]

Idle == [pc |-> "idle", offer |-> None, case |-> None, lawyer |-> None,
         doc |-> NothingRead, todo |-> {}, new |-> "open"]

Request == [pc: Steps, offer: OfferIds \cup {None}, case: Cases \cup {None},
            lawyer: Lawyers \cup {None}, doc: CaseRead,
            todo: SUBSET OfferIds, new: CaseStatus]

At(r, step) == requests[r].pc = step
Become(r, state) == requests' = [requests EXCEPT ![r] = state]
Goto(r, step) == Become(r, [requests[r] EXCEPT !.pc = step])
Finish(r) == Become(r, Idle)

TypeOK ==
    /\ offers \in [OfferIds -> OfferDoc]
    /\ cases \in [Cases -> CaseDoc]
    /\ profiles \subseteq Lawyers
    /\ lawyerOffers \in [Lawyers -> Nat]
    /\ told \subseteq OfferIds
    /\ requests \in [Requests -> Request]
    /\ won \subseteq OfferIds
    /\ recorded \subseteq OfferIds
    /\ posted \in [Cases -> Posting]

Init ==
    /\ offers = [o \in OfferIds |-> [st |-> "unused", case |-> None, lawyer |-> None]]
    /\ cases = [c \in Cases |-> NoDoc]
    /\ profiles = Lawyers
    /\ lawyerOffers = [l \in Lawyers |-> 0]
    /\ told = {}
    /\ requests = [r \in Requests |-> Idle]
    /\ won = {}
    /\ recorded = {}
    /\ posted = [c \in Cases |-> [accepted |-> None, count |-> 0]]

(***************************************************************************)
(* Cases: create, delete and updateStatus.  CaseService.update writes only *)
(* title, description, city and budget, none of which is modelled.         *)
(***************************************************************************)
CreateCase(c) ==
    /\ cases[c].st = "unused"
    /\ \E b \in CaseBodies :
          /\ cases' = [cases EXCEPT ![c] = b]
          /\ posted' = [posted EXCEPT ![c] = [accepted |-> b.accepted, count |-> b.count]]
    /\ UNCHANGED <<offers, profiles, lawyerOffers, told, requests, won, recorded>>

ReadCaseForDelete(r, c) ==
    /\ At(r, "idle")
    /\ LiveCase(c)
    /\ AdminDeletes \/ cases[c].st = "open"
    /\ Become(r, [Idle EXCEPT !.pc = "case_delete", !.case = c])
    /\ UNCHANGED <<dbVars, history>>

\* findByIdAndDelete: no offer, invoice or review of the case is touched.
DeleteCase(r) ==
    /\ At(r, "case_delete")
    /\ cases' = [cases EXCEPT ![requests[r].case] = [NoDoc EXCEPT !.st = "deleted"]]
    /\ Finish(r)
    /\ UNCHANGED <<offers, profiles, lawyerOffers, told, history>>

ReadCaseForStatus(r, c, s) ==
    /\ At(r, "idle")
    /\ LiveCase(c)
    /\ Become(r, [Idle EXCEPT !.pc = "status_save", !.case = c, !.doc = [NothingRead EXCEPT !.st = cases[c].st],
                              !.new = s])
    /\ UNCHANGED <<dbVars, history>>

SaveStatus(r) ==
    LET req == requests[r] IN
    /\ At(r, "status_save")
    /\ cases' = IF LiveCase(req.case) /\ req.new # req.doc.st
                THEN [cases EXCEPT ![req.case].st = req.new]
                ELSE cases
    /\ Finish(r)
    /\ UNCHANGED <<offers, profiles, lawyerOffers, told, history>>

(***************************************************************************)
(* OfferService.create.                                                    *)
(***************************************************************************)
\* The bound on offers: a request is let in only if an id is left for its insert.
IdLeft ==
    Cardinality({r \in Requests : requests[r].pc \in {"create_find", "create_insert"}})
        < Cardinality({o \in OfferIds : offers[o].st = "unused"})

\* Mutant: the status of the case is not checked.
ReadCaseForOfferAnyStatus(r, c, l) ==
    /\ At(r, "idle")
    /\ l \in profiles
    /\ LiveCase(c)
    /\ IdLeft
    /\ Become(r, [Idle EXCEPT !.pc = "create_find", !.case = c, !.lawyer = l])
    /\ UNCHANGED <<dbVars, history>>

ReadCaseForOffer(r, c, l) ==
    /\ At(r, "idle")
    /\ l \in profiles
    /\ cases[c].st = "open"
    /\ IdLeft
    /\ Become(r, [Idle EXCEPT !.pc = "create_find", !.case = c, !.lawyer = l])
    /\ UNCHANGED <<dbVars, history>>

\* Mutant: the duplicate is found and the throw is forgotten.
FindExistingOfferNoThrow(r) ==
    /\ At(r, "create_find")
    /\ IF PairTaken(requests[r].case, requests[r].lawyer)
       THEN Goto(r, "create_count")
       ELSE Goto(r, "create_insert")
    /\ UNCHANGED <<dbVars, history>>

FindExistingOffer(r) ==
    /\ At(r, "create_find")
    /\ IF PairTaken(requests[r].case, requests[r].lawyer)
       THEN Finish(r)
       ELSE Goto(r, "create_insert")
    /\ UNCHANGED <<dbVars, history>>

\* Mutant: the collection has no unique index.
InsertOfferNoIndex(r) ==
    LET req == requests[r] IN
    /\ At(r, "create_insert")
    /\ \E o \in OfferIds, s \in OfferBodies :
          /\ offers[o].st = "unused"
          /\ offers' = [offers EXCEPT ![o] =
                 [st |-> s, case |-> req.case, lawyer |-> req.lawyer]]
          /\ Become(r, [req EXCEPT !.pc = "create_count", !.offer = o])
    /\ UNCHANGED <<cases, profiles, lawyerOffers, told, history>>

InsertOffer(r) ==
    LET req == requests[r] IN
    /\ At(r, "create_insert")
    /\ \/ /\ PairTaken(req.case, req.lawyer)        \* duplicate key error
          /\ Finish(r)
          /\ UNCHANGED offers
       \/ /\ ~PairTaken(req.case, req.lawyer)
          /\ \E o \in OfferIds, s \in OfferBodies :
                /\ offers[o].st = "unused"
                /\ offers' = [offers EXCEPT ![o] =
                       [st |-> s, case |-> req.case, lawyer |-> req.lawyer]]
                /\ Become(r, [req EXCEPT !.pc = "create_count", !.offer = o])
    /\ UNCHANGED <<cases, profiles, lawyerOffers, told, history>>

\* The client is notified next, or its profile is gone and client.user throws.
CountOffer(r) ==
    LET c == requests[r].case IN
    /\ At(r, "create_count")
    /\ cases' = IF LiveCase(c) THEN [cases EXCEPT ![c].count = @ + 1] ELSE cases
    /\ Finish(r)
    /\ UNCHANGED <<offers, profiles, lawyerOffers, told, history>>

(***************************************************************************)
(* OfferService.acceptOffer.  It never looks at the status of the case.    *)
(***************************************************************************)
ReadOfferForAccept(r, o) ==
    /\ At(r, "idle")
    /\ offers[o].st = "pending"
    /\ Become(r, [Idle EXCEPT !.pc = "accept_case", !.offer = o, !.case = offers[o].case,
                              !.lawyer = offers[o].lawyer])
    /\ UNCHANGED <<dbVars, history>>

\* The case is missing (a TypeError), the caller is not its client (403), or on we go.
ReadCaseForAccept(r) ==
    LET req == requests[r] IN
    /\ At(r, "accept_case")
    /\ \/ Finish(r)
       \/ /\ LiveCase(req.case)
          /\ Become(r, [req EXCEPT !.pc = "accept_reject", !.doc = Read(req.case)])
    /\ UNCHANGED <<dbVars, history>>

\* Mutant: the other offers are left pending.
StartRejectingNone(r) ==
    /\ At(r, "accept_reject")
    /\ Goto(r, "accept_save")
    /\ UNCHANGED <<dbVars, history>>

\* updateMany is atomic for each document and not for the set of them.
StartRejectingPending(r) ==
    /\ At(r, "accept_reject")
    /\ Become(r, [requests[r] EXCEPT !.pc = "accept_save",
                                     !.todo = PendingOn(requests[r].case)])
    /\ UNCHANGED <<dbVars, history>>

\* Mutant: the filter of updateMany does not ask for pending offers.
RejectOneRegardless(r, o) ==
    /\ At(r, "accept_save")
    /\ o \in requests[r].todo
    /\ offers' = [offers EXCEPT ![o].st = "rejected"]
    /\ Become(r, [requests[r] EXCEPT !.todo = @ \ {o}])
    /\ UNCHANGED <<cases, profiles, lawyerOffers, told, history>>

RejectOnePending(r, o) ==
    LET req == requests[r] IN
    /\ At(r, "accept_save")
    /\ o \in req.todo
    /\ offers' = IF offers[o].st = "pending"
                 THEN [offers EXCEPT ![o].st = "rejected"] ELSE offers
    /\ Become(r, [req EXCEPT !.todo = @ \ {o}])
    /\ UNCHANGED <<cases, profiles, lawyerOffers, told, history>>

\* Mutant: an update by id, which does not complain of a missing document.
SaveAcceptedOfferIfAny(r) ==
    LET o == requests[r].offer IN
    /\ At(r, "accept_save")
    /\ requests[r].todo = {}
    /\ offers' = IF LiveOffer(o) THEN [offers EXCEPT ![o].st = "accepted"] ELSE offers
    /\ won' = IF LiveOffer(o) THEN won \cup {o} ELSE won
    /\ Goto(r, "accept_case_save")
    /\ UNCHANGED <<cases, profiles, lawyerOffers, told, recorded, posted>>

\* Mutant: nobody answers the request when the save throws.
SaveAcceptedOfferNoCatch(r) ==
    LET o == requests[r].offer IN
    /\ At(r, "accept_save")
    /\ requests[r].todo = {}
    /\ LiveOffer(o)
    /\ offers' = [offers EXCEPT ![o].st = "accepted"]
    /\ won' = won \cup {o}
    /\ Goto(r, "accept_case_save")
    /\ UNCHANGED <<cases, profiles, lawyerOffers, told, recorded, posted>>

\* Mutant: the case is never saved.
SaveAcceptedOfferOnly(r) ==
    LET o == requests[r].offer IN
    /\ At(r, "accept_save")
    /\ requests[r].todo = {}
    /\ IF LiveOffer(o)
       THEN /\ offers' = [offers EXCEPT ![o].st = "accepted"]
            /\ won' = won \cup {o}
            /\ Goto(r, "accept_count")
       ELSE /\ Finish(r)
            /\ UNCHANGED <<offers, won>>
    /\ UNCHANGED <<cases, profiles, lawyerOffers, told, recorded, posted>>

\* save() of a document that was deleted meanwhile throws DocumentNotFoundError.
SaveAcceptedOffer(r) ==
    LET o == requests[r].offer IN
    /\ At(r, "accept_save")
    /\ requests[r].todo = {}
    /\ IF LiveOffer(o)
       THEN /\ offers' = [offers EXCEPT ![o].st = "accepted"]
            /\ won' = won \cup {o}
            /\ Goto(r, "accept_case_save")
       ELSE /\ Finish(r)
            /\ UNCHANGED <<offers, won>>
    /\ UNCHANGED <<cases, profiles, lawyerOffers, told, recorded, posted>>

\* Mutant: accepted_offer_id is not assigned.
SavedLawyerOnly(stored, doc, new) ==
    [stored EXCEPT !.lawyer = IF new.lawyer = doc.lawyer THEN @ ELSE new.lawyer,
                   !.st = IF new.st = doc.st THEN @ ELSE new.st]

\* What save() makes of the stored document: the paths that differ from doc are written.
Saved(stored, doc, new) ==
    [stored EXCEPT !.lawyer = IF new.lawyer = doc.lawyer THEN @ ELSE new.lawyer,
                   !.accepted = IF new.accepted = doc.accepted THEN @ ELSE new.accepted,
                   !.st = IF new.st = doc.st THEN @ ELSE new.st]

\* Mutant: an update by id, which does not complain of a missing document.
SaveCaseOfAcceptedIfAny(r) ==
    LET req == requests[r]
        new == [req.doc EXCEPT !.lawyer = req.lawyer, !.accepted = req.offer,
                               !.st = "in_progress"]
    IN
    /\ At(r, "accept_case_save")
    /\ Goto(r, "accept_count")
    /\ IF LiveCase(req.case)
       THEN /\ cases' = [cases EXCEPT ![req.case] = Saved(@, req.doc, new)]
            /\ recorded' = recorded \cup {req.offer}
       ELSE UNCHANGED <<cases, recorded>>
    /\ UNCHANGED <<offers, profiles, lawyerOffers, told, won, posted>>

SaveCaseOfAccepted(r) ==
    LET req == requests[r]
        new == [req.doc EXCEPT !.lawyer = req.lawyer, !.accepted = req.offer,
                               !.st = "in_progress"]
    IN
    /\ At(r, "accept_case_save")
    /\ IF LiveCase(req.case)
       THEN /\ cases' = [cases EXCEPT ![req.case] = Saved(@, req.doc, new)]
            /\ recorded' = recorded \cup {req.offer}
            /\ Goto(r, "accept_count")
       ELSE /\ Finish(r)
            /\ UNCHANGED <<cases, recorded>>
    /\ UNCHANGED <<offers, profiles, lawyerOffers, told, won, posted>>

CountAcceptance(r) ==
    LET l == requests[r].lawyer IN
    /\ At(r, "accept_count")
    /\ lawyerOffers' = IF l \in profiles THEN [lawyerOffers EXCEPT ![l] = @ + 1]
                       ELSE lawyerOffers
    /\ Goto(r, "accept_notify")
    /\ UNCHANGED <<offers, cases, profiles, told, history>>

NotifyAccepted(r) ==
    /\ At(r, "accept_notify")
    /\ IF requests[r].lawyer \in profiles
       THEN told' = told \cup {requests[r].offer}
       ELSE UNCHANGED told
    /\ Finish(r)
    /\ UNCHANGED <<offers, cases, profiles, lawyerOffers, history>>

(***************************************************************************)
(* OfferService.rejectOffer and delete; LawyerService.deleteProfile.       *)
(***************************************************************************)
ReadOfferForReject(r, o) ==
    /\ At(r, "idle")
    /\ offers[o].st = "pending"
    /\ Become(r, [Idle EXCEPT !.pc = "reject_case", !.offer = o, !.case = offers[o].case,
                              !.lawyer = offers[o].lawyer])
    /\ UNCHANGED <<dbVars, history>>

ReadCaseForReject(r) ==
    /\ At(r, "reject_case")
    /\ \/ Finish(r)
       \/ LiveCase(requests[r].case) /\ Goto(r, "reject_save")
    /\ UNCHANGED <<dbVars, history>>

SaveRejectedOffer(r) ==
    LET o == requests[r].offer IN
    /\ At(r, "reject_save")
    /\ offers' = IF LiveOffer(o) THEN [offers EXCEPT ![o].st = "rejected"] ELSE offers
    /\ Finish(r)
    /\ UNCHANGED <<cases, profiles, lawyerOffers, told, history>>

ReadOfferForDelete(r, o) ==
    /\ At(r, "idle")
    /\ LiveOffer(o)
    /\ AdminDeletes \/ (offers[o].st = "pending" /\ offers[o].lawyer \in profiles)
    /\ Become(r, [Idle EXCEPT !.pc = "offer_delete", !.offer = o])
    /\ UNCHANGED <<dbVars, history>>

\* Neither Case.offers_count nor Case.accepted_offer_id is touched.
DeleteOffer(r) ==
    /\ At(r, "offer_delete")
    /\ offers' = [offers EXCEPT ![requests[r].offer].st = "deleted"]
    /\ Finish(r)
    /\ UNCHANGED <<cases, profiles, lawyerOffers, told, history>>

DeleteLawyerProfile(l) ==
    /\ l \in Leaving \cap profiles
    /\ profiles' = profiles \ {l}
    /\ UNCHANGED <<offers, cases, lawyerOffers, told, requests, history>>

\* The process serving r crashes, or a database call of r throws.
Fail(r) ==
    /\ RequestsFail
    /\ ~At(r, "idle")
    /\ Finish(r)
    /\ UNCHANGED <<dbVars, history>>

----------------------------------------------------------------------------
\* The next database call of a request that is being served.
Proceed(r) ==
    \/ FindExistingOffer(r) \/ InsertOffer(r) \/ CountOffer(r)
    \/ ReadCaseForAccept(r) \/ StartRejectingPending(r)
    \/ \E o \in OfferIds : RejectOnePending(r, o)
    \/ SaveAcceptedOffer(r) \/ SaveCaseOfAccepted(r)
    \/ CountAcceptance(r) \/ NotifyAccepted(r)
    \/ ReadCaseForReject(r) \/ SaveRejectedOffer(r)
    \/ DeleteOffer(r) \/ DeleteCase(r) \/ SaveStatus(r)

\* The first database call of a new request.
Arrive(r) ==
    \/ \E c \in Cases :
          \/ \E l \in Lawyers : ReadCaseForOffer(r, c, l)
          \/ ReadCaseForDelete(r, c)
          \/ \E s \in NewStatuses : ReadCaseForStatus(r, c, s)
    \/ \E o \in OfferIds :
          ReadOfferForAccept(r, o) \/ ReadOfferForReject(r, o) \/ ReadOfferForDelete(r, o)

Next ==
    \/ \E r \in Requests : Arrive(r) \/ Proceed(r) \/ Fail(r)
    \/ \E c \in Cases : CreateCase(c)
    \/ \E l \in Lawyers : DeleteLawyerProfile(l)

Spec == Init /\ [][Next]_vars

\* The event loop and the database answer every call; callers owe nothing.
FairSpec == Spec /\ \A r \in Requests : WF_vars(Proceed(r))
----------------------------------------------------------------------------
\* The unique index and not the read before it keeps a lawyer to one offer on
\* a case: two creates of one lawyer may both find nothing (OfferService.create).
OneOfferPerLawyerAndCase ==
    \A o, p \in OfferIds :
        (LiveOffer(o) /\ LiveOffer(p) /\ offers[o].case = offers[p].case
                      /\ offers[o].lawyer = offers[p].lawyer) => o = p

\* A case points only at the offer it was created with, or at one made on it that
\* acceptOffer saved as accepted before the case, whatever overlaps, dies or is deleted.
AcceptedOfferWasWon ==
    \A c \in Cases : cases[c].accepted \notin {None, posted[c].accepted} =>
        /\ cases[c].accepted \in won
        /\ offers[cases[c].accepted].case = c

\* No lawyer is told of, or credited with, an acceptance that no case recorded
\* (the notification and Lawyer.offers_count of OfferService.acceptOffer).
AcceptanceToldAfterRecorded ==
    /\ told \subseteq recorded
    /\ \A l \in Lawyers : lawyerOffers[l] > 0 =>
           \E o \in recorded : offers[o].lawyer = l

\* Case.offers_count never runs ahead of what it was created with and the offers made
\* since: each $inc belongs to one insert, and one whose request died is not counted.
MadeOn(c) == {o \in OfferIds : offers[o].st # "unused" /\ offers[o].case = c}
Uncounted(c) == {r \in Requests : At(r, "create_count") /\ requests[r].case = c}
OffersCountBounded ==
    \A c \in Cases :
        cases[c].count + Cardinality(Uncounted(c)) <= posted[c].count + Cardinality(MadeOn(c))

\* Another offer's acceptance sweeps only pending offers: an accepted offer is
\* lost only to a delete or to a reject of that very offer, a decided offer is
\* never pending again and a deleted one never returns (acceptOffer's updateMany).
DecisionsStand ==
    [][\A o \in OfferIds :
          /\ offers[o].st \in {"accepted", "rejected"} => offers'[o].st # "pending"
          /\ offers[o].st = "deleted" => offers'[o] = offers[o]
          /\ (offers[o].st = "accepted" /\ offers'[o].st = "rejected") =>
                \E r \in Requests : At(r, "reject_save") /\ requests[r].offer = o
      ]_offers

\* Every request is answered, and an offer that was saved as accepted gets to
\* its case unless the case is deleted (acceptOffer, when nothing fails).
RequestsEnd == \A r \in Requests : ~At(r, "idle") ~> At(r, "idle")
WonReachesCase ==
    \A o \in OfferIds : o \in won ~>
        (o \in recorded \/ \E c \in Cases : offers[o].case = c /\ ~LiveCase(c))

(***************************************************************************)
(* The inductive invariant: what a request knows at each of its steps, and *)
(* what the documents say of each other.                                   *)
(***************************************************************************)
OnCase == {"create_find", "create_insert", "case_delete", "status_save"}
OnOffer == {"create_count", "accept_case", "accept_reject", "accept_save",
            "accept_case_save", "accept_count", "accept_notify",
            "reject_case", "reject_save", "offer_delete"}
AfterWon == {"accept_case_save", "accept_count", "accept_notify"}
AfterRecorded == {"accept_count", "accept_notify"}

Made(o) == o \in OfferIds /\ offers[o].st # "unused"

\* However stale the rest of what it read may be.
SlotOK(q) ==
    /\ q.pc \in OnCase => q.case \in Cases
    /\ q.pc \in {"create_find", "create_insert"} => q.lawyer \in Lawyers
    /\ q.pc \in OnOffer => Made(q.offer)
    /\ q.pc \in OnOffer \ {"offer_delete"} =>
          q.case = offers[q.offer].case /\ q.lawyer = offers[q.offer].lawyer
    /\ q.pc \in AfterWon => q.offer \in won
    /\ q.pc \in AfterRecorded => q.offer \in recorded

DbTypeOK ==
    /\ offers \in [OfferIds -> OfferDoc]
    /\ cases \in [Cases -> CaseDoc]
    /\ profiles \subseteq Lawyers
    /\ lawyerOffers \in [Lawyers -> Nat]
    /\ told \subseteq OfferIds
    /\ won \subseteq OfferIds
    /\ recorded \subseteq OfferIds
    /\ posted \in [Cases -> Posting]

OffersOK == \A o \in OfferIds :
    Made(o) => offers[o].case \in Cases /\ offers[o].lawyer \in Lawyers

HistoryOK ==
    /\ recorded \subseteq won /\ \A o \in won : Made(o)
    /\ \A c \in Cases : cases[c].st = "unused" => cases[c].count = 0 /\ posted[c].count = 0

DbOK ==
    /\ DbTypeOK
    /\ OffersOK
    /\ HistoryOK
    /\ OneOfferPerLawyerAndCase
    /\ AcceptedOfferWasWon
    /\ AcceptanceToldAfterRecorded

\* Inductive: every step of every request preserves it, whatever the others did.
IInv ==
    /\ DbOK
    /\ requests \in [Requests -> Request]
    /\ \A r \in Requests : SlotOK(requests[r])

----------------------------------------------------------------------------
\* The properties below need requests that do not overlap and do not fail.
Quiet == \A r \in Requests : At(r, "idle")

\* The offers of a case that its client accepted and that still stand.  An offer that
\* was made as accepted is not among them: no client has accepted it.
AcceptedOn(c) == {o \in won : offers[o].st = "accepted" /\ offers[o].case = c}

\* A client accepts one offer of a case (PROJECT_EXPLANATION_AR.md, section 2).
OneAcceptedOffer ==
    \A c \in Cases : \A o, p \in AcceptedOn(c) : o = p

\* Accepting an offer leaves no other offer of the case to decide on
\* (tests/integration/offers.integration.test.js, "should auto-reject other offers").
AcceptanceSettlesCase ==
    Quiet => \A c \in Cases : AcceptedOn(c) # {} => PendingOn(c) = {}

\* A case whose client accepted an offer is no longer open and names that offer and its
\* lawyer, whatever it was created with (tests, "should update case status when offer
\* accepted").
CaseFollowsAcceptance ==
    Quiet => \A c \in Cases : \A o \in AcceptedOn(c) :
        LiveCase(c) => /\ cases[c].st # "open"
                       /\ cases[c].accepted = o
                       /\ cases[c].lawyer = offers[o].lawyer

\* The counters agree with the documents they count, a case's with those that came
\* after what it was created with.
CountersAgree ==
    Quiet =>
        /\ \A c \in Cases : LiveCase(c) =>
              cases[c].count = posted[c].count + Cardinality(MadeOn(c))
        /\ \A l \in profiles :
              lawyerOffers[l] = Cardinality({o \in won : offers[o].lawyer = l})

\* Seen through the acceptance that is under way, one request at a time does
\* what Hiring says in one step (StartRejectingPending is the step).
Accepting(o) == \E r \in Requests :
    requests[r].pc \in {"accept_save", "accept_case_save"} /\ requests[r].offer = o
AcceptingOn(c) == {o \in OfferIds : Accepting(o) /\ offers[o].case = c}

offersSettled == [o \in OfferIds |->
    IF Accepting(o) THEN [offers[o] EXCEPT !.st = "accepted"]
    ELSE IF offers[o].st = "pending" /\ AcceptingOn(offers[o].case) # {}
    THEN [offers[o] EXCEPT !.st = "rejected"]
    ELSE offers[o]]

casesSettled == [c \in Cases |->
    IF AcceptingOn(c) = {} THEN Read(c)
    ELSE LET o == CHOOSE p \in AcceptingOn(c) : TRUE
         IN [st |-> "in_progress", lawyer |-> offers[o].lawyer, accepted |-> o]]

H == INSTANCE Hiring WITH offers <- offersSettled, hires <- casesSettled
ImplementsHiring == H!Spec

(***************************************************************************)
(* The inductive invariant of requests that come one at a time: what the   *)
(* request in flight has read is still so, a case with an accepted offer   *)
(* is settled, and the counters lack only what this request has to count.  *)
(***************************************************************************)
OneAtATime ==
    /\ \E r \in Requests : Requests = {r}
    /\ ~RequestsFail
    /\ "open" \notin NewStatuses

Recording(c) == \E r \in Requests : At(r, "accept_case_save") /\ requests[r].case = c
Uncredited(l) == {r \in Requests :
    requests[r].pc \in {"accept_case_save", "accept_count"} /\ requests[r].lawyer = l}
WonBy(l) == {o \in won : offers[o].lawyer = l}

Fresh(q) ==
    /\ q.pc \in {"create_find", "create_insert", "create_count"} => cases[q.case].st = "open"
    /\ q.pc \in {"accept_case", "accept_reject", "reject_case", "reject_save"} =>
          offers[q.offer].st = "pending"
    /\ q.pc \in {"accept_case", "accept_reject", "accept_save"} => q.offer \notin won
    /\ q.pc \in {"accept_reject", "accept_save", "accept_case_save"} =>
          LiveCase(q.case) /\ q.doc = Read(q.case)
    /\ q.pc = "accept_save" =>
          LiveOffer(q.offer) /\ AcceptedOn(q.case) = {} /\ q.todo = PendingOn(q.case)
    /\ q.pc = "accept_case_save" => AcceptedOn(q.case) = {q.offer}
    /\ q.pc = "offer_delete" =>
          LiveOffer(q.offer) /\ (AdminDeletes \/ offers[q.offer].st = "pending")
    /\ q.pc = "case_delete" => LiveCase(q.case) /\ (AdminDeletes \/ cases[q.case].st = "open")
    /\ q.pc = "status_save" =>
          LiveCase(q.case) /\ q.doc.st = cases[q.case].st /\ q.new \in NewStatuses

Settled(c) ==
    /\ cases[c].st = "unused" => MadeOn(c) = {}
    /\ AcceptedOn(c) # {} => PendingOn(c) = {}
    /\ LiveCase(c) /\ ~Recording(c) => \A o \in AcceptedOn(c) :
          /\ cases[c].st # "open"
          /\ cases[c].accepted = o
          /\ cases[c].lawyer = offers[o].lawyer

Counted ==
    /\ \A c \in Cases : cases[c].st # "deleted" =>
          cases[c].count + Cardinality(Uncounted(c)) = posted[c].count + Cardinality(MadeOn(c))
    /\ \A l \in profiles :
          lawyerOffers[l] + Cardinality(Uncredited(l)) = Cardinality(WonBy(l))

AloneInv ==
    /\ \A r \in Requests : Fresh(requests[r])
    /\ OneAcceptedOffer
    /\ \A o \in won : offers[o].st # "pending"
    /\ \A c \in Cases : Settled(c)
    /\ Counted
=============================================================================
