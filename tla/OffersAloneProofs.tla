------------------------- MODULE OffersAloneProofs -------------------------
(***************************************************************************)
(* Theorems about Offers when requests come one at a time and none dies,   *)
(* for any number of cases, lawyers and offers: a client accepts one offer *)
(* of a case, the case follows it, the counters agree with the documents,  *)
(* and the calls of a request together are one step of Hiring.  All rest   *)
(* on AloneInv: what the request in flight has read is still so.           *)
(***************************************************************************)
EXTENDS OffersProofs

USE DEF Gone, CaseStatus

\* Steps at which something is still to be recorded or counted.
Tail == {"create_count", "accept_case_save", "accept_count"}

(***************************************************************************)
(* The one slot.                                                           *)
(***************************************************************************)
\* What the state says of the requests under way, in terms of the one there is.
LEMMA OneSlot ==
    ASSUME NEW r \in Requests, Requests = {r}
    PROVE  /\ \A c : /\ Recording(c) <=> requests[r].pc = "accept_case_save" /\ requests[r].case = c
                     /\ Cardinality(Uncounted(c)) =
                           IF requests[r].pc = "create_count" /\ requests[r].case = c THEN 1 ELSE 0
           /\ \A l : Cardinality(Uncredited(l)) =
                  IF requests[r].pc \in {"accept_case_save", "accept_count"} /\ requests[r].lawyer = l
                  THEN 1 ELSE 0
<1>1. Cardinality({r}) = 1 /\ Cardinality({}) = 0
  BY FS_Singleton, FS_EmptySet
<1>2. ASSUME NEW c PROVE Uncounted(c) =
         IF requests[r].pc = "create_count" /\ requests[r].case = c THEN {r} ELSE {}
  BY DEF Uncounted, At
<1>3. ASSUME NEW l PROVE Uncredited(l) =
         IF requests[r].pc \in {"accept_case_save", "accept_count"} /\ requests[r].lawyer = l
         THEN {r} ELSE {}
  BY DEF Uncredited
<1> QED BY <1>1, <1>2, <1>3 DEF Recording, At

LEMMA OneSlotNext ==
    ASSUME NEW r \in Requests, Requests = {r}
    PROVE  /\ \A c : /\ Recording(c)' <=> requests'[r].pc = "accept_case_save" /\ requests'[r].case = c
                     /\ Cardinality(Uncounted(c)') =
                           IF requests'[r].pc = "create_count" /\ requests'[r].case = c THEN 1 ELSE 0
           /\ \A l : Cardinality(Uncredited(l)') =
                  IF requests'[r].pc \in {"accept_case_save", "accept_count"} /\ requests'[r].lawyer = l
                  THEN 1 ELSE 0
<1>1. Cardinality({r}) = 1 /\ Cardinality({}) = 0
  BY FS_Singleton, FS_EmptySet
<1>2. ASSUME NEW c PROVE Uncounted(c)' =
         IF requests'[r].pc = "create_count" /\ requests'[r].case = c THEN {r} ELSE {}
  BY DEF Uncounted, At
<1>3. ASSUME NEW l PROVE Uncredited(l)' =
         IF requests'[r].pc \in {"accept_case_save", "accept_count"} /\ requests'[r].lawyer = l
         THEN {r} ELSE {}
  BY DEF Uncredited
<1> QED BY <1>1, <1>2, <1>3 DEF Recording, At

LEMMA Known ==
    ASSUME IInv, AloneInv, NEW r \in Requests
    PROVE  /\ offers \in [OfferIds -> OfferDoc] /\ cases \in [Cases -> CaseDoc]
           /\ profiles \subseteq Lawyers /\ lawyerOffers \in [Lawyers -> Nat]
           /\ won \subseteq OfferIds /\ posted \in [Cases -> Posting]
           /\ requests \in [Requests -> Request]
           /\ requests[r] \in Request /\ SlotOK(requests[r]) /\ Fresh(requests[r])
           /\ OffersOK /\ HistoryOK /\ AcceptedOfferWasWon
BY DEF IInv, DbOK, DbTypeOK, AloneInv

LEMMA BecomeOne ==
    ASSUME IInv, NEW r \in Requests, Requests = {r}, NEW q, Become(r, q), Fresh(q)'
    PROVE  requests'[r] = q /\ \A s \in Requests : Fresh(requests[s])'
<1>1. requests'[r] = q
  BY DEF IInv, Become
<1> QED BY <1>1 DEF Fresh

LEMMA FreshIdle == Fresh(Idle)' /\ Idle.pc = "idle"
BY DEF Fresh, Idle

\* Offers made and won are finitely many.
LEMMA CountTypes ==
    ASSUME IInv
    PROVE  /\ \A c : IsFiniteSet(MadeOn(c)) /\ Cardinality(MadeOn(c)) \in Nat
           /\ \A l : IsFiniteSet(WonBy(l)) /\ Cardinality(WonBy(l)) \in Nat
<1>1. \A c : MadeOn(c) \subseteq OfferIds
  BY DEF MadeOn
<1>2. \A l : WonBy(l) \subseteq OfferIds
  BY DEF WonBy, IInv, DbOK, DbTypeOK
<1> QED BY <1>1, <1>2, FiniteAssumption, FS_Subset, FS_CardinalityType

\* Steps of a slot with nothing to record or count, which change no document that
\* another one mentions.
LEMMA AloneKeep ==
    ASSUME IInv, AloneInv, NEW r \in Requests, Requests = {r},
           UNCHANGED <<offers, cases, lawyerOffers, won, posted>>, profiles' \subseteq profiles,
           \/ requests' = requests
           \/ \E q \in Request : /\ Become(r, q) /\ Fresh(q)
                                 /\ requests[r].pc \notin Tail /\ q.pc \notin Tail
    PROVE  AloneInv'
<1>1. \A s \in Requests : Fresh(requests[s])'
  <2>1. CASE requests' = requests
    BY <2>1 DEF AloneInv, Fresh, LiveCase, Read, LiveOffer, AcceptedOn, PendingOn
  <2>2. ASSUME NEW q \in Request, Become(r, q), Fresh(q)
        PROVE  \A s \in Requests : Fresh(requests[s])'
    <3>1. Fresh(q)'
      BY <2>2 DEF Fresh, LiveCase, Read, LiveOffer, AcceptedOn, PendingOn
    <3> QED BY <2>2, <3>1, BecomeOne
  <2> QED BY <2>1, <2>2
<1>2. \/ requests' = requests
      \/ requests[r].pc \notin Tail /\ requests'[r].pc \notin Tail
  BY DEF Become, IInv
<1>3. \A c : /\ Recording(c)' <=> Recording(c)
             /\ Cardinality(Uncounted(c)') = Cardinality(Uncounted(c))
  BY <1>2, OneSlot, OneSlotNext DEF Tail
<1>4. \A l : Cardinality(Uncredited(l)') = Cardinality(Uncredited(l))
  BY <1>2, OneSlot, OneSlotNext DEF Tail
<1>5. OneAcceptedOffer' /\ \A o \in won' : offers'[o].st # "pending"
  BY DEF AloneInv, OneAcceptedOffer, AcceptedOn
<1>6. \A c \in Cases : Settled(c)'
  BY <1>3 DEF AloneInv, Settled, LiveCase, AcceptedOn, PendingOn, MadeOn
<1>7. Counted'
  BY <1>3, <1>4 DEF AloneInv, Counted, MadeOn, WonBy
<1> QED BY <1>1, <1>5, <1>6, <1>7 DEF AloneInv

\* A step that makes and wins no offer, after which the counts stand as before.
LEMMA CountedKept ==
    ASSUME AloneInv, NEW r \in Requests, Requests = {r},
           requests[r].pc \notin Tail, requests'[r].pc \notin Tail,
           \A o \in OfferIds : /\ offers'[o].st # "unused" <=> offers[o].st # "unused"
                               /\ offers'[o].case = offers[o].case
                               /\ offers'[o].lawyer = offers[o].lawyer,
           won \subseteq OfferIds, UNCHANGED <<profiles, lawyerOffers, won, posted>>,
           \A c \in Cases : cases'[c].st # "deleted" =>
               cases[c].st # "deleted" /\ cases'[c].count = cases[c].count
    PROVE  Counted'
<1>1. \A c : Cardinality(Uncounted(c)') = Cardinality(Uncounted(c))
  BY OneSlot, OneSlotNext DEF Tail
<1>2. \A l : Cardinality(Uncredited(l)') = Cardinality(Uncredited(l))
  BY OneSlot, OneSlotNext DEF Tail
<1>3. \A c : MadeOn(c)' = MadeOn(c)
  BY DEF MadeOn
<1>4. \A l : WonBy(l)' = WonBy(l)
  BY DEF WonBy
<1> QED BY <1>1, <1>2, <1>3, <1>4 DEF AloneInv, Counted

(***************************************************************************)
(* Steps that read.                                                        *)
(***************************************************************************)
LEMMA AloneArrive ==
    ASSUME IInv, AloneInv, NEW r \in Requests, Requests = {r}, Arrive(r)
    PROVE  AloneInv'
<1>0. /\ UNCHANGED <<dbVars, history>> /\ requests[r].pc = "idle"
  BY DEF Arrive, ReadCaseForOffer, ReadCaseForDelete, ReadCaseForStatus, ReadOfferForAccept,
         ReadOfferForReject, ReadOfferForDelete, At
<1>1. ASSUME NEW q \in Request, Become(r, q), Fresh(q), q.pc \notin Tail PROVE AloneInv'
  BY <1>0, <1>1, AloneKeep DEF dbVars, history, Tail
<1>2. /\ offers \in [OfferIds -> OfferDoc] /\ cases \in [Cases -> CaseDoc]
  BY Known
<1>3. ASSUME NEW c \in Cases, NEW l \in Lawyers, ReadCaseForOffer(r, c, l) PROVE AloneInv'
  <2>1. [Idle EXCEPT !.pc = "create_find", !.case = c, !.lawyer = l] \in Request
    BY IdleOK DEF Idle, Request, Steps
  <2>2. PICK q \in Request : q = [Idle EXCEPT !.pc = "create_find", !.case = c, !.lawyer = l]
    BY <2>1
  <2>3. Fresh(q) /\ q.pc \notin Tail
    BY <1>3, <2>2 DEF Idle, Fresh, Tail, ReadCaseForOffer
  <2> QED BY <1>1, <1>3, <2>2, <2>3 DEF ReadCaseForOffer
<1>4. ASSUME NEW c \in Cases, ReadCaseForDelete(r, c) PROVE AloneInv'
  <2>1. [Idle EXCEPT !.pc = "case_delete", !.case = c] \in Request
    BY IdleOK DEF Idle, Request, Steps
  <2>2. PICK q \in Request : q = [Idle EXCEPT !.pc = "case_delete", !.case = c]
    BY <2>1
  <2>3. Fresh(q) /\ q.pc \notin Tail
    BY <1>4, <2>2 DEF Idle, Fresh, Tail, ReadCaseForDelete
  <2> QED BY <1>1, <1>4, <2>2, <2>3 DEF ReadCaseForDelete
<1>5. ASSUME NEW c \in Cases, NEW s \in NewStatuses, ReadCaseForStatus(r, c, s) PROVE AloneInv'
  <2> DEFINE slot == [Idle EXCEPT !.pc = "status_save", !.case = c,
                          !.doc = [NothingRead EXCEPT !.st = cases[c].st], !.new = s]
  <2>0. s \in CaseStatus /\ cases[c] \in CaseDoc
    BY <1>2, StatusAssumption
  <2>1. slot \in Request
    BY <2>0, IdleOK DEF Idle, Request, Steps, CaseRead, NothingRead, CaseDoc
  <2>2. PICK q \in Request : q = slot
    BY <2>1
  <2>3. Fresh(q) /\ q.pc \notin Tail
    BY <1>5, <2>0, <2>2 DEF Idle, NothingRead, Fresh, Tail, ReadCaseForStatus
  <2> QED BY <1>1, <1>5, <2>2, <2>3 DEF ReadCaseForStatus
<1>6. ASSUME NEW o \in OfferIds, ReadOfferForAccept(r, o) PROVE AloneInv'
  <2> DEFINE slot == [Idle EXCEPT !.pc = "accept_case", !.offer = o, !.case = offers[o].case,
                          !.lawyer = offers[o].lawyer]
  <2>1. slot \in Request
    BY <1>2, IdleOK DEF Idle, Request, Steps, OfferDoc
  <2>2. PICK q \in Request : q = slot
    BY <2>1
  <2>3. offers[o].st = "pending" /\ o \notin won
    BY <1>6 DEF ReadOfferForAccept, AloneInv
  <2>4. Fresh(q) /\ q.pc \notin Tail
    BY <2>2, <2>3 DEF Idle, Fresh, Tail
  <2> QED BY <1>1, <1>6, <2>2, <2>4 DEF ReadOfferForAccept
<1>7. ASSUME NEW o \in OfferIds, ReadOfferForReject(r, o) PROVE AloneInv'
  <2> DEFINE slot == [Idle EXCEPT !.pc = "reject_case", !.offer = o, !.case = offers[o].case,
                          !.lawyer = offers[o].lawyer]
  <2>1. slot \in Request
    BY <1>2, IdleOK DEF Idle, Request, Steps, OfferDoc
  <2>2. PICK q \in Request : q = slot
    BY <2>1
  <2>3. Fresh(q) /\ q.pc \notin Tail
    BY <1>7, <2>2 DEF Idle, Fresh, Tail, ReadOfferForReject
  <2> QED BY <1>1, <1>7, <2>2, <2>3 DEF ReadOfferForReject
<1>8. ASSUME NEW o \in OfferIds, ReadOfferForDelete(r, o) PROVE AloneInv'
  <2>1. [Idle EXCEPT !.pc = "offer_delete", !.offer = o] \in Request
    BY IdleOK DEF Idle, Request, Steps
  <2>2. PICK q \in Request : q = [Idle EXCEPT !.pc = "offer_delete", !.offer = o]
    BY <2>1
  <2>3. Fresh(q) /\ q.pc \notin Tail
    BY <1>8, <2>2 DEF Idle, Fresh, Tail, ReadOfferForDelete
  <2> QED BY <1>1, <1>8, <2>2, <2>3 DEF ReadOfferForDelete
<1> QED BY <1>3, <1>4, <1>5, <1>6, <1>7, <1>8 DEF Arrive

\* A request that ends and writes nothing.
LEMMA AloneIdle ==
    ASSUME IInv, AloneInv, NEW r \in Requests, Requests = {r}, Finish(r),
           UNCHANGED <<dbVars, history>>, requests[r].pc \notin Tail
    PROVE  AloneInv'
<1>1. Idle \in Request /\ Fresh(Idle) /\ Idle.pc \notin Tail
  BY IdleOK DEF Idle, Fresh, Tail
<1> QED BY <1>1, AloneKeep DEF Finish, dbVars, history

LEMMA AloneReading ==
    ASSUME IInv, AloneInv, NEW r \in Requests, Requests = {r},
           FindExistingOffer(r) \/ ReadCaseForAccept(r) \/ StartRejectingPending(r)
               \/ ReadCaseForReject(r)
    PROVE  AloneInv'
<1> DEFINE req == requests[r]
<1>0. /\ UNCHANGED <<dbVars, history>> /\ req.pc \notin Tail
      /\ req \in Request /\ SlotOK(req) /\ Fresh(req)
      /\ cases \in [Cases -> CaseDoc] /\ OffersOK
  BY Known DEF FindExistingOffer, ReadCaseForAccept, StartRejectingPending, ReadCaseForReject,
               At, Tail
<1>1. CASE Finish(r)
  BY <1>0, <1>1, AloneIdle
<1>2. ASSUME NEW q \in Request, Become(r, q), Fresh(q), q.pc \notin Tail PROVE AloneInv'
  BY <1>0, <1>2, AloneKeep DEF dbVars, history
<1>3. CASE FindExistingOffer(r) /\ Goto(r, "create_insert")
  <2>1. [req EXCEPT !.pc = "create_insert"] \in Request
    BY <1>0 DEF Request, Steps
  <2>2. PICK q \in Request : q = [req EXCEPT !.pc = "create_insert"]
    BY <2>1
  <2>3. Fresh(q) /\ q.pc \notin Tail
    BY <1>0, <1>3, <2>2 DEF Request, Fresh, Tail, FindExistingOffer, At
  <2> QED BY <1>2, <1>3, <2>2, <2>3 DEF Goto
<1>4. CASE ReadCaseForAccept(r) /\ ~Finish(r)
  <2>0. /\ LiveCase(req.case) /\ req.pc = "accept_case"
        /\ Become(r, [req EXCEPT !.pc = "accept_reject", !.doc = Read(req.case)])
    BY <1>4 DEF ReadCaseForAccept, At
  <2>1. req.case \in Cases
    BY <1>0, <2>0 DEF SlotOK, OnOffer, Made, OffersOK
  <2>2. Read(req.case) \in CaseRead
    BY <1>0, <2>1 DEF Read, CaseRead, CaseDoc
  <2>3. [req EXCEPT !.pc = "accept_reject", !.doc = Read(req.case)] \in Request
    BY <1>0, <2>2 DEF Request, Steps
  <2>4. PICK q \in Request : q = [req EXCEPT !.pc = "accept_reject", !.doc = Read(req.case)]
    BY <2>3
  <2>5. /\ q.pc = "accept_reject" /\ q.case = req.case /\ q.offer = req.offer
        /\ q.doc = Read(req.case)
    BY <1>0, <2>4 DEF Request
  <2>6. Fresh(q) /\ q.pc \notin Tail
    BY <1>0, <2>0, <2>5 DEF Fresh, Tail
  <2> QED BY <1>2, <2>0, <2>4, <2>6
<1>5. CASE StartRejectingPending(r)
  <2>0. /\ req.pc = "accept_reject"
        /\ Become(r, [req EXCEPT !.pc = "accept_save", !.todo = PendingOn(req.case)])
    BY <1>5 DEF StartRejectingPending, At
  <2>1. [req EXCEPT !.pc = "accept_save", !.todo = PendingOn(req.case)] \in Request
    BY <1>0 DEF Request, Steps, PendingOn
  <2>2. PICK q \in Request : q = [req EXCEPT !.pc = "accept_save", !.todo = PendingOn(req.case)]
    BY <2>1
  <2>3. /\ q.pc = "accept_save" /\ q.case = req.case /\ q.offer = req.offer
        /\ q.doc = req.doc /\ q.todo = PendingOn(req.case)
    BY <1>0, <2>2 DEF Request
  <2>4. req.case \in Cases /\ req.offer \in PendingOn(req.case)
    BY <1>0, <2>0 DEF SlotOK, OnOffer, Made, OffersOK, Fresh, PendingOn
  <2>5. AcceptedOn(req.case) = {}
    BY <2>4 DEF AloneInv, Settled
  <2>6. LiveOffer(req.offer)
    BY <2>4 DEF LiveOffer, PendingOn
  <2>7. Fresh(q) /\ q.pc \notin Tail
    BY <1>0, <2>0, <2>3, <2>5, <2>6 DEF Fresh, Tail
  <2> QED BY <1>2, <2>0, <2>2, <2>7
<1>6. CASE ReadCaseForReject(r) /\ Goto(r, "reject_save")
  <2>1. [req EXCEPT !.pc = "reject_save"] \in Request
    BY <1>0 DEF Request, Steps
  <2>2. PICK q \in Request : q = [req EXCEPT !.pc = "reject_save"]
    BY <2>1
  <2>3. Fresh(q) /\ q.pc \notin Tail
    BY <1>0, <1>6, <2>2 DEF Request, Fresh, Tail, ReadCaseForReject, At
  <2> QED BY <1>2, <1>6, <2>2, <2>3 DEF Goto
<1> QED BY <1>1, <1>3, <1>4, <1>5, <1>6 DEF FindExistingOffer, ReadCaseForReject

(***************************************************************************)
(* Steps that write a case and no offer.                                   *)
(***************************************************************************)
LEMMA SlotIds ==
    ASSUME IInv, AloneInv, NEW r \in Requests
    PROVE  /\ requests[r].pc \in Steps
           /\ requests[r].pc \notin {"idle", "offer_delete"} => requests[r].case \in Cases
           /\ requests[r].pc \in OnOffer =>
                 requests[r].offer \in OfferIds /\ Made(requests[r].offer)
           /\ requests[r].pc \in OnOffer \ {"offer_delete"} =>
                 /\ requests[r].case = offers[requests[r].offer].case
                 /\ requests[r].lawyer = offers[requests[r].offer].lawyer
                 /\ requests[r].lawyer \in Lawyers
<1>1. requests[r] \in Request /\ SlotOK(requests[r]) /\ OffersOK
  BY Known
<1>2. requests[r].pc \in Steps
  BY <1>1 DEF Request
<1> QED BY <1>1, <1>2 DEF SlotOK, OnOffer, OnCase, Made, OffersOK, Steps

\* One case is written and no offer; its accepted offer stays, or goes with the case.
LEMMA SettledKept ==
    ASSUME IInv, AloneInv, NEW r \in Requests, Requests = {r},
           requests[r].pc # "accept_case_save",
           NEW c \in Cases, UNCHANGED <<offers, won>>,
           \A d \in Cases \ {c} : cases'[d] = cases[d],
           cases'[c].st # "unused",
           \/ cases'[c].st = "deleted" /\ cases'[c].accepted = None
           \/ /\ cases'[c].accepted = cases[c].accepted /\ cases'[c].lawyer = cases[c].lawyer
              /\ LiveCase(c) /\ (cases'[c].st = "open" => cases[c].st = "open")
           \/ cases[c].st = "unused"
    PROVE  \A d \in Cases : Settled(d)'
<1>1. \A d : /\ MadeOn(d)' = MadeOn(d) /\ AcceptedOn(d)' = AcceptedOn(d)
             /\ PendingOn(d)' = PendingOn(d)
  BY DEF MadeOn, AcceptedOn, PendingOn
<1>2. \A d : ~Recording(d)
  BY OneSlot
<1>3. ASSUME NEW d \in Cases, d # c PROVE Settled(d)'
  BY <1>1, <1>2, <1>3 DEF AloneInv, Settled, LiveCase
<1>4. Settled(c)'
  <2>1. Settled(c)
    BY DEF AloneInv
  <2>2. CASE cases'[c].st = "deleted" /\ cases'[c].accepted = None
    BY <1>1, <2>1, <2>2 DEF Settled, LiveCase
  <2>3. CASE /\ cases'[c].accepted = cases[c].accepted /\ cases'[c].lawyer = cases[c].lawyer
             /\ LiveCase(c) /\ (cases'[c].st = "open" => cases[c].st = "open")
    BY <1>1, <1>2, <2>1, <2>3 DEF Settled, LiveCase
  <2>4. CASE cases[c].st = "unused"
    <3>1. MadeOn(c) = {}
      BY <2>1, <2>4 DEF Settled
    <3>2. AcceptedOn(c) = {}
      BY <3>1, Known DEF MadeOn, AcceptedOn
    <3> QED BY <1>1, <2>4, <3>2 DEF Settled
  <2> QED BY <2>2, <2>3, <2>4
<1> QED BY <1>3, <1>4

LEMMA AloneCreateCase ==
    ASSUME IInv, AloneInv, NEW r \in Requests, Requests = {r}, NEW c \in Cases, CreateCase(c)
    PROVE  AloneInv'
<1> DEFINE req == requests[r]
<1>a. PICK b \in CaseBodies :
         /\ cases' = [cases EXCEPT ![c] = b]
         /\ posted' = [posted EXCEPT ![c] = [accepted |-> b.accepted, count |-> b.count]]
  BY DEF CreateCase
<1>b. b.st \notin Gone /\ b.count \in Nat
  BY BodyAssumption
<1>0. /\ cases \in [Cases -> CaseDoc] /\ cases[c].st = "unused"
      /\ posted \in [Cases -> Posting] /\ cases[c].count = 0 /\ posted[c].count = 0
      /\ UNCHANGED <<offers, profiles, lawyerOffers, requests, won>>
  BY Known DEF CreateCase, HistoryOK
<1>1. /\ \A d \in Cases \ {c} : cases'[d] = cases[d] /\ posted'[d] = posted[d]
      /\ cases'[c] = b /\ posted'[c].count = b.count
  BY <1>a, <1>0
<1>2. Fresh(req) /\ SlotOK(req) /\ req \in Request
  BY Known
<1>3. MadeOn(c) = {}
  BY <1>0 DEF AloneInv, Settled
<1>4. req.case # c \/ req.pc \in {"idle", "offer_delete"}
  BY <1>0, <1>2, <1>3, SlotIds DEF Fresh, LiveCase, MadeOn, Made, OnOffer, Steps
<1>5. Fresh(req)'
  BY <1>0, <1>1, <1>2, <1>4, SlotIds
  DEF Fresh, LiveCase, Read, LiveOffer, AcceptedOn, PendingOn
<1>6. \A s \in Requests : Fresh(requests[s])'
  BY <1>5
<1>7. \A d \in Cases : Settled(d)'
  <2>1. CASE req.pc # "accept_case_save"
    BY <1>0, <1>1, <1>b, <2>1, SettledKept
  <2>2. CASE req.pc = "accept_case_save"
    <3>1. \A d : /\ MadeOn(d)' = MadeOn(d) /\ AcceptedOn(d)' = AcceptedOn(d)
                 /\ PendingOn(d)' = PendingOn(d) /\ (Recording(d)' <=> Recording(d))
      BY <1>0, OneSlot, OneSlotNext DEF MadeOn, AcceptedOn, PendingOn
    <3>2. ASSUME NEW d \in Cases, d # c PROVE Settled(d)'
      <4>1. Settled(d)
        BY DEF AloneInv
      <4> QED BY <1>0, <1>1, <3>1, <3>2, <4>1 DEF Settled, LiveCase
    <3>3. AcceptedOn(c) = {}
      BY <1>3, Known DEF MadeOn, AcceptedOn
    <3>5. Settled(c)'
      BY <1>1, <1>b, <3>1, <3>3 DEF Settled
    <3> QED BY <3>2, <3>5
  <2> QED BY <2>1, <2>2
<1>8. Counted'
  <2>1. \A d : /\ MadeOn(d)' = MadeOn(d)
               /\ Cardinality(Uncounted(d)') = Cardinality(Uncounted(d))
    BY <1>0, OneSlot, OneSlotNext DEF MadeOn
  <2>2. \A l : /\ WonBy(l)' = WonBy(l)
               /\ Cardinality(Uncredited(l)') = Cardinality(Uncredited(l))
    BY <1>0, OneSlot, OneSlotNext DEF WonBy
  <2>3. ASSUME NEW d \in Cases, cases'[d].st # "deleted"
        PROVE  cases'[d].count + Cardinality(Uncounted(d)')
                   = posted'[d].count + Cardinality(MadeOn(d)')
    <3>1. cases[d].st # "deleted"
      BY <1>0, <1>1, <2>3
    <3>2. cases[d].count + Cardinality(Uncounted(d)) = posted[d].count + Cardinality(MadeOn(d))
      BY <3>1 DEF AloneInv, Counted
    <3>3. Cardinality(Uncounted(d)) \in Nat /\ Cardinality(MadeOn(d)) \in Nat
      BY CountTypes, OneSlot
    <3> QED BY <1>0, <1>1, <1>b, <2>1, <3>2, <3>3
  <2> QED BY <1>0, <2>2, <2>3 DEF AloneInv, Counted
<1>9. OneAcceptedOffer' /\ \A o \in won' : offers'[o].st # "pending"
  BY <1>0 DEF AloneInv, OneAcceptedOffer, AcceptedOn
<1> QED BY <1>6, <1>7, <1>8, <1>9 DEF AloneInv

LEMMA AloneCaseEnd ==
    ASSUME IInv, AloneInv, "open" \notin NewStatuses,
           NEW r \in Requests, Requests = {r}, DeleteCase(r) \/ SaveStatus(r)
    PROVE  AloneInv'
<1> DEFINE req == requests[r]
           c == req.case
<1>0. /\ cases \in [Cases -> CaseDoc] /\ won \subseteq OfferIds /\ c \in Cases
      /\ Finish(r) /\ UNCHANGED <<offers, profiles, lawyerOffers, won, posted>>
      /\ req.pc \notin Tail /\ req.pc # "accept_case_save" /\ LiveCase(c)
      /\ Fresh(req)
  BY Known, SlotIds DEF DeleteCase, SaveStatus, history, At, Tail, Fresh
<1>1. \A d \in Cases \ {c} : cases'[d] = cases[d]
  BY <1>0 DEF DeleteCase, SaveStatus
<1>2. \/ cases'[c].st = "deleted" /\ cases'[c].accepted = None
      \/ /\ cases'[c].accepted = cases[c].accepted /\ cases'[c].lawyer = cases[c].lawyer
         /\ cases'[c].count = cases[c].count
         /\ cases'[c].st \notin {"unused", "deleted"}
         /\ cases'[c].st = "open" => cases[c].st = "open"
  <2>1. CASE DeleteCase(r)
    BY <1>0, <2>1 DEF DeleteCase, NoDoc
  <2>2. CASE SaveStatus(r)
    <3>1. req.new \in CaseStatus /\ req.new # "open"
      BY <1>0, <2>2, Known, StatusAssumption DEF SaveStatus, At, Fresh
    <3> QED BY <1>0, <2>2, <3>1 DEF SaveStatus, CaseDoc, LiveCase
  <2> QED BY <2>1, <2>2
<1>3. \A d \in Cases : Settled(d)'
  BY <1>0, <1>1, <1>2, SettledKept
<1>4. requests'[r] = Idle /\ \A s \in Requests : Fresh(requests[s])'
  BY <1>0, FreshIdle, BecomeOne DEF Finish
<1>5. Counted'
  <2>1. requests'[r].pc \notin Tail
    BY <1>4 DEF Idle, Tail
  <2>2. \A d \in Cases : cases'[d].st # "deleted" =>
            cases[d].st # "deleted" /\ cases'[d].count = cases[d].count
    BY <1>0, <1>1, <1>2 DEF LiveCase
  <2> QED BY <1>0, <2>1, <2>2, CountedKept
<1>6. OneAcceptedOffer' /\ \A o \in won' : offers'[o].st # "pending"
  BY <1>0 DEF AloneInv, OneAcceptedOffer, AcceptedOn
<1> QED BY <1>3, <1>4, <1>5, <1>6 DEF AloneInv

(***************************************************************************)
(* An offer is made and counted.                                           *)
(***************************************************************************)
LEMMA AloneInsert ==
    ASSUME IInv, AloneInv, NEW r \in Requests, Requests = {r}, InsertOffer(r)
    PROVE  AloneInv'
<1> DEFINE req == requests[r]
<1>a. req.case \in Cases
  BY SlotIds DEF InsertOffer, At
<1>b. PICK c \in Cases : c = req.case
  BY <1>a
<1>0. /\ offers \in [OfferIds -> OfferDoc] /\ won \subseteq OfferIds
      /\ req \in Request /\ Fresh(req) /\ req.pc = "create_insert"
      /\ UNCHANGED <<cases, profiles, lawyerOffers, won, posted>>
      /\ cases[c].st = "open" /\ HistoryOK
  BY <1>b, Known DEF InsertOffer, At, history, Fresh
<1>1. CASE PairTaken(req.case, req.lawyer)
  <2>1. Finish(r) /\ UNCHANGED <<dbVars, history>> /\ req.pc \notin Tail
    BY <1>0, <1>1 DEF InsertOffer, dbVars, history, Tail
  <2> QED BY <2>1, AloneIdle
<1>2. CASE ~PairTaken(req.case, req.lawyer)
  <2>1. PICK o \in OfferIds, b \in OfferBodies :
           /\ offers[o].st = "unused"
           /\ offers' = [offers EXCEPT ![o] =
                  [st |-> b, case |-> req.case, lawyer |-> req.lawyer]]
           /\ Become(r, [req EXCEPT !.pc = "create_count", !.offer = o])
    BY <1>2 DEF InsertOffer
  <2>2. /\ offers'[o].st # "unused" /\ offers'[o].case = c
        /\ \A p \in OfferIds \ {o} : offers'[p] = offers[p]
        /\ o \notin won
    BY <1>0, <1>b, <2>1, BodyAssumption DEF HistoryOK, Made
  <2>3. PICK q : q = [req EXCEPT !.pc = "create_count", !.offer = o]
    OBVIOUS
  <2>4. q.pc = "create_count" /\ q.case = c /\ q.offer = o
    BY <1>0, <1>b, <2>3 DEF Request
  <2>5. Fresh(q)'
    BY <1>0, <2>4 DEF Fresh
  <2>6. requests'[r] = q /\ \A s \in Requests : Fresh(requests[s])'
    BY <2>1, <2>3, <2>5, BecomeOne
  <2>7. OneAcceptedOffer' /\ \A p \in won' : offers'[p].st # "pending"
    BY <1>0, <2>2 DEF AloneInv, OneAcceptedOffer, AcceptedOn
  <2>8. /\ \A d : AcceptedOn(d)' = AcceptedOn(d)
        /\ \A d : d # c => PendingOn(d)' = PendingOn(d) /\ MadeOn(d)' = MadeOn(d)
        /\ MadeOn(c)' = MadeOn(c) \cup {o} /\ o \notin MadeOn(c)
        /\ \A l : WonBy(l)' = WonBy(l)
    <3>1. \A d : AcceptedOn(d)' = AcceptedOn(d)
      BY <1>0, <2>1, <2>2 DEF AcceptedOn
    <3>2. \A d : d # c => PendingOn(d)' = PendingOn(d) /\ MadeOn(d)' = MadeOn(d)
      BY <2>1, <2>2 DEF PendingOn, MadeOn
    <3>3. MadeOn(c)' = MadeOn(c) \cup {o} /\ o \notin MadeOn(c)
      BY <2>1, <2>2 DEF MadeOn
    <3>4. \A l : WonBy(l)' = WonBy(l)
      BY <1>0, <2>2 DEF WonBy
    <3> QED BY <3>1, <3>2, <3>3, <3>4
  <2>9. \A d : ~Recording(d) /\ ~Recording(d)'
    BY <1>0, <2>4, <2>6, OneSlot, OneSlotNext
  <2>10. AcceptedOn(c) = {}
    BY <1>0, <2>9 DEF AloneInv, Settled, LiveCase
  <2>11. \A d \in Cases : Settled(d)'
    <3>1. ASSUME NEW d \in Cases, d # c PROVE Settled(d)'
      <4>1. Settled(d)
        BY DEF AloneInv
      <4>2. \A p \in AcceptedOn(d) : offers'[p] = offers[p]
        BY <2>1, <2>2 DEF AcceptedOn
      <4> QED BY <1>0, <2>8, <2>9, <3>1, <4>1, <4>2 DEF Settled, LiveCase
    <3>2. Settled(c)'
      BY <1>0, <2>8, <2>10 DEF Settled
    <3> QED BY <3>1, <3>2
  <2>12. Counted'
    <3>1. Cardinality(MadeOn(c)') = Cardinality(MadeOn(c)) + 1
      BY <2>8, CountTypes, FS_AddElement
    <3>2. \A d : Cardinality(Uncounted(d)) = 0 /\
                 Cardinality(Uncounted(d)') = IF d = c THEN 1 ELSE 0
      BY <1>0, <2>4, <2>6, OneSlot, OneSlotNext
    <3>3. \A l : Cardinality(Uncredited(l)') = Cardinality(Uncredited(l))
      BY <1>0, <2>4, <2>6, OneSlot, OneSlotNext
    <3>4. \A d \in Cases : cases[d].count \in Nat
      BY Known DEF CaseDoc
    <3>5. ASSUME NEW d \in Cases, cases[d].st # "deleted"
          PROVE  cases[d].count + Cardinality(Uncounted(d)') = posted[d].count + Cardinality(MadeOn(d)')
      <4>1. cases[d].count + Cardinality(Uncounted(d)) = posted[d].count + Cardinality(MadeOn(d))
        BY <3>5 DEF AloneInv, Counted
      <4>2. posted[d].count \in Nat
        BY Known DEF Posting
      <4>3. CASE d = c
        <5>1. cases[c].count + 0 = posted[c].count + Cardinality(MadeOn(c))
          BY <3>2, <4>1, <4>3
        <5>2. Cardinality(MadeOn(c)) \in Nat /\ Cardinality(Uncounted(c)') = 1
          BY <3>2, CountTypes
        <5>3. cases[c].count + Cardinality(Uncounted(c)') = posted[c].count + Cardinality(MadeOn(c)')
          BY <3>1, <3>4, <4>2, <4>3, <5>1, <5>2
        <5> QED BY <4>3, <5>3
      <4>4. CASE d # c
        BY <2>8, <3>2, <3>4, <4>1, <4>2, <4>4
      <4> QED BY <4>3, <4>4
    <3>6. UNCHANGED <<cases, posted, profiles, lawyerOffers>>
      BY <1>0
    <3>7. ASSUME NEW l \in profiles
          PROVE  lawyerOffers[l] + Cardinality(Uncredited(l)') = Cardinality(WonBy(l)')
      BY <2>8, <3>3 DEF AloneInv, Counted
    <3> QED BY <3>5, <3>6, <3>7 DEF Counted
  <2> QED BY <2>6, <2>7, <2>11, <2>12 DEF AloneInv
<1> QED BY <1>1, <1>2

LEMMA AloneCount ==
    ASSUME IInv, AloneInv, NEW r \in Requests, Requests = {r}, CountOffer(r)
    PROVE  AloneInv'
<1> DEFINE req == requests[r]
           c == req.case
<1>0. /\ cases \in [Cases -> CaseDoc] /\ req.pc = "create_count" /\ c \in Cases
      /\ LiveCase(c) /\ Finish(r) /\ UNCHANGED <<offers, profiles, lawyerOffers, won, posted>>
      /\ cases' = [cases EXCEPT ![c].count = @ + 1]
  BY Known, SlotIds DEF CountOffer, At, history, Fresh, LiveCase
<1>1. /\ \A d \in Cases \ {c} : cases'[d] = cases[d]
      /\ cases'[c].st = cases[c].st /\ cases'[c].accepted = cases[c].accepted
      /\ cases'[c].lawyer = cases[c].lawyer
      /\ cases'[c].count = cases[c].count + 1
  BY <1>0 DEF CaseDoc
<1>2. requests'[r] = Idle /\ \A s \in Requests : Fresh(requests[s])'
  BY <1>0, FreshIdle, BecomeOne DEF Finish
<1>3. \A d \in Cases : Settled(d)'
  BY <1>0, <1>1, SettledKept DEF LiveCase
<1>4. OneAcceptedOffer' /\ \A o \in won' : offers'[o].st # "pending"
  BY <1>0 DEF AloneInv, OneAcceptedOffer, AcceptedOn
<1>5. Counted'
  <2>1. \A d : /\ Cardinality(Uncounted(d)) = IF d = c THEN 1 ELSE 0
               /\ Cardinality(Uncounted(d)') = 0
               /\ MadeOn(d)' = MadeOn(d)
    BY <1>0, <1>2, OneSlot, OneSlotNext DEF Idle, MadeOn
  <2>2. \A l : /\ Cardinality(Uncredited(l)') = Cardinality(Uncredited(l))
               /\ WonBy(l)' = WonBy(l)
    BY <1>0, <1>2, OneSlot, OneSlotNext DEF Idle, WonBy
  <2>3. \A d \in Cases : cases[d].count \in Nat
    BY <1>0 DEF CaseDoc
  <2>4. ASSUME NEW d \in Cases, cases'[d].st # "deleted"
        PROVE  cases'[d].count + Cardinality(Uncounted(d)') = posted[d].count + Cardinality(MadeOn(d)')
    <3>1. cases[d].count + Cardinality(Uncounted(d)) = posted[d].count + Cardinality(MadeOn(d))
      BY <1>1, <2>4 DEF AloneInv, Counted
    <3> QED BY <1>1, <2>1, <2>3, <3>1
  <2> QED BY <1>0, <2>2, <2>4 DEF AloneInv, Counted
<1> QED BY <1>2, <1>3, <1>4, <1>5 DEF AloneInv

(***************************************************************************)
(* An offer is decided on or deleted.                                      *)
(***************************************************************************)
\* One offer gets another status.
LEMMA StatusWrite ==
    ASSUME IInv, NEW o \in OfferIds, Made(o), NEW s \in {"accepted", "rejected", "deleted"},
           offers' = [offers EXCEPT ![o].st = s]
    PROVE  /\ offers'[o].st = s /\ \A p \in OfferIds \ {o} : offers'[p] = offers[p]
           /\ \A p \in OfferIds : /\ offers'[p].case = offers[p].case
                                  /\ offers'[p].lawyer = offers[p].lawyer
                                  /\ offers'[p].st # "unused" <=> offers[p].st # "unused"
           /\ \A d : MadeOn(d)' = MadeOn(d) /\ PendingOn(d)' = PendingOn(d) \ {o}
<1>1. offers \in [OfferIds -> OfferDoc]
  BY DEF IInv, DbOK, DbTypeOK
<1>2. /\ offers'[o].st = s /\ \A p \in OfferIds \ {o} : offers'[p] = offers[p]
      /\ \A p \in OfferIds : /\ offers'[p].case = offers[p].case
                             /\ offers'[p].lawyer = offers[p].lawyer
                             /\ offers'[p].st # "unused" <=> offers[p].st # "unused"
  BY <1>1 DEF OfferDoc, Made
<1>3. \A d : MadeOn(d)' = MadeOn(d) /\ PendingOn(d)' = PendingOn(d) \ {o}
  BY <1>2 DEF MadeOn, PendingOn
<1> QED BY <1>2, <1>3

\* An offer that is rejected or deleted leaves every case as settled as it was.
LEMMA AloneDrop ==
    ASSUME IInv, AloneInv, NEW r \in Requests, Requests = {r},
           requests[r].pc \notin Tail, requests'[r].pc \notin Tail,
           NEW o \in OfferIds, Made(o), NEW s \in {"rejected", "deleted"},
           offers' = [offers EXCEPT ![o].st = s],
           UNCHANGED <<cases, profiles, lawyerOffers, won, posted>>,
           \A t \in Requests : Fresh(requests[t])'
    PROVE  AloneInv'
<1>1. /\ offers'[o].st = s /\ \A p \in OfferIds \ {o} : offers'[p] = offers[p]
      /\ \A p \in OfferIds : /\ offers'[p].case = offers[p].case
                             /\ offers'[p].lawyer = offers[p].lawyer
                             /\ offers'[p].st # "unused" <=> offers[p].st # "unused"
      /\ \A d : MadeOn(d)' = MadeOn(d) /\ PendingOn(d)' = PendingOn(d) \ {o}
  BY StatusWrite
<1>2. \A d : AcceptedOn(d)' \subseteq AcceptedOn(d) /\ ~Recording(d) /\ ~Recording(d)'
  BY <1>1, OneSlot, OneSlotNext DEF AcceptedOn, Tail
<1>3. won \subseteq OfferIds
  BY Known
<1>4. OneAcceptedOffer' /\ \A p \in won' : offers'[p].st # "pending"
  BY <1>1, <1>2, <1>3 DEF AloneInv, OneAcceptedOffer
<1>5. ASSUME NEW d \in Cases PROVE Settled(d)'
  <2>1. Settled(d)
    BY DEF AloneInv
  <2>2. \A p \in AcceptedOn(d)' : offers'[p].lawyer = offers[p].lawyer
    BY <1>1 DEF AcceptedOn
  <2> QED BY <1>1, <1>2, <2>1, <2>2 DEF Settled, LiveCase
<1>6. Counted'
  BY <1>1, <1>3, CountedKept
<1> QED BY <1>4, <1>5, <1>6 DEF AloneInv

LEMMA AloneOfferEnd ==
    ASSUME IInv, AloneInv, NEW r \in Requests, Requests = {r},
           SaveRejectedOffer(r) \/ DeleteOffer(r)
    PROVE  AloneInv'
<1> DEFINE req == requests[r]
<1>1. req.offer \in OfferIds /\ Made(req.offer) /\ Fresh(req)
  BY Known, SlotIds DEF SaveRejectedOffer, DeleteOffer, At, OnOffer
<1>2. PICK o \in OfferIds : o = req.offer
  BY <1>1
<1>3. /\ Finish(r) /\ UNCHANGED <<cases, profiles, lawyerOffers, won, posted>>
      /\ req.pc \notin Tail
  BY DEF SaveRejectedOffer, DeleteOffer, history, At, Tail
<1>4. requests'[r] = Idle /\ \A t \in Requests : Fresh(requests[t])'
  BY <1>3, FreshIdle, BecomeOne DEF Finish
<1>5. requests'[r].pc \notin Tail
  BY <1>4 DEF Idle, Tail
<1>6. \E s \in {"rejected", "deleted"} : offers' = [offers EXCEPT ![o].st = s]
  BY <1>1, <1>2 DEF SaveRejectedOffer, DeleteOffer, At, Fresh, LiveOffer
<1> QED BY <1>1, <1>2, <1>3, <1>4, <1>5, <1>6, AloneDrop

\* updateMany visits one more offer: the accepted one is among them.
LEMMA AloneSweep ==
    ASSUME IInv, AloneInv, NEW r \in Requests, Requests = {r},
           NEW o \in OfferIds, RejectOnePending(r, o)
    PROVE  AloneInv'
<1> DEFINE req == requests[r]
<1>1. /\ req \in Request /\ Fresh(req) /\ req.pc = "accept_save" /\ o \in req.todo
      /\ req.case \in Cases /\ req.offer \in OfferIds
      /\ offers \in [OfferIds -> OfferDoc]
  BY Known, SlotIds DEF RejectOnePending, At, OnOffer
<1>2. PICK c \in Cases : c = req.case
  BY <1>1
<1>3. /\ req.offer \notin won /\ LiveCase(c) /\ req.doc = Read(c)
      /\ LiveOffer(req.offer) /\ AcceptedOn(c) = {} /\ req.todo = PendingOn(c)
  BY <1>1, <1>2 DEF Fresh
<1>4. offers[o].st = "pending" /\ Made(o)
  BY <1>1, <1>3 DEF PendingOn, Made
<1>5. /\ offers' = [offers EXCEPT ![o].st = "rejected"]
      /\ Become(r, [req EXCEPT !.todo = req.todo \ {o}])
      /\ UNCHANGED <<cases, profiles, lawyerOffers, won, posted>>
  BY <1>4 DEF RejectOnePending, history
<1>6. /\ offers'[o].st = "rejected" /\ \A p \in OfferIds \ {o} : offers'[p] = offers[p]
      /\ \A d : PendingOn(d)' = PendingOn(d) \ {o}
  BY <1>4, <1>5, StatusWrite
<1>7. PICK q : q = [req EXCEPT !.todo = req.todo \ {o}]
  OBVIOUS
<1>8. /\ q.pc = "accept_save" /\ q.case = c /\ q.offer = req.offer /\ q.doc = req.doc
      /\ q.todo = req.todo \ {o}
  BY <1>1, <1>2, <1>7 DEF Request
<1>9. AcceptedOn(c)' = {}
  <2>1. won' = won /\ won \subseteq OfferIds
    BY <1>5, Known
  <2> QED BY <1>3, <1>6, <2>1 DEF AcceptedOn
<1>10. offers'[q.offer].st \notin {"unused", "deleted"}
  BY <1>1, <1>3, <1>6, <1>8 DEF LiveOffer
<1>11. LiveCase(c)' /\ Read(c)' = Read(c)
  BY <1>3, <1>5 DEF LiveCase, Read
<1>12. Fresh(q)'
  BY <1>3, <1>5, <1>6, <1>8, <1>9, <1>10, <1>11 DEF Fresh, LiveOffer
<1>13. requests'[r] = q /\ \A t \in Requests : Fresh(requests[t])'
  BY <1>5, <1>7, <1>12, BecomeOne
<1>14. req.pc \notin Tail /\ requests'[r].pc \notin Tail
  BY <1>1, <1>8, <1>13 DEF Tail
<1> QED BY <1>4, <1>5, <1>13, <1>14, AloneDrop

LEMMA AloneSaveOffer ==
    ASSUME IInv, AloneInv, NEW r \in Requests, Requests = {r}, SaveAcceptedOffer(r)
    PROVE  AloneInv'
<1> DEFINE req == requests[r]
<1>1. /\ req \in Request /\ Fresh(req) /\ req.pc = "accept_save" /\ req.todo = {}
      /\ req.case \in Cases /\ req.offer \in OfferIds /\ Made(req.offer)
      /\ req.lawyer \in Lawyers
      /\ req.case = offers[req.offer].case /\ req.lawyer = offers[req.offer].lawyer
      /\ offers \in [OfferIds -> OfferDoc] /\ won \subseteq OfferIds
  BY Known, SlotIds DEF SaveAcceptedOffer, At, OnOffer
<1>2. PICK c \in Cases : c = req.case
  BY <1>1
<1>3. PICK o \in OfferIds : o = req.offer
  BY <1>1
<1>4. /\ o \notin won /\ LiveCase(c) /\ req.doc = Read(c) /\ LiveOffer(o)
      /\ AcceptedOn(c) = {} /\ PendingOn(c) = {} /\ Made(o)
      /\ offers[o].case = c /\ offers[o].lawyer = req.lawyer
  BY <1>1, <1>2, <1>3 DEF Fresh
<1>5. /\ offers' = [offers EXCEPT ![o].st = "accepted"] /\ won' = won \cup {o}
      /\ Goto(r, "accept_case_save") /\ UNCHANGED <<cases, profiles, lawyerOffers, posted>>
  BY <1>3, <1>4 DEF SaveAcceptedOffer
<1>6. /\ offers'[o].st = "accepted" /\ \A p \in OfferIds \ {o} : offers'[p] = offers[p]
      /\ \A p \in OfferIds : /\ offers'[p].case = offers[p].case
                             /\ offers'[p].lawyer = offers[p].lawyer
      /\ \A d : MadeOn(d)' = MadeOn(d) /\ PendingOn(d)' = PendingOn(d) \ {o}
  BY <1>4, <1>5, StatusWrite
<1>7. PICK q : q = [req EXCEPT !.pc = "accept_case_save"]
  OBVIOUS
<1>8. /\ q.pc = "accept_case_save" /\ q.case = c /\ q.offer = o /\ q.doc = req.doc
      /\ q.lawyer = req.lawyer
  BY <1>1, <1>2, <1>3, <1>7 DEF Request
<1>9. /\ AcceptedOn(c)' = {o} /\ \A d : d # c => AcceptedOn(d)' = AcceptedOn(d)
  BY <1>1, <1>4, <1>5, <1>6 DEF AcceptedOn
<1>10. LiveCase(c)' /\ Read(c)' = Read(c)
  BY <1>4, <1>5 DEF LiveCase, Read
<1>11. Fresh(q)'
  BY <1>4, <1>8, <1>9, <1>10 DEF Fresh
<1>12. requests'[r] = q /\ \A t \in Requests : Fresh(requests[t])'
  BY <1>5, <1>7, <1>11, BecomeOne DEF Goto
<1>13. OneAcceptedOffer'
  BY <1>9 DEF AloneInv, OneAcceptedOffer
<1>14. \A p \in won' : offers'[p].st # "pending"
  BY <1>1, <1>5, <1>6 DEF AloneInv
<1>15. \A d : ~Recording(d) /\ (Recording(d)' <=> d = c)
  BY <1>1, <1>8, <1>12, OneSlot, OneSlotNext
<1>16. ASSUME NEW d \in Cases PROVE Settled(d)'
  <2>1. Settled(d)
    BY DEF AloneInv
  <2>2. \A p \in AcceptedOn(d)' : offers'[p].lawyer = offers[p].lawyer
    BY <1>1, <1>5, <1>6 DEF AcceptedOn
  <2>3. CASE d = c
    BY <1>4, <1>5, <1>6, <1>15, <2>1, <2>3 DEF Settled, LiveCase
  <2>4. CASE d # c
    BY <1>5, <1>6, <1>9, <1>15, <2>1, <2>2, <2>4 DEF Settled, LiveCase
  <2> QED BY <2>3, <2>4
<1>17. Counted'
  <2>1. \A d : Cardinality(Uncounted(d)') = Cardinality(Uncounted(d))
    BY <1>1, <1>8, <1>12, OneSlot, OneSlotNext
  <2>2. PICK m \in Lawyers : m = req.lawyer
    BY <1>1
  <2>3. \A l : /\ Cardinality(Uncredited(l)) = 0
               /\ Cardinality(Uncredited(l)') = IF l = m THEN 1 ELSE 0
    BY <1>1, <1>8, <1>12, <2>2, OneSlot, OneSlotNext
  <2>4. /\ WonBy(m)' = WonBy(m) \cup {o} /\ o \notin WonBy(m)
        /\ \A l : l # m => WonBy(l)' = WonBy(l)
    BY <1>1, <1>4, <1>5, <1>6, <2>2 DEF WonBy
  <2>5. Cardinality(WonBy(m)') = Cardinality(WonBy(m)) + 1
    BY <2>4, CountTypes, FS_AddElement
  <2>6. \A l \in Lawyers : lawyerOffers[l] \in Nat
    BY Known
  <2>7. profiles \subseteq Lawyers
    BY Known
  <2>8. ASSUME NEW l \in profiles
        PROVE  lawyerOffers[l] + Cardinality(Uncredited(l)') = Cardinality(WonBy(l)')
    <3>1. lawyerOffers[l] + Cardinality(Uncredited(l)) = Cardinality(WonBy(l))
      BY DEF AloneInv, Counted
    <3>2. lawyerOffers[l] \in Nat
      BY <2>6, <2>7
    <3>3. CASE l = m
      BY <2>3, <2>5, <3>1, <3>2, <3>3
    <3>4. CASE l # m
      BY <2>3, <2>4, <3>1, <3>2, <3>4
    <3> QED BY <3>3, <3>4
  <2>9. ASSUME NEW d \in Cases, cases[d].st # "deleted"
        PROVE  cases[d].count + Cardinality(Uncounted(d)') = posted[d].count + Cardinality(MadeOn(d)')
    BY <1>6, <2>1, <2>9 DEF AloneInv, Counted
  <2> QED BY <1>5, <2>8, <2>9 DEF Counted
<1> QED BY <1>12, <1>13, <1>14, <1>16, <1>17 DEF AloneInv

(***************************************************************************)
(* The case follows, and the lawyer is credited.                           *)
(***************************************************************************)
\* With nothing stale save() leaves all three fields as they are in memory.
LEMMA SavedFresh ==
    ASSUME NEW stored \in CaseDoc, NEW doc, NEW new,
           doc.st = stored.st, doc.lawyer = stored.lawyer, doc.accepted = stored.accepted
    PROVE  /\ Saved(stored, doc, new).st = new.st
           /\ Saved(stored, doc, new).lawyer = new.lawyer
           /\ Saved(stored, doc, new).accepted = new.accepted
           /\ Saved(stored, doc, new).count = stored.count
<1>1. Saved(stored, doc, new) =
         [stored EXCEPT
             !.lawyer = IF new.lawyer = stored.lawyer THEN stored.lawyer ELSE new.lawyer,
             !.accepted = IF new.accepted = stored.accepted THEN stored.accepted ELSE new.accepted,
             !.st = IF new.st = stored.st THEN stored.st ELSE new.st]
  BY DEF Saved
<1> QED BY <1>1 DEF CaseDoc

LEMMA SaveCaseFresh ==
    ASSUME IInv, AloneInv, NEW r \in Requests, SaveCaseOfAccepted(r),
           NEW c, c = requests[r].case, NEW o, o = requests[r].offer
    PROVE  /\ c \in Cases /\ o \in OfferIds /\ offers[o].case = c
           /\ offers[o].lawyer = requests[r].lawyer
           /\ LiveCase(c) /\ AcceptedOn(c) = {o} /\ o \in won
           /\ Goto(r, "accept_count")
           /\ UNCHANGED <<offers, profiles, lawyerOffers, won, posted>>
           /\ \A d \in Cases \ {c} : cases'[d] = cases[d]
           /\ cases'[c].st = "in_progress" /\ cases'[c].accepted = o
           /\ cases'[c].lawyer = offers[o].lawyer /\ cases'[c].count = cases[c].count
<1> DEFINE req == requests[r]
           new == [req.doc EXCEPT !.lawyer = req.lawyer, !.accepted = req.offer,
                                  !.st = "in_progress"]
<1>1. /\ Fresh(req) /\ SlotOK(req) /\ req.pc = "accept_case_save"
      /\ cases \in [Cases -> CaseDoc] /\ c \in Cases
      /\ o \in OfferIds /\ offers[o].case = c /\ offers[o].lawyer = req.lawyer
  BY Known, SlotIds DEF SaveCaseOfAccepted, At, OnOffer
<1>2. LiveCase(c) /\ req.doc = Read(c) /\ AcceptedOn(c) = {o} /\ o \in won
  BY <1>1 DEF Fresh, SlotOK, AfterWon
<1>3. /\ Goto(r, "accept_count") /\ UNCHANGED <<offers, profiles, lawyerOffers, won, posted>>
      /\ cases' = [cases EXCEPT ![c] = Saved(cases[c], req.doc, new)]
  BY <1>2 DEF SaveCaseOfAccepted
<1>4. /\ cases[c] \in CaseDoc /\ req.doc \in CaseRead
      /\ req.doc.st = cases[c].st /\ req.doc.lawyer = cases[c].lawyer
      /\ req.doc.accepted = cases[c].accepted
  BY <1>1, <1>2, Known DEF Read, Request
<1>5. /\ Saved(cases[c], req.doc, new).st = "in_progress"
      /\ Saved(cases[c], req.doc, new).lawyer = req.lawyer
      /\ Saved(cases[c], req.doc, new).accepted = req.offer
      /\ Saved(cases[c], req.doc, new).count = cases[c].count
  <2>1. new.st = "in_progress" /\ new.lawyer = req.lawyer /\ new.accepted = req.offer
    BY <1>4 DEF CaseRead
  <2> HIDE DEF new
  <2> QED BY <1>4, <2>1, SavedFresh
<1> HIDE DEF new
<1> QED BY <1>1, <1>2, <1>3, <1>5

LEMMA AloneSaveCase ==
    ASSUME IInv, AloneInv, NEW r \in Requests, Requests = {r}, SaveCaseOfAccepted(r)
    PROVE  AloneInv'
<1> DEFINE req == requests[r]
<1>1. PICK c : c = req.case
  OBVIOUS
<1>2. PICK o : o = req.offer
  OBVIOUS
<1>3. /\ c \in Cases /\ o \in OfferIds /\ offers[o].case = c /\ offers[o].lawyer = req.lawyer
      /\ LiveCase(c) /\ AcceptedOn(c) = {o}
      /\ Goto(r, "accept_count")
      /\ UNCHANGED <<offers, profiles, lawyerOffers, won, posted>>
      /\ \A d \in Cases \ {c} : cases'[d] = cases[d]
      /\ cases'[c].st = "in_progress" /\ cases'[c].accepted = o
      /\ cases'[c].lawyer = offers[o].lawyer /\ cases'[c].count = cases[c].count
  BY <1>1, <1>2, SaveCaseFresh
<1>4. req \in Request /\ req.pc = "accept_case_save"
  BY Known DEF SaveCaseOfAccepted, At
<1>5. PICK q : q = [req EXCEPT !.pc = "accept_count"]
  OBVIOUS
<1>6. q.pc = "accept_count" /\ q.case = c /\ q.lawyer = req.lawyer
  BY <1>1, <1>4, <1>5 DEF Request
<1>7. Fresh(q)'
  BY <1>6 DEF Fresh
<1>8. requests'[r] = q /\ \A t \in Requests : Fresh(requests[t])'
  BY <1>3, <1>5, <1>7, BecomeOne DEF Goto
<1>9. OneAcceptedOffer' /\ \A p \in won' : offers'[p].st # "pending"
  BY <1>3 DEF AloneInv, OneAcceptedOffer, AcceptedOn
<1>10. \A d : (Recording(d) <=> d = c) /\ ~Recording(d)'
  BY <1>1, <1>4, <1>6, <1>8, OneSlot, OneSlotNext
<1>11. \A d : /\ MadeOn(d)' = MadeOn(d) /\ AcceptedOn(d)' = AcceptedOn(d)
              /\ PendingOn(d)' = PendingOn(d)
  BY <1>3 DEF MadeOn, AcceptedOn, PendingOn
<1>12. ASSUME NEW d \in Cases PROVE Settled(d)'
  <2>1. Settled(d)
    BY DEF AloneInv
  <2>2. CASE d = c
    BY <1>3, <1>11, <2>1, <2>2 DEF Settled
  <2>3. CASE d # c
    BY <1>3, <1>10, <1>11, <2>1, <2>3 DEF Settled, LiveCase
  <2> QED BY <2>2, <2>3
<1>13. Counted'
  <2>1. \A d : Cardinality(Uncounted(d)') = Cardinality(Uncounted(d))
    BY <1>4, <1>6, <1>8, OneSlot, OneSlotNext
  <2>2. \A l : /\ Cardinality(Uncredited(l)') = Cardinality(Uncredited(l))
               /\ WonBy(l)' = WonBy(l)
    BY <1>3, <1>4, <1>6, <1>8, OneSlot, OneSlotNext DEF WonBy
  <2>3. \A d \in Cases : /\ cases'[d].st # "deleted" => cases[d].st # "deleted"
                         /\ cases'[d].count = cases[d].count
    BY <1>3 DEF LiveCase
  <2> QED BY <1>3, <1>11, <2>1, <2>2, <2>3 DEF AloneInv, Counted
<1> QED BY <1>8, <1>9, <1>12, <1>13 DEF AloneInv

LEMMA AloneCredit ==
    ASSUME IInv, AloneInv, NEW r \in Requests, Requests = {r}, CountAcceptance(r)
    PROVE  AloneInv'
<1> DEFINE req == requests[r]
<1>1. /\ req \in Request /\ req.pc = "accept_count" /\ req.lawyer \in Lawyers
      /\ lawyerOffers \in [Lawyers -> Nat] /\ profiles \subseteq Lawyers
  BY Known, SlotIds DEF CountAcceptance, At, OnOffer
<1>2. PICK m \in Lawyers : m = req.lawyer
  BY <1>1
<1>3. /\ Goto(r, "accept_notify") /\ UNCHANGED <<offers, cases, profiles, won, posted>>
      /\ \A l \in profiles : lawyerOffers'[l] = IF l = m THEN lawyerOffers[l] + 1
                                                ELSE lawyerOffers[l]
  BY <1>1, <1>2 DEF CountAcceptance, history
<1>4. PICK q : q = [req EXCEPT !.pc = "accept_notify"]
  OBVIOUS
<1>5. q.pc = "accept_notify"
  BY <1>1, <1>4 DEF Request
<1>6. Fresh(q)'
  BY <1>5 DEF Fresh
<1>7. requests'[r] = q /\ \A t \in Requests : Fresh(requests[t])'
  BY <1>3, <1>4, <1>6, BecomeOne DEF Goto
<1>8. OneAcceptedOffer' /\ \A p \in won' : offers'[p].st # "pending"
  BY <1>3 DEF AloneInv, OneAcceptedOffer, AcceptedOn
<1>9. \A d : ~Recording(d) /\ ~Recording(d)'
  BY <1>1, <1>5, <1>7, OneSlot, OneSlotNext
<1>10. \A d : /\ MadeOn(d)' = MadeOn(d) /\ AcceptedOn(d)' = AcceptedOn(d)
              /\ PendingOn(d)' = PendingOn(d)
  BY <1>3 DEF MadeOn, AcceptedOn, PendingOn
<1>11. \A d \in Cases : Settled(d)'
  BY <1>3, <1>9, <1>10 DEF AloneInv, Settled, LiveCase
<1>12. Counted'
  <2>1. \A d : Cardinality(Uncounted(d)') = Cardinality(Uncounted(d))
    BY <1>1, <1>5, <1>7, OneSlot, OneSlotNext
  <2>2. \A l : /\ Cardinality(Uncredited(l)) = IF l = m THEN 1 ELSE 0
               /\ Cardinality(Uncredited(l)') = 0
               /\ WonBy(l)' = WonBy(l)
    BY <1>1, <1>2, <1>3, <1>5, <1>7, OneSlot, OneSlotNext DEF WonBy
  <2>3. ASSUME NEW l \in profiles
        PROVE  lawyerOffers'[l] + Cardinality(Uncredited(l)') = Cardinality(WonBy(l)')
    <3>1. lawyerOffers[l] + Cardinality(Uncredited(l)) = Cardinality(WonBy(l))
      BY DEF AloneInv, Counted
    <3>2. lawyerOffers[l] \in Nat
      BY <1>1
    <3> QED BY <1>3, <2>2, <3>1, <3>2
  <2>4. ASSUME NEW d \in Cases, cases[d].st # "deleted"
        PROVE  cases[d].count + Cardinality(Uncounted(d)') = posted[d].count + Cardinality(MadeOn(d)')
    BY <1>10, <2>1, <2>4 DEF AloneInv, Counted
  <2> QED BY <1>3, <2>3, <2>4 DEF Counted
<1> QED BY <1>7, <1>8, <1>11, <1>12 DEF AloneInv

(***************************************************************************)
(* The invariant.                                                          *)
(***************************************************************************)
LEMMA AloneInit ==
    ASSUME NEW r \in Requests, Requests = {r}
    PROVE  Init => AloneInv
<1> SUFFICES ASSUME Init PROVE AloneInv
  OBVIOUS
<1>1. \A s \in Requests : Fresh(requests[s])
  BY DEF Init, Fresh, Idle
<1>2. \A c : MadeOn(c) = {} /\ AcceptedOn(c) = {} /\ PendingOn(c) = {}
  BY DEF Init, MadeOn, AcceptedOn, PendingOn
<1>3. \A c \in Cases : Settled(c)
  BY <1>2 DEF Init, NoDoc, Settled
<1>4. Counted
  <2>1. /\ \A c : Cardinality(Uncounted(c)) = 0
        /\ \A l : Cardinality(Uncredited(l)) = 0
    BY OneSlot DEF Init, Idle
  <2>2. \A l : WonBy(l) = {}
    BY DEF Init, WonBy
  <2>3. /\ \A c \in Cases : cases[c].count = 0 /\ posted[c].count = 0
        /\ \A l \in Lawyers : lawyerOffers[l] = 0
        /\ profiles = Lawyers
    BY DEF Init, NoDoc
  <2>4. /\ \A c : Cardinality(MadeOn(c)) = 0
        /\ \A l : Cardinality(WonBy(l)) = 0
    BY <1>2, <2>2, FS_EmptySet
  <2> QED BY <2>1, <2>3, <2>4 DEF Counted
<1>5. OneAcceptedOffer /\ \A o \in won : offers[o].st # "pending"
  BY DEF Init, OneAcceptedOffer, AcceptedOn
<1> QED BY <1>1, <1>3, <1>4, <1>5 DEF AloneInv

LEMMA AloneStep == OneAtATime /\ IInv /\ AloneInv /\ [Next]_vars => AloneInv'
<1> SUFFICES ASSUME OneAtATime, IInv, AloneInv, [Next]_vars PROVE AloneInv'
  OBVIOUS
<1>1. PICK r \in Requests : Requests = {r}
  BY DEF OneAtATime
<1>2. CASE Arrive(r)
  BY <1>1, <1>2, AloneArrive
<1>3. CASE FindExistingOffer(r) \/ ReadCaseForAccept(r) \/ StartRejectingPending(r)
               \/ ReadCaseForReject(r)
  BY <1>1, <1>3, AloneReading
<1>4. CASE InsertOffer(r) \/ CountOffer(r)
  BY <1>1, <1>4, AloneInsert, AloneCount
<1>5. CASE (\E o \in OfferIds : RejectOnePending(r, o)) \/ SaveAcceptedOffer(r)
               \/ SaveRejectedOffer(r) \/ DeleteOffer(r)
  BY <1>1, <1>5, AloneSweep, AloneSaveOffer, AloneOfferEnd
<1>6. CASE SaveCaseOfAccepted(r) \/ CountAcceptance(r)
  BY <1>1, <1>6, AloneSaveCase, AloneCredit
<1>7. CASE NotifyAccepted(r)
  <2>1. Idle \in Request /\ Fresh(Idle) /\ Idle.pc \notin Tail
    BY IdleOK DEF Idle, Fresh, Tail
  <2>2. /\ UNCHANGED <<offers, cases, lawyerOffers, profiles, won, posted>>
        /\ Become(r, Idle) /\ requests[r].pc \notin Tail
    BY <1>7 DEF NotifyAccepted, history, Finish, At, Tail
  <2> QED BY <1>1, <2>1, <2>2, AloneKeep
<1>8. CASE DeleteCase(r) \/ SaveStatus(r)
  BY <1>1, <1>8, AloneCaseEnd DEF OneAtATime
<1>9. CASE \E c \in Cases : CreateCase(c)
  BY <1>1, <1>9, AloneCreateCase
<1>10. CASE (\E l \in Lawyers : DeleteLawyerProfile(l)) \/ UNCHANGED vars
  <2>1. /\ UNCHANGED <<offers, cases, lawyerOffers, won, requests, posted>>
        /\ profiles' \subseteq profiles
    BY <1>10 DEF DeleteLawyerProfile, vars, dbVars, history
  <2> QED BY <1>1, <2>1, AloneKeep
<1>11. ~Fail(r)
  BY DEF OneAtATime, Fail
<1> QED BY <1>1, <1>2, <1>3, <1>4, <1>5, <1>6, <1>7, <1>8, <1>9, <1>10, <1>11 DEF Next, Proceed

\* Requests that come one at a time, none of which dies, never act on anything stale:
\* what holds of the request in flight and of every case at each call.
THEOREM AloneInvariance ==
    ASSUME OneAtATime
    PROVE  Spec => []AloneInv
<1>1. Init => AloneInv
  BY AloneInit DEF OneAtATime
<1>2. IInv /\ AloneInv /\ [Next]_vars => AloneInv'
  BY AloneStep
<1> QED BY <1>1, <1>2, Invariance, PTL DEF Spec

\* One request at a time, a client accepts one offer of a case and no more.
THEOREM AloneOneAccepted ==
    ASSUME OneAtATime
    PROVE  Spec => []OneAcceptedOffer
<1>1. AloneInv => OneAcceptedOffer
  BY DEF AloneInv
<1> QED BY <1>1, AloneInvariance, PTL

\* One request at a time, an acceptance leaves no other offer of the case to decide on,
\* not even of a case that is deleted later.
THEOREM AloneSettles ==
    ASSUME OneAtATime
    PROVE  Spec => []AcceptanceSettlesCase
<1>1. AloneInv => AcceptanceSettlesCase
  BY DEF AcceptanceSettlesCase, AloneInv, Settled
<1> QED BY <1>1, AloneInvariance, Invariance, PTL

\* One request at a time, a case whose client accepted an offer is no longer open and names
\* that offer and its lawyer, through every update, delete and status that follows.
THEOREM AloneFollows ==
    ASSUME OneAtATime
    PROVE  Spec => []CaseFollowsAcceptance
<1>1. AloneInv => CaseFollowsAcceptance
  <2> SUFFICES ASSUME AloneInv, Quiet PROVE CaseFollowsAcceptance
    BY DEF CaseFollowsAcceptance
  <2>1. \A c : ~Recording(c)
    BY DEF Quiet, Recording, At
  <2> QED BY <2>1 DEF AloneInv, Settled, CaseFollowsAcceptance
<1> QED BY <1>1, AloneInvariance, Invariance, PTL

\* One request at a time, offers_count of a case is what its body named and the number of
\* offers made on it since, and offers_count of a lawyer the number he or she has won.
THEOREM AloneCounts ==
    ASSUME OneAtATime
    PROVE  Spec => []CountersAgree
<1>1. IInv /\ AloneInv => CountersAgree
  <2> SUFFICES ASSUME IInv, AloneInv, Quiet PROVE CountersAgree
    BY DEF CountersAgree
  <2>1. /\ \A c : Uncounted(c) = {}
        /\ \A l : Uncredited(l) = {}
    BY DEF Quiet, Uncounted, Uncredited, At
  <2>2. \A c \in Cases : cases[c].count \in Nat
    BY DEF IInv, DbOK, DbTypeOK, CaseDoc
  <2>3. \A l \in profiles : lawyerOffers[l] \in Nat
    BY DEF IInv, DbOK, DbTypeOK
  <2>4. \A c \in Cases : LiveCase(c) => cases[c].count = posted[c].count + Cardinality(MadeOn(c))
    <3> SUFFICES ASSUME NEW c \in Cases, LiveCase(c)
                 PROVE  cases[c].count = posted[c].count + Cardinality(MadeOn(c))
      OBVIOUS
    <3>1. cases[c].count + Cardinality(Uncounted(c)) = posted[c].count + Cardinality(MadeOn(c))
      BY DEF AloneInv, Counted, LiveCase
    <3>2. Cardinality(Uncounted(c)) = 0
      BY <2>1, FS_EmptySet
    <3> QED BY <2>2, <3>1, <3>2
  <2>5. \A l \in profiles : lawyerOffers[l] = Cardinality(WonBy(l))
    <3> SUFFICES ASSUME NEW l \in profiles PROVE lawyerOffers[l] = Cardinality(WonBy(l))
      OBVIOUS
    <3>1. lawyerOffers[l] + Cardinality(Uncredited(l)) = Cardinality(WonBy(l))
      BY DEF AloneInv, Counted
    <3>2. Cardinality(Uncredited(l)) = 0
      BY <2>1, FS_EmptySet
    <3> QED BY <2>3, <3>1, <3>2
  <2> QED BY <2>4, <2>5 DEF CountersAgree, WonBy
<1> QED BY <1>1, AloneInvariance, Invariance, PTL

----------------------------------------------------------------------------
(***************************************************************************)
(* One request at a time, Offers implements Hiring.                        *)
(***************************************************************************)
\* What Hiring sees of the documents while offer o is being accepted on case c.
Sweeping == {"accept_save", "accept_case_save"}

SweptOffers(o, c) == [p \in OfferIds |->
    IF p = o THEN [offers[p] EXCEPT !.st = "accepted"]
    ELSE IF offers[p].st = "pending" /\ offers[p].case = c
    THEN [offers[p] EXCEPT !.st = "rejected"]
    ELSE offers[p]]

HiredCases(o, c) == [d \in Cases |->
    IF d = c THEN [st |-> "in_progress", lawyer |-> offers[o].lawyer, accepted |-> o]
    ELSE Read(d)]

ReadCases == [c \in Cases |-> Read(c)]

LEMMA MapIdle ==
    ASSUME NEW r \in Requests, Requests = {r}, requests[r].pc \notin Sweeping,
           offers \in [OfferIds -> OfferDoc]
    PROVE  offersSettled = offers /\ casesSettled = ReadCases
<1>1. \A o : ~Accepting(o)
  BY DEF Accepting, Sweeping
<1>2. \A c : AcceptingOn(c) = {}
  BY <1>1 DEF AcceptingOn
<1> QED BY <1>1, <1>2 DEF offersSettled, casesSettled, ReadCases

LEMMA MapIdleNext ==
    ASSUME NEW r \in Requests, Requests = {r}, requests'[r].pc \notin Sweeping,
           offers' \in [OfferIds -> OfferDoc]
    PROVE  offersSettled' = offers' /\ casesSettled' = ReadCases'
<1>1. \A o : ~Accepting(o)'
  BY DEF Accepting, Sweeping
<1>2. \A c : AcceptingOn(c)' = {}
  BY <1>1 DEF AcceptingOn
<1> QED BY <1>1, <1>2 DEF offersSettled, casesSettled, ReadCases

LEMMA MapSweeping ==
    ASSUME NEW r \in Requests, Requests = {r}, requests[r].pc \in Sweeping,
           NEW o \in OfferIds, o = requests[r].offer, NEW c \in Cases, offers[o].case = c
    PROVE  offersSettled = SweptOffers(o, c) /\ casesSettled = HiredCases(o, c)
<1>1. \A p : Accepting(p) <=> p = o
  BY DEF Accepting, Sweeping
<1>2. \A d : AcceptingOn(d) = IF d = c THEN {o} ELSE {}
  BY <1>1 DEF AcceptingOn
<1>3. offersSettled = SweptOffers(o, c)
  BY <1>1, <1>2 DEF offersSettled, SweptOffers
<1>4. (CHOOSE p \in AcceptingOn(c) : TRUE) = o
  BY <1>2
<1>5. casesSettled = HiredCases(o, c)
  BY <1>2, <1>4 DEF casesSettled, HiredCases
<1> QED BY <1>3, <1>5

LEMMA MapSweepingNext ==
    ASSUME NEW r \in Requests, Requests = {r}, requests'[r].pc \in Sweeping,
           NEW o \in OfferIds, o = requests'[r].offer, NEW c \in Cases, offers'[o].case = c
    PROVE  offersSettled' = SweptOffers(o, c)' /\ casesSettled' = HiredCases(o, c)'
<1>1. \A p : Accepting(p)' <=> p = o
  BY DEF Accepting, Sweeping
<1>2. \A d : AcceptingOn(d)' = IF d = c THEN {o} ELSE {}
  BY <1>1 DEF AcceptingOn
<1>3. offersSettled' = SweptOffers(o, c)'
  BY <1>1, <1>2 DEF offersSettled, SweptOffers
<1>4. (CHOOSE p \in AcceptingOn(c)' : TRUE) = o
  BY <1>2
<1>5. casesSettled' = HiredCases(o, c)'
  BY <1>2, <1>4 DEF casesSettled, HiredCases
<1> QED BY <1>3, <1>5

LEMMA MapInit ==
    ASSUME NEW r \in Requests, Requests = {r}
    PROVE  Init => H!Init
<1> SUFFICES ASSUME Init PROVE H!Init
  OBVIOUS
<1>1. requests[r].pc \notin Sweeping /\ offers \in [OfferIds -> OfferDoc]
  BY DEF Init, Idle, Sweeping, OfferDoc
<1>2. offersSettled = offers /\ casesSettled = ReadCases
  BY <1>1, MapIdle
<1> QED BY <1>2 DEF Init, H!Init, ReadCases, Read, NoDoc

\* No step but the first of the sweep is one of Hiring that touches a case and offers.
LEMMA MapSweep ==
    ASSUME IInv, AloneInv, NEW r \in Requests, Requests = {r}, StartRejectingPending(r)
    PROVE  H!Next
<1> DEFINE req == requests[r]
<1>1. /\ req \in Request /\ req.pc = "accept_reject" /\ Fresh(req)
      /\ req.offer \in OfferIds /\ req.case \in Cases /\ req.case = offers[req.offer].case
      /\ offers \in [OfferIds -> OfferDoc]
  BY Known, SlotIds DEF StartRejectingPending, At, OnOffer
<1>2. PICK o \in OfferIds : o = req.offer
  BY <1>1
<1>3. PICK c \in Cases : c = req.case
  BY <1>1
<1>4. offers[o].case = c /\ offers[o].st = "pending" /\ LiveCase(c)
  BY <1>1, <1>2, <1>3 DEF Fresh
<1>5. /\ UNCHANGED <<offers, cases>>
      /\ requests'[r].pc = "accept_save" /\ requests'[r].offer = o
  BY <1>1, <1>2, Known DEF StartRejectingPending, dbVars, Become, Request
<1>6. offersSettled = offers /\ casesSettled = ReadCases
  BY <1>1, MapIdle DEF Sweeping
<1>7. offersSettled' = SweptOffers(o, c)' /\ casesSettled' = HiredCases(o, c)'
  BY <1>4, <1>5, MapSweepingNext DEF Sweeping
<1>8. SweptOffers(o, c)' = SweptOffers(o, c) /\ HiredCases(o, c)' = HiredCases(o, c)
  BY <1>5 DEF SweptOffers, HiredCases, Read
<1>9. SweptOffers(o, c) = [p \in OfferIds |->
         IF offers[p].st = "pending" /\ offers[p].case = c
         THEN [offers[p] EXCEPT !.st = IF p = o THEN "accepted" ELSE "rejected"]
         ELSE offers[p]]
  BY <1>4 DEF SweptOffers
<1>10. HiredCases(o, c) = [ReadCases EXCEPT ![c] =
         [st |-> "in_progress", lawyer |-> offers[o].lawyer, accepted |-> o]]
  BY DEF HiredCases, ReadCases
<1>11. H!Live(ReadCases[c])
  BY <1>4 DEF H!Live, ReadCases, Read, LiveCase
<1>12. H!Accept(o)
  BY <1>4, <1>6, <1>7, <1>8, <1>9, <1>10, <1>11 DEF H!Accept
<1> QED BY <1>12 DEF H!Next

\* The rest of the acceptance catches up with what Hiring did at once.
LEMMA MapCatchUp ==
    ASSUME IInv, AloneInv, NEW r \in Requests, Requests = {r},
           (\E o \in OfferIds : RejectOnePending(r, o)) \/ SaveAcceptedOffer(r)
    PROVE  UNCHANGED <<offersSettled, casesSettled>>
<1> DEFINE req == requests[r]
<1>1. /\ req \in Request /\ req.pc = "accept_save" /\ Fresh(req)
      /\ req.offer \in OfferIds /\ req.case \in Cases /\ req.case = offers[req.offer].case
      /\ offers \in [OfferIds -> OfferDoc] /\ UNCHANGED cases
      /\ requests \in [Requests -> Request]
  BY Known, SlotIds DEF RejectOnePending, SaveAcceptedOffer, At, OnOffer
<1>2. PICK o \in OfferIds : o = req.offer
  BY <1>1
<1>3. PICK c \in Cases : c = req.case
  BY <1>1
<1>4. /\ offers[o].case = c /\ LiveOffer(o) /\ req.todo = PendingOn(c)
  BY <1>1, <1>2, <1>3 DEF Fresh
<1>5. /\ requests'[r].pc \in Sweeping /\ requests'[r].offer = o
  <2>1. ASSUME NEW p \in OfferIds, RejectOnePending(r, p)
        PROVE  requests'[r].pc \in Sweeping /\ requests'[r].offer = o
    BY <1>1, <1>2, <2>1 DEF RejectOnePending, Become, Request, Sweeping
  <2>2. ASSUME SaveAcceptedOffer(r)
        PROVE  requests'[r].pc \in Sweeping /\ requests'[r].offer = o
    BY <1>1, <1>2, <1>4, <2>2 DEF SaveAcceptedOffer, Goto, Become, Request, Sweeping
  <2> QED BY <2>1, <2>2
<1>6. \A p \in OfferIds :
         /\ offers'[p].case = offers[p].case /\ offers'[p].lawyer = offers[p].lawyer
         /\ p = o => offers'[p] = [offers[p] EXCEPT !.st = offers'[p].st]
         /\ p # o => \/ offers'[p] = offers[p]
                     \/ /\ offers[p].st = "pending" /\ offers[p].case = c
                        /\ offers'[p] = [offers[p] EXCEPT !.st = "rejected"]
  <2>1. ASSUME NEW p \in OfferIds, RejectOnePending(r, p)
        PROVE  /\ offers' = [offers EXCEPT ![p].st = "rejected"]
               /\ offers[p].st = "pending" /\ offers[p].case = c
    <3>1. p \in PendingOn(c)
      BY <1>4, <2>1 DEF RejectOnePending
    <3> QED BY <2>1, <3>1 DEF RejectOnePending, PendingOn
  <2>2. ASSUME SaveAcceptedOffer(r) PROVE offers' = [offers EXCEPT ![o].st = "accepted"]
    BY <1>2, <1>4, <2>2 DEF SaveAcceptedOffer
  <2> QED BY <1>1, <2>1, <2>2 DEF OfferDoc
<1>7. offersSettled = SweptOffers(o, c) /\ casesSettled = HiredCases(o, c)
  BY <1>1, <1>2, <1>4, MapSweeping DEF Sweeping
<1>8. offersSettled' = SweptOffers(o, c)' /\ casesSettled' = HiredCases(o, c)'
  BY <1>4, <1>5, <1>6, MapSweepingNext
<1>9. SweptOffers(o, c)' = SweptOffers(o, c)
  <2>1. ASSUME NEW p \in OfferIds PROVE SweptOffers(o, c)'[p] = SweptOffers(o, c)[p]
    <3>1. offers[p] \in OfferDoc
      BY <1>1
    <3>2. CASE p = o
      <4>1. [offers'[p] EXCEPT !.st = "accepted"] = [offers[p] EXCEPT !.st = "accepted"]
        BY <1>6, <3>1, <3>2 DEF OfferDoc
      <4> QED BY <3>2, <4>1 DEF SweptOffers
    <3>3. CASE p # o
      <4>1. CASE offers'[p] = offers[p]
        BY <3>3, <4>1 DEF SweptOffers
      <4>2. CASE /\ offers[p].st = "pending" /\ offers[p].case = c
                 /\ offers'[p] = [offers[p] EXCEPT !.st = "rejected"]
        <5>1. offers'[p].st = "rejected"
          BY <3>1, <4>2 DEF OfferDoc
        <5> QED BY <3>3, <4>2, <5>1 DEF SweptOffers
      <4> QED BY <1>6, <3>3, <4>1, <4>2
    <3> QED BY <3>2, <3>3
  <2> QED BY <2>1 DEF SweptOffers
<1>10. HiredCases(o, c)' = HiredCases(o, c)
  BY <1>1, <1>6 DEF HiredCases, Read
<1> QED BY <1>7, <1>8, <1>9, <1>10

LEMMA MapSaveCase ==
    ASSUME IInv, AloneInv, NEW r \in Requests, Requests = {r}, SaveCaseOfAccepted(r)
    PROVE  UNCHANGED <<offersSettled, casesSettled>>
<1>1. PICK c : c = requests[r].case
  OBVIOUS
<1>2. PICK o : o = requests[r].offer
  OBVIOUS
<1>3. /\ c \in Cases /\ o \in OfferIds /\ offers[o].case = c
      /\ AcceptedOn(c) = {o}
      /\ Goto(r, "accept_count") /\ UNCHANGED offers
      /\ \A d \in Cases \ {c} : cases'[d] = cases[d]
      /\ cases'[c].st = "in_progress" /\ cases'[c].accepted = o
      /\ cases'[c].lawyer = offers[o].lawyer
  BY <1>1, <1>2, SaveCaseFresh
<1>4. /\ requests[r].pc = "accept_case_save" /\ requests[r] \in Request
      /\ requests \in [Requests -> Request] /\ offers \in [OfferIds -> OfferDoc]
  BY Known DEF SaveCaseOfAccepted, At
<1>5. requests'[r].pc = "accept_count"
  BY <1>3, <1>4 DEF Goto, Become, Request
<1>6. offersSettled = SweptOffers(o, c) /\ casesSettled = HiredCases(o, c)
  BY <1>2, <1>3, <1>4, MapSweeping DEF Sweeping
<1>7. offersSettled' = offers' /\ casesSettled' = ReadCases'
  BY <1>3, <1>4, <1>5, MapIdleNext DEF Sweeping
<1>8. offers[o].st = "accepted" /\ PendingOn(c) = {}
  BY <1>3 DEF AcceptedOn, AloneInv, Settled
<1>9. SweptOffers(o, c) = offers
  <2>1. ASSUME NEW p \in OfferIds PROVE SweptOffers(o, c)[p] = offers[p]
    <3>1. offers[p] \in OfferDoc
      BY <1>4
    <3>2. p = o => [offers[p] EXCEPT !.st = "accepted"] = offers[p]
      BY <1>8, <3>1 DEF OfferDoc
    <3>3. ~(offers[p].st = "pending" /\ offers[p].case = c)
      BY <1>8 DEF PendingOn
    <3> QED BY <3>2, <3>3 DEF SweptOffers
  <2> QED BY <1>4, <2>1 DEF SweptOffers
<1>10. HiredCases(o, c) = ReadCases'
  BY <1>3 DEF HiredCases, ReadCases, Read
<1> QED BY <1>3, <1>6, <1>7, <1>9, <1>10

\* A step with no sweep under way before it or after it: Hiring sees the documents.
LEMMA MapPlain ==
    ASSUME IInv, IInv', NEW r \in Requests, Requests = {r},
           requests[r].pc \notin Sweeping, requests'[r].pc \notin Sweeping
    PROVE  /\ offersSettled = offers /\ casesSettled = ReadCases
           /\ offersSettled' = offers' /\ casesSettled' = ReadCases'
BY MapIdle, MapIdleNext DEF IInv, DbOK, DbTypeOK

\* Hiring sees no step of a request that reads, counts or tells.
LEMMA MapUnseen ==
    ASSUME IInv, IInv', NEW r \in Requests, Requests = {r},
           Arrive(r) \/ FindExistingOffer(r) \/ CountOffer(r) \/ ReadCaseForAccept(r)
               \/ ReadCaseForReject(r) \/ CountAcceptance(r) \/ NotifyAccepted(r)
    PROVE  UNCHANGED <<offersSettled, casesSettled>>
<1>1. requests \in [Requests -> Request] /\ cases \in [Cases -> CaseDoc]
  BY DEF IInv, DbOK, DbTypeOK
<1>2. UNCHANGED offers /\ \A c \in Cases : Read(c)' = Read(c)
  <2>1. CASE CountOffer(r)
    BY <1>1, <2>1 DEF CountOffer, CaseDoc, Read
  <2>2. CASE ~CountOffer(r)
    BY <2>2 DEF Arrive, ReadCaseForOffer, ReadCaseForDelete, ReadCaseForStatus,
                ReadOfferForAccept, ReadOfferForReject, ReadOfferForDelete, FindExistingOffer,
                ReadCaseForAccept, ReadCaseForReject, CountAcceptance, NotifyAccepted,
                dbVars, history, Read
  <2> QED BY <2>1, <2>2
<1>3. requests[r].pc \notin Sweeping
  BY DEF Arrive, ReadCaseForOffer, ReadCaseForDelete, ReadCaseForStatus, ReadOfferForAccept,
         ReadOfferForReject, ReadOfferForDelete, FindExistingOffer, CountOffer,
         ReadCaseForAccept, ReadCaseForReject, CountAcceptance, NotifyAccepted, At, Sweeping
<1>4. requests'[r].pc \notin Sweeping
  <2>1. CASE Arrive(r)
    BY <1>1, <2>1
    DEF Arrive, ReadCaseForOffer, ReadCaseForDelete, ReadCaseForStatus, ReadOfferForAccept,
        ReadOfferForReject, ReadOfferForDelete, Become, Idle, Sweeping
  <2>2. ASSUME Finish(r) PROVE requests'[r].pc \notin Sweeping
    BY <1>1, <2>2 DEF Finish, Become, Idle, Sweeping
  <2>3. ASSUME NEW step \in {"create_insert", "reject_save", "accept_notify"}, Goto(r, step)
        PROVE  requests'[r].pc \notin Sweeping
    BY <1>1, <2>3 DEF Goto, Become, Request, Sweeping
  <2>4. CASE FindExistingOffer(r) \/ CountOffer(r) \/ ReadCaseForReject(r)
                 \/ CountAcceptance(r) \/ NotifyAccepted(r)
    BY <2>2, <2>3, <2>4
    DEF FindExistingOffer, CountOffer, ReadCaseForReject, CountAcceptance, NotifyAccepted
  <2>5. CASE ReadCaseForAccept(r)
    BY <1>1, <2>2, <2>5 DEF ReadCaseForAccept, Become, Request, Sweeping
  <2> QED BY <2>1, <2>4, <2>5
<1>5. ReadCases' = ReadCases
  BY <1>2 DEF ReadCases
<1> QED BY <1>2, <1>3, <1>4, <1>5, MapPlain

\* An offer is inserted: Hiring's Submit, or nothing when the index is taken.
LEMMA MapInsert ==
    ASSUME IInv, IInv', AloneInv, NEW r \in Requests, Requests = {r}, InsertOffer(r)
    PROVE  [H!Next]_<<offersSettled, casesSettled>>
<1> DEFINE req == requests[r]
<1>1. /\ req.pc = "create_insert" /\ req \in Request /\ Fresh(req)
      /\ req.case \in Cases /\ req.lawyer \in Lawyers
      /\ UNCHANGED cases /\ requests \in [Requests -> Request]
  BY Known DEF InsertOffer, At, SlotOK, OnCase
<1>2. requests'[r].pc \notin Sweeping
  <2>1. requests'[r].pc \in {"idle", "create_count"}
    <3>1. CASE Finish(r)
      BY <1>1, <3>1 DEF Become, Finish, Idle
    <3>2. CASE ~Finish(r)
      BY <1>1, <3>2 DEF InsertOffer, Become, Request
    <3> QED BY <3>1, <3>2
  <2> QED BY <2>1 DEF Sweeping
<1>3. /\ offersSettled = offers /\ casesSettled = ReadCases
      /\ offersSettled' = offers' /\ casesSettled' = ReadCases'
  BY <1>1, <1>2, MapPlain DEF Sweeping
<1>4. ReadCases' = ReadCases
  BY <1>1 DEF ReadCases, Read
<1>5. CASE UNCHANGED offers
  BY <1>3, <1>4, <1>5
<1>6. ASSUME ~PairTaken(req.case, req.lawyer), NEW o \in OfferIds, offers[o].st = "unused",
             NEW b \in OfferBodies,
             offers' = [offers EXCEPT ![o] =
                 [st |-> b, case |-> req.case, lawyer |-> req.lawyer]]
      PROVE  H!Next
  <2>1. ReadCases[req.case].st = "open"
    BY <1>1 DEF Fresh, ReadCases, Read
  <2>2. ~\E p \in OfferIds : H!Live(offers[p]) /\ offers[p].case = req.case
                             /\ offers[p].lawyer = req.lawyer
    BY <1>6 DEF PairTaken, LiveOffer, H!Live
  <2>3. H!Submit(o, req.case, req.lawyer)
    BY <1>3, <1>4, <1>6, <2>1, <2>2 DEF H!Submit
  <2> QED BY <1>1, <2>3 DEF H!Next
<1> QED BY <1>5, <1>6 DEF InsertOffer

\* The lawyer withdraws, or the client rejects, an offer that is still as it was read.
LEMMA MapOfferEnd ==
    ASSUME IInv, IInv', AloneInv, NEW r \in Requests, Requests = {r},
           SaveRejectedOffer(r) \/ DeleteOffer(r)
    PROVE  H!Next
<1> DEFINE req == requests[r]
<1>1. /\ req.pc \in {"reject_save", "offer_delete"} /\ Fresh(req) /\ req.offer \in OfferIds
      /\ UNCHANGED cases /\ requests \in [Requests -> Request] /\ Finish(r)
  BY Known, SlotIds DEF SaveRejectedOffer, DeleteOffer, At, OnOffer
<1>2. requests'[r].pc \notin Sweeping
  BY <1>1 DEF Become, Finish, Idle, Sweeping
<1>3. /\ offersSettled = offers /\ casesSettled = ReadCases
      /\ offersSettled' = offers' /\ casesSettled' = ReadCases'
  BY <1>1, <1>2, MapPlain DEF Sweeping
<1>4. ReadCases' = ReadCases
  BY <1>1 DEF ReadCases, Read
<1>5. CASE SaveRejectedOffer(r)
  <2>1. offers[req.offer].st = "pending"
    BY <1>1, <1>5 DEF SaveRejectedOffer, At, Fresh
  <2>2. offers' = [offers EXCEPT ![req.offer].st = "rejected"]
    BY <1>5, <2>1 DEF SaveRejectedOffer, LiveOffer
  <2>3. H!Reject(req.offer)
    BY <1>3, <1>4, <2>1, <2>2 DEF H!Reject
  <2> QED BY <1>1, <2>3 DEF H!Next
<1>6. CASE DeleteOffer(r)
  <2>1. LiveOffer(req.offer) /\ (AdminDeletes \/ offers[req.offer].st = "pending")
    BY <1>1, <1>6 DEF DeleteOffer, At, Fresh
  <2>2. H!Withdraw(req.offer)
    BY <1>3, <1>4, <1>6, <2>1 DEF H!Withdraw, H!Live, LiveOffer, DeleteOffer
  <2> QED BY <1>1, <2>2 DEF H!Next
<1> QED BY <1>5, <1>6

\* A case is deleted, or its status written, as it was read.
LEMMA MapCaseEnd ==
    ASSUME IInv, IInv', AloneInv, NEW r \in Requests, Requests = {r},
           DeleteCase(r) \/ SaveStatus(r)
    PROVE  [H!Next]_<<offersSettled, casesSettled>>
<1> DEFINE req == requests[r]
<1>1. /\ req.pc \in {"case_delete", "status_save"} /\ Fresh(req) /\ req.case \in Cases
      /\ UNCHANGED offers /\ requests \in [Requests -> Request] /\ Finish(r)
      /\ cases \in [Cases -> CaseDoc]
  BY Known, SlotIds DEF DeleteCase, SaveStatus, At
<1>a. PICK c \in Cases : c = req.case
  BY <1>1
<1>2. requests'[r].pc \notin Sweeping
  BY <1>1 DEF Become, Finish, Idle, Sweeping
<1>3. /\ offersSettled = offers /\ casesSettled = ReadCases
      /\ offersSettled' = offers' /\ casesSettled' = ReadCases'
  BY <1>1, <1>2, MapPlain DEF Sweeping
<1>4. CASE DeleteCase(r)
  <2>1. LiveCase(c) /\ (AdminDeletes \/ cases[c].st = "open")
    BY <1>1, <1>4, <1>a DEF DeleteCase, At, Fresh
  <2>2. cases' = [cases EXCEPT ![c] = [NoDoc EXCEPT !.st = "deleted"]]
    BY <1>4, <1>a DEF DeleteCase
  <2>3. ReadCases' = [ReadCases EXCEPT ![c] = [st |-> "deleted", lawyer |-> None, accepted |-> None]]
    BY <1>1, <2>2 DEF ReadCases, Read, NoDoc
  <2>4. H!Live(ReadCases[c]) /\ (AdminDeletes \/ ReadCases[c].st = "open")
    BY <2>1 DEF ReadCases, Read, LiveCase, H!Live
  <2>5. H!Remove(c)
    BY <1>1, <1>3, <2>3, <2>4 DEF H!Remove
  <2> QED BY <2>5 DEF H!Next
<1>5. CASE SaveStatus(r)
  <2>1. LiveCase(c) /\ req.doc.st = cases[c].st /\ req.new \in NewStatuses
    BY <1>1, <1>5, <1>a DEF SaveStatus, At, Fresh
  <2>2. PICK s \in NewStatuses : s = req.new
    BY <2>1
  <2>3. cases' = IF s # cases[c].st THEN [cases EXCEPT ![c].st = s] ELSE cases
    BY <1>5, <1>a, <2>1, <2>2 DEF SaveStatus
  <2>4. CASE s = cases[c].st
    <3>1. ReadCases' = ReadCases
      BY <2>3, <2>4 DEF ReadCases, Read
    <3> QED BY <1>1, <1>3, <3>1
  <2>5. CASE s # cases[c].st
    <3>1. ReadCases' = [ReadCases EXCEPT ![c].st = s]
      BY <1>1, <2>3, <2>5 DEF ReadCases, Read, CaseDoc
    <3>2. H!Live(ReadCases[c])
      BY <2>1 DEF ReadCases, Read, LiveCase, H!Live
    <3>3. H!SetStatus(c, s)
      BY <1>1, <1>3, <3>1, <3>2 DEF H!SetStatus
    <3> QED BY <2>2, <3>3 DEF H!Next
  <2> QED BY <2>4, <2>5
<1> QED BY <1>4, <1>5

\* A case is posted, perhaps while an acceptance on another one is under way.
LEMMA MapPost ==
    ASSUME IInv, AloneInv, NEW r \in Requests, Requests = {r}, NEW c \in Cases, CreateCase(c)
    PROVE  H!Next
<1>a. PICK b \in CaseBodies : cases' = [cases EXCEPT ![c] = b]
  BY DEF CreateCase
<1>b. PICK hire : hire = [st |-> b.st, lawyer |-> b.lawyer, accepted |-> b.accepted]
  OBVIOUS
<1>1. /\ cases[c].st = "unused" /\ cases'[c] = b /\ \A d \in Cases \ {c} : cases'[d] = cases[d]
      /\ UNCHANGED <<offers, requests>>
  BY <1>a, Known DEF CreateCase
<1>2. /\ \A o : Accepting(o)' <=> Accepting(o)
      /\ \A d : AcceptingOn(d)' = AcceptingOn(d)
  BY <1>1 DEF Accepting, AcceptingOn
<1>3. AcceptingOn(c) = {}
  <2>1. MadeOn(c) = {}
    BY <1>1 DEF AloneInv, Settled
  <2>2. \A o \in OfferIds : Accepting(o) => Made(o)
    BY DEF Accepting, IInv, SlotOK, OnOffer
  <2> QED BY <2>1, <2>2 DEF AcceptingOn, MadeOn, Made
<1>4. offersSettled' = offersSettled
  BY <1>1, <1>2 DEF offersSettled
<1>5. casesSettled[c].st = "unused"
  BY <1>1, <1>3 DEF casesSettled, Read
<1>6. casesSettled' = [casesSettled EXCEPT ![c] = hire]
  <2>1. ASSUME NEW d \in Cases PROVE casesSettled'[d] = [casesSettled EXCEPT ![c] = hire][d]
    <3>1. CASE d = c
      <4>1. Read(c)' = hire
        BY <1>1, <1>b DEF Read
      <4>2. casesSettled'[c] = Read(c)'
        BY <1>2, <1>3 DEF casesSettled
      <4> QED BY <3>1, <4>1, <4>2 DEF casesSettled
    <3>2. CASE d # c
      <4>1. Read(d)' = Read(d)
        BY <1>1, <3>2 DEF Read
      <4> QED BY <1>1, <1>2, <3>2, <4>1 DEF casesSettled
    <3> QED BY <3>1, <3>2
  <2> QED BY <2>1 DEF casesSettled
<1>7. H!Post(c)
  BY <1>4, <1>5, <1>6, <1>b DEF H!Post
<1> QED BY <1>7 DEF H!Next

\* Nothing that Hiring sees.
LEMMA MapApart ==
    ASSUME (\E l \in Lawyers : DeleteLawyerProfile(l)) \/ UNCHANGED vars
    PROVE  UNCHANGED <<offersSettled, casesSettled>>
<1>1. UNCHANGED <<offers, cases, requests>>
  BY DEF DeleteLawyerProfile, vars, dbVars
<1>2. /\ \A o : Accepting(o)' <=> Accepting(o)
      /\ \A d : AcceptingOn(d)' = AcceptingOn(d)
  BY <1>1 DEF Accepting, AcceptingOn
<1> QED BY <1>1, <1>2 DEF offersSettled, casesSettled, Read

LEMMA MapStep ==
    OneAtATime /\ IInv /\ AloneInv /\ [Next]_vars => [H!Next]_<<offersSettled, casesSettled>>
<1> SUFFICES ASSUME OneAtATime, IInv, AloneInv, [Next]_vars
             PROVE  [H!Next]_<<offersSettled, casesSettled>>
  OBVIOUS
<1>0. IInv'
  BY NextIInv
<1>1. PICK r \in Requests : Requests = {r}
  BY DEF OneAtATime
<1>2. CASE Arrive(r) \/ FindExistingOffer(r) \/ CountOffer(r) \/ ReadCaseForAccept(r)
               \/ ReadCaseForReject(r) \/ CountAcceptance(r) \/ NotifyAccepted(r)
  BY <1>0, <1>1, <1>2, MapUnseen
<1>3. CASE StartRejectingPending(r)
  BY <1>1, <1>3, MapSweep
<1>4. CASE (\E o \in OfferIds : RejectOnePending(r, o)) \/ SaveAcceptedOffer(r)
  BY <1>1, <1>4, MapCatchUp
<1>5. CASE SaveCaseOfAccepted(r)
  BY <1>1, <1>5, MapSaveCase
<1>6. CASE InsertOffer(r)
  BY <1>0, <1>1, <1>6, MapInsert
<1>7. CASE SaveRejectedOffer(r) \/ DeleteOffer(r)
  BY <1>0, <1>1, <1>7, MapOfferEnd
<1>8. CASE DeleteCase(r) \/ SaveStatus(r)
  BY <1>0, <1>1, <1>8, MapCaseEnd
<1>9. CASE \E c \in Cases : CreateCase(c)
  BY <1>1, <1>9, MapPost
<1>10. CASE (\E l \in Lawyers : DeleteLawyerProfile(l)) \/ UNCHANGED vars
  BY <1>10, MapApart
<1>11. ~Fail(r)
  BY DEF OneAtATime, Fail
<1> QED BY <1>1, <1>2, <1>3, <1>4, <1>5, <1>6, <1>7, <1>8, <1>9, <1>10, <1>11 DEF Next, Proceed

\* One request at a time, the server keeps what Hiring promises: the calls of a request
\* are together one step, taken when an acceptance starts to reject the other offers
\* and otherwise at the request's one write of an offer or of a case.
THEOREM AloneRefines ==
    ASSUME OneAtATime
    PROVE  Spec => ImplementsHiring
<1>1. Init => H!Init
  BY MapInit DEF OneAtATime
<1>2. IInv /\ AloneInv /\ [Next]_vars => [H!Next]_<<offersSettled, casesSettled>>
  BY MapStep
<1> QED BY <1>1, <1>2, AloneInvariance, Invariance, PTL DEF Spec, ImplementsHiring, H!Spec
=============================================================================
