---------------------------- MODULE OffersProofs ----------------------------
(***************************************************************************)
(* Theorems about Offers, for any number of cases, lawyers, offers and     *)
(* requests in flight, with or without failures.  Each action sets one     *)
(* slot, so its proof shows three things: the new state of the slot is     *)
(* sound (SlotOK), the documents still agree (DbOK), and nothing that the  *)
(* other slots rely on was undone (Grows).                                 *)
(***************************************************************************)
EXTENDS Offers, FiniteSetTheorems, TLAPS

USE DEF Gone, CaseStatus

(***************************************************************************)
(* Slots.                                                                  *)
(***************************************************************************)
\* What every step preserves of what requests rely on.
Grows ==
    /\ \A o \in OfferIds : offers[o].st # "unused" =>
          /\ offers'[o].st # "unused"
          /\ offers'[o].case = offers[o].case
          /\ offers'[o].lawyer = offers[o].lawyer
    /\ won \subseteq won'
    /\ recorded \subseteq recorded'

LEMMA SlotStays ==
    ASSUME NEW q \in Request, Grows, SlotOK(q)
    PROVE  SlotOK(q)'
BY DEF SlotOK, Grows, Made

LEMMA IdleOK == Idle \in Request /\ SlotOK(Idle) /\ SlotOK(Idle)'
BY DEF Idle, Request, Steps, CaseRead, NothingRead, SlotOK, OnCase, OnOffer, AfterWon,
       AfterRecorded

LEMMA SetSlot ==
    ASSUME IInv, DbOK', Grows,
           NEW r \in Requests, NEW q \in Request, SlotOK(q)', Become(r, q)
    PROVE  IInv'
<1>1. requests' = [requests EXCEPT ![r] = q]
  BY DEF Become
<1>2. requests' \in [Requests -> Request]
  BY <1>1 DEF IInv
<1>3. ASSUME NEW s \in Requests PROVE SlotOK(requests[s])'
  <2>1. CASE s = r
    <3>1. requests'[s] = q
      BY <1>1, <2>1 DEF IInv
    <3> QED BY <3>1 DEF SlotOK, Made
  <2>2. CASE s # r
    <3>1. requests'[s] = requests[s] /\ requests[s] \in Request
      BY <1>1, <2>2 DEF IInv
    <3>2. PICK p \in Request : p = requests[s]
      BY <3>1
    <3>3. SlotOK(p)'
      BY <3>2, SlotStays DEF IInv
    <3> QED BY <3>1, <3>2, <3>3 DEF SlotOK, Made
  <2> QED BY <2>1, <2>2
<1> QED BY <1>2, <1>3 DEF IInv

LEMMA SetIdle ==
    ASSUME IInv, DbOK', Grows, NEW r \in Requests, Finish(r)
    PROVE  IInv'
BY SetSlot, IdleOK DEF Finish

\* A step that writes no document.
LEMMA NoWrite ==
    ASSUME IInv, UNCHANGED <<dbVars, history>>
    PROVE  DbOK' /\ Grows
<1>1. DbOK
  BY DEF IInv
<1>2. Grows
  BY DEF dbVars, history, Grows
<1>3. DbTypeOK' /\ OffersOK' /\ HistoryOK'
  BY <1>1 DEF dbVars, history, DbOK, DbTypeOK, OffersOK, HistoryOK, Made
<1>4. OneOfferPerLawyerAndCase' /\ AcceptedOfferWasWon' /\ AcceptanceToldAfterRecorded'
  BY <1>1 DEF dbVars, history, DbOK, OneOfferPerLawyerAndCase, LiveOffer, AcceptedOfferWasWon,
              AcceptanceToldAfterRecorded
<1> QED BY <1>2, <1>3, <1>4 DEF DbOK

LEMMA InitIInv == Init => IInv
<1> SUFFICES ASSUME Init PROVE IInv
  OBVIOUS
<1>1. requests \in [Requests -> Request] /\ \A r \in Requests : SlotOK(requests[r])
  BY IdleOK DEF Init
<1>2. DbTypeOK /\ OffersOK /\ HistoryOK
  BY DEF Init, DbTypeOK, OfferDoc, CaseDoc, NoDoc, Posting, OffersOK, HistoryOK, Made
<1>3. OneOfferPerLawyerAndCase /\ AcceptedOfferWasWon /\ AcceptanceToldAfterRecorded
  BY DEF Init, OneOfferPerLawyerAndCase, LiveOffer, AcceptedOfferWasWon, NoDoc,
         AcceptanceToldAfterRecorded
<1> QED BY <1>1, <1>2, <1>3 DEF IInv, DbOK

(***************************************************************************)
(* Steps that read: they set the slot and write nothing.                   *)
(***************************************************************************)
LEMMA ReadSlot ==
    ASSUME IInv, NEW r \in Requests, NEW q \in Request, SlotOK(q), Become(r, q),
           UNCHANGED <<dbVars, history>>
    PROVE  IInv'
BY NoWrite, SlotStays, SetSlot

LEMMA ReadIdle ==
    ASSUME IInv, NEW r \in Requests, Finish(r), UNCHANGED <<dbVars, history>>
    PROVE  IInv'
BY NoWrite, SetIdle

LEMMA ArriveStep ==
    ASSUME IInv, NEW r \in Requests, Arrive(r)
    PROVE  IInv'
<1> USE DEF OnCase, OnOffer, AfterWon, AfterRecorded
<1>0. DbTypeOK /\ OffersOK
  BY DEF IInv, DbOK
<1>1. ASSUME NEW c \in Cases, NEW l \in Lawyers, ReadCaseForOffer(r, c, l) PROVE IInv'
  <2>2. [Idle EXCEPT !.pc = "create_find", !.case = c, !.lawyer = l] \in Request
    BY IdleOK DEF Idle, Request, Steps
  <2>3. PICK q \in Request : q = [Idle EXCEPT !.pc = "create_find", !.case = c, !.lawyer = l]
    BY <2>2
  <2>4. SlotOK(q)
    BY <2>3 DEF Idle, SlotOK
  <2>5. UNCHANGED <<dbVars, history>> /\ Become(r, q)
    BY <1>1, <2>3 DEF ReadCaseForOffer
  <2> QED BY <2>4, <2>5, ReadSlot
<1>2. ASSUME NEW c \in Cases, ReadCaseForDelete(r, c) PROVE IInv'
  <2>2. [Idle EXCEPT !.pc = "case_delete", !.case = c] \in Request
    BY IdleOK DEF Idle, Request, Steps
  <2>3. PICK q \in Request : q = [Idle EXCEPT !.pc = "case_delete", !.case = c]
    BY <2>2
  <2>4. SlotOK(q)
    BY <2>3 DEF Idle, SlotOK
  <2>5. UNCHANGED <<dbVars, history>> /\ Become(r, q)
    BY <1>2, <2>3 DEF ReadCaseForDelete
  <2> QED BY <2>4, <2>5, ReadSlot
<1>3. ASSUME NEW c \in Cases, NEW s \in NewStatuses, ReadCaseForStatus(r, c, s) PROVE IInv'
  <2>1. s \in CaseStatus /\ cases[c] \in CaseDoc
    BY <1>0, StatusAssumption DEF DbTypeOK
  <2>2. [Idle EXCEPT !.pc = "status_save", !.case = c,
                    !.doc = [NothingRead EXCEPT !.st = cases[c].st], !.new = s] \in Request
    BY <2>1, IdleOK DEF Idle, Request, Steps, CaseRead, NothingRead, CaseDoc
  <2>3. PICK q \in Request : q = [Idle EXCEPT !.pc = "status_save", !.case = c,
                    !.doc = [NothingRead EXCEPT !.st = cases[c].st], !.new = s]
    BY <2>2
  <2>4. SlotOK(q)
    BY <2>1, <2>3 DEF Idle, SlotOK
  <2>5. UNCHANGED <<dbVars, history>> /\ Become(r, q)
    BY <1>3, <2>3 DEF ReadCaseForStatus
  <2> QED BY <2>4, <2>5, ReadSlot
<1>4. ASSUME NEW o \in OfferIds, ReadOfferForAccept(r, o) PROVE IInv'
  <2>1. Made(o) /\ offers[o] \in OfferDoc
    BY <1>0, <1>4 DEF ReadOfferForAccept, Made, LiveOffer, DbTypeOK
  <2>2. [Idle EXCEPT !.pc = "accept_case", !.offer = o, !.case = offers[o].case,
                    !.lawyer = offers[o].lawyer] \in Request
    BY <2>1, IdleOK DEF Idle, Request, Steps, OfferDoc
  <2>3. PICK q \in Request : q = [Idle EXCEPT !.pc = "accept_case", !.offer = o, !.case = offers[o].case,
                    !.lawyer = offers[o].lawyer]
    BY <2>2
  <2>4. SlotOK(q)
    BY <2>1, <2>3 DEF Idle, SlotOK
  <2>5. UNCHANGED <<dbVars, history>> /\ Become(r, q)
    BY <1>4, <2>3 DEF ReadOfferForAccept
  <2> QED BY <2>4, <2>5, ReadSlot
<1>5. ASSUME NEW o \in OfferIds, ReadOfferForReject(r, o) PROVE IInv'
  <2>1. Made(o) /\ offers[o] \in OfferDoc
    BY <1>0, <1>5 DEF ReadOfferForReject, Made, LiveOffer, DbTypeOK
  <2>2. [Idle EXCEPT !.pc = "reject_case", !.offer = o, !.case = offers[o].case,
                    !.lawyer = offers[o].lawyer] \in Request
    BY <2>1, IdleOK DEF Idle, Request, Steps, OfferDoc
  <2>3. PICK q \in Request : q = [Idle EXCEPT !.pc = "reject_case", !.offer = o, !.case = offers[o].case,
                    !.lawyer = offers[o].lawyer]
    BY <2>2
  <2>4. SlotOK(q)
    BY <2>1, <2>3 DEF Idle, SlotOK
  <2>5. UNCHANGED <<dbVars, history>> /\ Become(r, q)
    BY <1>5, <2>3 DEF ReadOfferForReject
  <2> QED BY <2>4, <2>5, ReadSlot
<1>6. ASSUME NEW o \in OfferIds, ReadOfferForDelete(r, o) PROVE IInv'
  <2>1. Made(o) /\ offers[o] \in OfferDoc
    BY <1>0, <1>6 DEF ReadOfferForDelete, Made, LiveOffer, DbTypeOK
  <2>2. [Idle EXCEPT !.pc = "offer_delete", !.offer = o] \in Request
    BY IdleOK DEF Idle, Request, Steps
  <2>3. PICK q \in Request : q = [Idle EXCEPT !.pc = "offer_delete", !.offer = o]
    BY <2>2
  <2>4. SlotOK(q)
    BY <2>1, <2>3 DEF Idle, SlotOK
  <2>5. UNCHANGED <<dbVars, history>> /\ Become(r, q)
    BY <1>6, <2>3 DEF ReadOfferForDelete
  <2> QED BY <2>4, <2>5, ReadSlot
<1> QED BY <1>1, <1>2, <1>3, <1>4, <1>5, <1>6 DEF Arrive

\* A slot that moves to a step of which nothing more is known than of this one.
LEMMA GotoSlot ==
    ASSUME IInv, NEW r \in Requests, NEW step \in Steps, Goto(r, step),
           UNCHANGED <<dbVars, history>>, SlotOK([requests[r] EXCEPT !.pc = step])
    PROVE  IInv'
<1>1. [requests[r] EXCEPT !.pc = step] \in Request
  BY DEF IInv, Request
<1>2. PICK q \in Request : q = [requests[r] EXCEPT !.pc = step]
  BY <1>1
<1> QED BY <1>2, ReadSlot DEF Goto

LEMMA ReadingStep ==
    ASSUME IInv, NEW r \in Requests,
           \/ FindExistingOffer(r) \/ ReadCaseForAccept(r) \/ StartRejectingPending(r)
           \/ ReadCaseForReject(r) \/ Fail(r)
    PROVE  IInv'
<1> USE DEF OnCase, OnOffer, AfterWon, AfterRecorded, At
<1>0. requests[r] \in Request /\ SlotOK(requests[r]) /\ DbTypeOK
  BY DEF IInv, DbOK
<1>1. CASE FindExistingOffer(r)
  <2>1. CASE Finish(r)
    BY <1>1, <2>1, ReadIdle DEF FindExistingOffer
  <2>2. CASE Goto(r, "create_insert")
    <3>1. SlotOK([requests[r] EXCEPT !.pc = "create_insert"])
      BY <1>0, <1>1 DEF FindExistingOffer, SlotOK, Request
    <3> QED BY <1>1, <2>2, <3>1, GotoSlot DEF FindExistingOffer, Steps
  <2> QED BY <1>1, <2>1, <2>2 DEF FindExistingOffer
<1>2. CASE ReadCaseForAccept(r)
  <2>1. CASE Finish(r)
    BY <1>2, <2>1, ReadIdle DEF ReadCaseForAccept
  <2>2. CASE ~Finish(r)
    <3> DEFINE c == requests[r].case
    <3>1. c \in Cases
      BY <1>0, <1>2, IInv DEF ReadCaseForAccept, SlotOK, IInv, DbOK, OffersOK, Made
    <3>2. Read(c) \in CaseRead
      BY <1>0, <3>1 DEF Read, CaseRead, DbTypeOK, CaseDoc
    <3>3. [requests[r] EXCEPT !.pc = "accept_reject", !.doc = Read(c)] \in Request
      BY <1>0, <3>2 DEF Request, Steps
    <3>4. PICK q \in Request :
              q = [requests[r] EXCEPT !.pc = "accept_reject", !.doc = Read(c)]
      BY <3>3
    <3>5. SlotOK(q)
      BY <1>0, <1>2, <3>4 DEF ReadCaseForAccept, SlotOK, Request
    <3> QED BY <1>2, <2>2, <3>4, <3>5, ReadSlot DEF ReadCaseForAccept
  <2> QED BY <2>1, <2>2
<1>3. CASE StartRejectingPending(r)
  <2> DEFINE todo == PendingOn(requests[r].case)
  <2>1. [requests[r] EXCEPT !.pc = "accept_save", !.todo = todo] \in Request
    BY <1>0 DEF Request, Steps, PendingOn
  <2>2. PICK q \in Request : q = [requests[r] EXCEPT !.pc = "accept_save", !.todo = todo]
    BY <2>1
  <2>3. SlotOK(q)
    BY <1>0, <1>3, <2>2 DEF StartRejectingPending, SlotOK, Request
  <2> QED BY <1>3, <2>2, <2>3, ReadSlot DEF StartRejectingPending
<1>4. CASE ReadCaseForReject(r)
  <2>1. CASE Finish(r)
    BY <1>4, <2>1, ReadIdle DEF ReadCaseForReject
  <2>2. CASE Goto(r, "reject_save")
    <3>1. SlotOK([requests[r] EXCEPT !.pc = "reject_save"])
      BY <1>0, <1>4 DEF ReadCaseForReject, SlotOK, Request
    <3> QED BY <1>4, <2>2, <3>1, GotoSlot DEF ReadCaseForReject, Steps
  <2> QED BY <1>4, <2>1, <2>2 DEF ReadCaseForReject
<1>5. CASE Fail(r)
  BY <1>5, ReadIdle DEF Fail
<1> QED BY <1>1, <1>2, <1>3, <1>4, <1>5

(***************************************************************************)
(* Steps that write the Case collection.                                   *)
(***************************************************************************)
LEMMA CaseWrite ==
    ASSUME IInv, cases' \in [Cases -> CaseDoc],
           UNCHANGED <<offers, profiles, lawyerOffers, told, won, posted>>,
           recorded \subseteq recorded', recorded' \subseteq won,
           \A c \in Cases : cases'[c].st = "unused" => cases'[c] = cases[c],
           \A c \in Cases : \/ cases'[c].accepted \in {cases[c].accepted, None}
                            \/ /\ cases'[c].accepted \in won
                               /\ offers[cases'[c].accepted].case = c
    PROVE  DbOK' /\ Grows
<1>1. DbOK
  BY DEF IInv
<1>2. DbTypeOK' /\ OffersOK' /\ HistoryOK'
  BY <1>1 DEF DbOK, DbTypeOK, OffersOK, HistoryOK, Made
<1>3. OneOfferPerLawyerAndCase'
  BY <1>1 DEF DbOK, OneOfferPerLawyerAndCase, LiveOffer
<1>4. AcceptedOfferWasWon'
  BY <1>1 DEF DbOK, AcceptedOfferWasWon
<1>5. AcceptanceToldAfterRecorded'
  BY <1>1 DEF DbOK, AcceptanceToldAfterRecorded
<1>6. Grows
  BY DEF Grows
<1> QED BY <1>2, <1>3, <1>4, <1>5, <1>6 DEF DbOK

LEMMA CreateCaseStep ==
    ASSUME IInv, NEW c \in Cases, CreateCase(c)
    PROVE  IInv'
<1>1. DbOK
  BY DEF IInv
<1>2. PICK b \in CaseBodies :
         /\ cases' = [cases EXCEPT ![c] = b]
         /\ posted' = [posted EXCEPT ![c] = [accepted |-> b.accepted, count |-> b.count]]
  BY DEF CreateCase
<1>a. b \in CaseDoc /\ b.st # "unused" /\ [accepted |-> b.accepted, count |-> b.count] \in Posting
  BY BodyAssumption DEF CaseDoc, Posting
<1>b. UNCHANGED <<offers, profiles, lawyerOffers, told, won, recorded>>
  BY DEF CreateCase
<1>c. /\ cases' \in [Cases -> CaseDoc] /\ posted' \in [Cases -> Posting]
      /\ cases'[c] = b /\ posted'[c].accepted = b.accepted
      /\ \A d \in Cases \ {c} : cases'[d] = cases[d] /\ posted'[d] = posted[d]
  BY <1>1, <1>2, <1>a DEF DbOK, DbTypeOK
<1>d. DbTypeOK' /\ OffersOK' /\ HistoryOK'
  BY <1>1, <1>a, <1>b, <1>c DEF DbOK, DbTypeOK, OffersOK, HistoryOK, Made
<1>e. OneOfferPerLawyerAndCase' /\ AcceptedOfferWasWon' /\ AcceptanceToldAfterRecorded'
  BY <1>1, <1>b, <1>c DEF DbOK, OneOfferPerLawyerAndCase, LiveOffer, AcceptedOfferWasWon,
                         AcceptanceToldAfterRecorded
<1>3. DbOK' /\ Grows
  BY <1>b, <1>d, <1>e DEF DbOK, Grows
<1>4. requests' = requests
  BY DEF CreateCase
<1>5. requests' \in [Requests -> Request]
  BY <1>4 DEF IInv
<1>6. \A r \in Requests : SlotOK(requests[r])'
  BY <1>4, <1>b DEF IInv, SlotOK, Made
<1> QED BY <1>3, <1>5, <1>6 DEF IInv

\* save() of a case for an acceptance writes a Case document whose accepted offer
\* is the new one, or is left alone.
LEMMA SavedDoc ==
    ASSUME NEW stored \in CaseDoc, NEW doc \in CaseRead,
           NEW l \in Lawyers, NEW o \in OfferIds, NEW new,
           new = [doc EXCEPT !.lawyer = l, !.accepted = o, !.st = "in_progress"]
    PROVE  /\ Saved(stored, doc, new) \in CaseDoc
           /\ Saved(stored, doc, new).accepted \in {stored.accepted, o}
           /\ Saved(stored, doc, new).st \in {stored.st, "in_progress"}
<1>1. new.lawyer = l /\ new.accepted = o /\ new.st = "in_progress"
  BY DEF CaseRead
<1>2. PICK m \in Lawyers \cup {None} :
         m = IF new.lawyer = doc.lawyer THEN stored.lawyer ELSE new.lawyer
  BY <1>1 DEF CaseDoc
<1>3. PICK a \in OfferIds \cup {None} :
         /\ a = IF new.accepted = doc.accepted THEN stored.accepted ELSE new.accepted
         /\ a \in {stored.accepted, o}
  BY <1>1 DEF CaseDoc
<1>4. PICK s \in CaseStatus \cup Gone :
         /\ s = IF new.st = doc.st THEN stored.st ELSE new.st
         /\ s \in {stored.st, "in_progress"}
  BY <1>1 DEF CaseDoc
<1>5. Saved(stored, doc, new) = [stored EXCEPT !.lawyer = m, !.accepted = a, !.st = s]
  BY <1>2, <1>3, <1>4 DEF Saved
<1>6. [stored EXCEPT !.lawyer = m, !.accepted = a, !.st = s] \in CaseDoc
  BY DEF CaseDoc
<1>7. /\ [stored EXCEPT !.lawyer = m, !.accepted = a, !.st = s].accepted = a
      /\ [stored EXCEPT !.lawyer = m, !.accepted = a, !.st = s].st = s
  BY DEF CaseDoc
<1> QED BY <1>3, <1>4, <1>5, <1>6, <1>7

LEMMA CaseStep ==
    ASSUME IInv, NEW r \in Requests,
           \/ DeleteCase(r) \/ SaveStatus(r) \/ CountOffer(r) \/ SaveCaseOfAccepted(r)
    PROVE  IInv'
<1> USE DEF OnCase, OnOffer, AfterWon, AfterRecorded, At
<1>0. /\ requests[r] \in Request /\ SlotOK(requests[r])
      /\ cases \in [Cases -> CaseDoc] /\ recorded \subseteq won /\ OffersOK
  BY DEF IInv, DbOK, DbTypeOK, HistoryOK
<1>1. CASE DeleteCase(r)
  <2>1. cases' = [cases EXCEPT ![requests[r].case] = [NoDoc EXCEPT !.st = "deleted"]]
    BY <1>1 DEF DeleteCase
  <2>2. [NoDoc EXCEPT !.st = "deleted"] \in CaseDoc /\ NoDoc.accepted = None
    BY DEF NoDoc, CaseDoc
  <2>3. /\ cases' \in [Cases -> CaseDoc]
        /\ \A c \in Cases : /\ cases'[c].accepted \in {cases[c].accepted, None}
                            /\ cases'[c].st = "unused" => cases'[c] = cases[c]
    BY <1>0, <2>1, <2>2 DEF NoDoc
  <2>4. DbOK' /\ Grows
    BY <1>0, <1>1, <2>3, CaseWrite DEF DeleteCase, history
  <2> QED BY <1>1, <2>4, SetIdle DEF DeleteCase
<1>2. CASE SaveStatus(r)
  <2>1. requests[r].case \in Cases /\ requests[r].new \in CaseStatus
    BY <1>0, <1>2 DEF SaveStatus, SlotOK, Request
  <2>2. /\ cases' \in [Cases -> CaseDoc]
        /\ \A c \in Cases : /\ cases'[c].accepted = cases[c].accepted
                            /\ cases'[c].st = "unused" => cases'[c] = cases[c]
    BY <1>0, <1>2, <2>1 DEF SaveStatus, LiveCase, CaseDoc
  <2>3. DbOK' /\ Grows
    BY <1>0, <1>2, <2>2, CaseWrite DEF SaveStatus, history
  <2> QED BY <1>2, <2>3, SetIdle DEF SaveStatus
<1>3. CASE CountOffer(r)
  <2>1. requests[r].case \in Cases
    BY <1>0, <1>3 DEF CountOffer, SlotOK, OffersOK, Made
  <2>2. /\ cases' \in [Cases -> CaseDoc]
        /\ \A c \in Cases : /\ cases'[c].accepted = cases[c].accepted
                            /\ cases'[c].st = "unused" => cases'[c] = cases[c]
    BY <1>0, <1>3, <2>1 DEF CountOffer, LiveCase, CaseDoc
  <2>3. DbOK' /\ Grows
    BY <1>0, <1>3, <2>2, CaseWrite DEF CountOffer, history
  <2> QED BY <1>3, <2>3, SetIdle DEF CountOffer
<1>4. CASE SaveCaseOfAccepted(r)
  <2> DEFINE req == requests[r]
             new == [req.doc EXCEPT !.lawyer = req.lawyer, !.accepted = req.offer,
                                    !.st = "in_progress"]
  <2>1. /\ req.case \in Cases /\ req.offer \in won /\ req.offer \in OfferIds
        /\ offers[req.offer].case = req.case /\ req.lawyer \in Lawyers
    BY <1>0, <1>4 DEF SaveCaseOfAccepted, SlotOK, OffersOK, Made
  <2>2. CASE LiveCase(req.case)
    <3>1. cases' = [cases EXCEPT ![req.case] = Saved(cases[req.case], req.doc, new)]
      BY <1>4, <2>2 DEF SaveCaseOfAccepted
    <3>2. /\ Saved(cases[req.case], req.doc, new) \in CaseDoc
          /\ Saved(cases[req.case], req.doc, new).accepted
                \in {cases[req.case].accepted, req.offer}
          /\ Saved(cases[req.case], req.doc, new).st # "unused"
      BY <1>0, <2>1, <2>2, SavedDoc DEF Request, LiveCase
    <3>3. /\ cases' \in [Cases -> CaseDoc]
          /\ \A c \in Cases : /\ \/ cases'[c].accepted = cases[c].accepted
                                 \/ c = req.case /\ cases'[c].accepted = req.offer
                              /\ cases'[c].st = "unused" => cases'[c] = cases[c]
      BY <1>0, <2>1, <3>1, <3>2
    <3>4. recorded' = recorded \cup {req.offer} /\ Goto(r, "accept_count")
      BY <1>4, <2>2 DEF SaveCaseOfAccepted
    <3>5. DbOK' /\ Grows
      BY <1>0, <1>4, <2>1, <3>3, <3>4, CaseWrite DEF SaveCaseOfAccepted
    <3>6. [req EXCEPT !.pc = "accept_count"] \in Request
      BY <1>0 DEF Request, Steps
    <3>7. PICK q \in Request : q = [req EXCEPT !.pc = "accept_count"]
      BY <3>6
    <3>8. SlotOK(q)'
      BY <1>0, <1>4, <2>1, <3>4, <3>7 DEF SaveCaseOfAccepted, SlotOK, Request, Made
    <3>9. Become(r, q)
      BY <3>4, <3>7 DEF Goto, Become
    <3> QED BY <3>5, <3>8, <3>9, SetSlot
  <2>3. CASE ~LiveCase(req.case)
    <3>1. UNCHANGED <<dbVars, history>> /\ Finish(r)
      BY <1>4, <2>3 DEF SaveCaseOfAccepted, dbVars, history
    <3> QED BY <3>1, ReadIdle
  <2> QED BY <2>2, <2>3
<1> QED BY <1>1, <1>2, <1>3, <1>4

(***************************************************************************)
(* Steps that write the Offer collection.                                  *)
(***************************************************************************)
LEMMA OfferWrite ==
    ASSUME IInv, offers' \in [OfferIds -> OfferDoc],
           UNCHANGED <<cases, profiles, lawyerOffers, told, recorded, posted>>,
           won \subseteq won', won' \subseteq OfferIds,
           \A o \in won' : offers'[o].st # "unused",
           Grows, OffersOK', OneOfferPerLawyerAndCase'
    PROVE  DbOK'
<1>1. DbOK
  BY DEF IInv
<1>2. DbTypeOK' /\ HistoryOK'
  BY <1>1 DEF DbOK, DbTypeOK, HistoryOK, Made
<1>3. AcceptedOfferWasWon'
  BY <1>1 DEF DbOK, DbTypeOK, AcceptedOfferWasWon, HistoryOK, Made, Grows
<1>4. AcceptanceToldAfterRecorded'
  BY <1>1 DEF DbOK, DbTypeOK, AcceptanceToldAfterRecorded, HistoryOK, Made, Grows
<1> QED BY <1>2, <1>3, <1>4 DEF DbOK

\* One offer gets another status, and no offer comes back to life.
LEMMA OfferStatusWrite ==
    ASSUME IInv, NEW o \in OfferIds, Made(o), NEW s \in {"accepted", "rejected", "deleted"},
           s = "deleted" \/ LiveOffer(o),
           offers' = [offers EXCEPT ![o].st = s],
           UNCHANGED <<cases, profiles, lawyerOffers, told, recorded, posted>>,
           won' = won \/ won' = won \cup {o}
    PROVE  DbOK' /\ Grows
<1>1. DbOK /\ offers \in [OfferIds -> OfferDoc]
  BY DEF IInv, DbOK, DbTypeOK
<1>2. /\ offers' \in [OfferIds -> OfferDoc]
      /\ \A p \in OfferIds :
            /\ offers'[p].case = offers[p].case
            /\ offers'[p].lawyer = offers[p].lawyer
            /\ offers'[p].st = IF p = o THEN s ELSE offers[p].st
  BY <1>1 DEF OfferDoc
<1>3. Grows
  BY <1>2 DEF Grows
<1>4. OffersOK'
  BY <1>1, <1>2 DEF DbOK, OffersOK, Made
<1>5. OneOfferPerLawyerAndCase'
  BY <1>1, <1>2 DEF DbOK, OneOfferPerLawyerAndCase, LiveOffer
<1>6. won' \subseteq OfferIds /\ \A p \in won' : offers'[p].st # "unused"
  BY <1>1, <1>2 DEF DbOK, DbTypeOK, HistoryOK, Made
<1> QED BY <1>2, <1>3, <1>4, <1>5, <1>6, OfferWrite

LEMMA OfferStep ==
    ASSUME IInv, NEW r \in Requests,
           \/ InsertOffer(r) \/ (\E o \in OfferIds : RejectOnePending(r, o))
           \/ SaveAcceptedOffer(r) \/ SaveRejectedOffer(r) \/ DeleteOffer(r)
    PROVE  IInv'
<1> USE DEF OnCase, OnOffer, AfterWon, AfterRecorded, At
<1>0. /\ requests[r] \in Request /\ SlotOK(requests[r]) /\ DbOK
      /\ offers \in [OfferIds -> OfferDoc] /\ OffersOK
  BY DEF IInv, DbOK, DbTypeOK
<1>1. CASE InsertOffer(r)
  <2> DEFINE req == requests[r]
  <2>1. CASE PairTaken(req.case, req.lawyer)
    <3>1. UNCHANGED <<dbVars, history>> /\ Finish(r)
      BY <1>1, <2>1 DEF InsertOffer, dbVars, history
    <3> QED BY <3>1, ReadIdle
  <2>2. CASE ~PairTaken(req.case, req.lawyer)
    <3>1. PICK o \in OfferIds, b \in OfferBodies :
             /\ offers[o].st = "unused"
             /\ offers' = [offers EXCEPT ![o] =
                    [st |-> b, case |-> req.case, lawyer |-> req.lawyer]]
             /\ Become(r, [req EXCEPT !.pc = "create_count", !.offer = o])
      BY <1>1, <2>2 DEF InsertOffer
    <3>2. req.case \in Cases /\ req.lawyer \in Lawyers
      BY <1>0, <1>1 DEF InsertOffer, SlotOK
    <3>3. /\ offers' \in [OfferIds -> OfferDoc]
          /\ offers'[o] = [st |-> b, case |-> req.case, lawyer |-> req.lawyer]
          /\ b # "unused"
          /\ \A p \in OfferIds \ {o} : offers'[p] = offers[p]
      BY <1>0, <3>1, <3>2, BodyAssumption DEF OfferDoc
    <3>4. UNCHANGED <<cases, profiles, lawyerOffers, told, history>>
      BY <1>1 DEF InsertOffer
    <3>5. Grows
      BY <3>1, <3>3, <3>4 DEF Grows, history
    <3>6. OffersOK'
      BY <1>0, <3>2, <3>3 DEF OffersOK, Made
    <3>7. OneOfferPerLawyerAndCase'
      BY <1>0, <2>2, <3>3 DEF DbOK, OneOfferPerLawyerAndCase, LiveOffer, PairTaken
    <3>8. won' \subseteq OfferIds /\ \A p \in won' : offers'[p].st # "unused"
      BY <1>0, <3>3, <3>4 DEF DbOK, DbTypeOK, HistoryOK, Made, history
    <3>9. DbOK'
      BY <3>3, <3>4, <3>5, <3>6, <3>7, <3>8, OfferWrite DEF history
    <3>10. [req EXCEPT !.pc = "create_count", !.offer = o] \in Request
      BY <1>0 DEF Request, Steps
    <3>11. PICK q \in Request : q = [req EXCEPT !.pc = "create_count", !.offer = o]
      BY <3>10
    <3>12. SlotOK(q)'
      BY <1>0, <3>3, <3>11 DEF SlotOK, Request, Made
    <3> QED BY <3>1, <3>5, <3>9, <3>11, <3>12, SetSlot
  <2> QED BY <2>1, <2>2
<1>2. ASSUME NEW o \in OfferIds, RejectOnePending(r, o) PROVE IInv'
  <2>1. [requests[r] EXCEPT !.todo = requests[r].todo \ {o}] \in Request
    BY <1>0 DEF Request
  <2>2. PICK q \in Request : q = [requests[r] EXCEPT !.todo = requests[r].todo \ {o}]
    BY <2>1
  <2>3. Become(r, q)
    BY <1>2, <2>2 DEF RejectOnePending, Become
  <2>4. SlotOK(q)
    BY <1>0, <2>2 DEF SlotOK, Request
  <2>5. CASE offers[o].st = "pending"
    <3>1. DbOK' /\ Grows
      BY <1>2, <2>5, OfferStatusWrite DEF RejectOnePending, Made, LiveOffer, history
    <3>2. SlotOK(q)'
      BY <2>4, <3>1, SlotStays
    <3> QED BY <2>3, <3>1, <3>2, SetSlot
  <2>6. CASE offers[o].st # "pending"
    <3>1. UNCHANGED <<dbVars, history>>
      BY <1>2, <2>6 DEF RejectOnePending, dbVars
    <3> QED BY <2>3, <2>4, <3>1, ReadSlot
  <2> QED BY <2>5, <2>6
<1>3. CASE SaveAcceptedOffer(r)
  <2> DEFINE o == requests[r].offer
  <2>1. o \in OfferIds /\ Made(o)
    BY <1>0, <1>3 DEF SaveAcceptedOffer, SlotOK, Made
  <2>2. CASE LiveOffer(o)
    <3>1. /\ offers' = [offers EXCEPT ![o].st = "accepted"] /\ won' = won \cup {o}
          /\ Goto(r, "accept_case_save")
          /\ UNCHANGED <<cases, profiles, lawyerOffers, told, recorded, posted>>
      BY <1>3, <2>2 DEF SaveAcceptedOffer
    <3>2. DbOK' /\ Grows
      BY <2>1, <2>2, <3>1, OfferStatusWrite
    <3>3. [requests[r] EXCEPT !.pc = "accept_case_save"] \in Request
      BY <1>0 DEF Request, Steps
    <3>4. PICK q \in Request : q = [requests[r] EXCEPT !.pc = "accept_case_save"]
      BY <3>3
    <3>5. SlotOK(q)'
      BY <1>0, <1>3, <2>1, <3>1, <3>2, <3>4
      DEF SaveAcceptedOffer, SlotOK, Request, Made, Grows
    <3>6. Become(r, q)
      BY <3>1, <3>4 DEF Goto, Become
    <3> QED BY <3>2, <3>5, <3>6, SetSlot
  <2>3. CASE ~LiveOffer(o)
    <3>1. UNCHANGED <<dbVars, history>> /\ Finish(r)
      BY <1>3, <2>3 DEF SaveAcceptedOffer, dbVars, history
    <3> QED BY <3>1, ReadIdle
  <2> QED BY <2>2, <2>3
<1>4. CASE SaveRejectedOffer(r)
  <2> DEFINE o == requests[r].offer
  <2>1. o \in OfferIds /\ Made(o)
    BY <1>0, <1>4 DEF SaveRejectedOffer, SlotOK, Made
  <2>2. CASE LiveOffer(o)
    <3>1. DbOK' /\ Grows
      BY <1>4, <2>1, <2>2, OfferStatusWrite DEF SaveRejectedOffer, history
    <3> QED BY <1>4, <3>1, SetIdle DEF SaveRejectedOffer
  <2>3. CASE ~LiveOffer(o)
    <3>1. UNCHANGED <<dbVars, history>> /\ Finish(r)
      BY <1>4, <2>3 DEF SaveRejectedOffer, dbVars, history
    <3> QED BY <3>1, ReadIdle
  <2> QED BY <2>2, <2>3
<1>5. CASE DeleteOffer(r)
  <2> DEFINE o == requests[r].offer
  <2>1. o \in OfferIds /\ Made(o)
    BY <1>0, <1>5 DEF DeleteOffer, SlotOK, Made
  <2>2. DbOK' /\ Grows
    BY <1>5, <2>1, OfferStatusWrite DEF DeleteOffer, history
  <2> QED BY <1>5, <2>2, SetIdle DEF DeleteOffer
<1> QED BY <1>1, <1>2, <1>3, <1>4, <1>5

(***************************************************************************)
(* Steps that write Lawyer documents or notifications.                     *)
(***************************************************************************)
LEMMA TailStep ==
    ASSUME IInv, NEW r \in Requests, CountAcceptance(r) \/ NotifyAccepted(r)
    PROVE  IInv'
<1> USE DEF OnCase, OnOffer, AfterWon, AfterRecorded, At
<1>0. requests[r] \in Request /\ SlotOK(requests[r]) /\ DbOK
  BY DEF IInv
<1>1. requests[r].pc \in AfterRecorded
  BY DEF CountAcceptance, NotifyAccepted
<1>2. /\ requests[r].offer \in recorded /\ Made(requests[r].offer)
      /\ requests[r].lawyer = offers[requests[r].offer].lawyer
  BY <1>0, <1>1 DEF SlotOK
<1>3. requests[r].lawyer \in Lawyers
  BY <1>0, <1>2 DEF DbOK, OffersOK, Made
<1>4. UNCHANGED <<offers, cases, profiles, won, recorded, posted>>
  BY DEF CountAcceptance, NotifyAccepted, history
<1>5. Grows
  BY <1>4 DEF Grows
<1>6. OffersOK' /\ HistoryOK' /\ OneOfferPerLawyerAndCase' /\ AcceptedOfferWasWon'
  BY <1>0, <1>4 DEF DbOK, OffersOK, HistoryOK, Made, OneOfferPerLawyerAndCase, LiveOffer,
                    AcceptedOfferWasWon
<1>7. CASE CountAcceptance(r)
  <2> DEFINE l == requests[r].lawyer
  <2>1. /\ lawyerOffers' \in [Lawyers -> Nat]
        /\ \A m \in Lawyers \ {l} : lawyerOffers'[m] = lawyerOffers[m]
        /\ told' = told
    BY <1>0, <1>3, <1>7 DEF CountAcceptance, DbOK, DbTypeOK
  <2>2. DbTypeOK'
    BY <1>0, <1>4, <2>1 DEF DbOK, DbTypeOK
  <2>3. \A m \in Lawyers : lawyerOffers'[m] > 0 => \E o \in recorded : offers[o].lawyer = m
    BY <1>0, <1>2, <2>1 DEF DbOK, AcceptanceToldAfterRecorded
  <2>4. AcceptanceToldAfterRecorded'
    BY <1>0, <1>4, <2>1, <2>3 DEF DbOK, AcceptanceToldAfterRecorded
  <2>5. DbOK'
    BY <1>6, <2>2, <2>4 DEF DbOK
  <2>6. [requests[r] EXCEPT !.pc = "accept_notify"] \in Request
    BY <1>0 DEF Request, Steps
  <2>7. PICK q \in Request : q = [requests[r] EXCEPT !.pc = "accept_notify"]
    BY <2>6
  <2>8. SlotOK(q)'
    BY <1>0, <1>4, <1>7, <2>7 DEF CountAcceptance, SlotOK, Request, Made
  <2>9. Become(r, q)
    BY <1>7, <2>7 DEF CountAcceptance, Goto
  <2> QED BY <1>5, <2>5, <2>8, <2>9, SetSlot
<1>8. CASE NotifyAccepted(r)
  <2>1. /\ told' = told \/ told' = told \cup {requests[r].offer}
        /\ lawyerOffers' = lawyerOffers
    BY <1>8 DEF NotifyAccepted
  <2>2. DbTypeOK' /\ AcceptanceToldAfterRecorded'
    BY <1>0, <1>2, <1>4, <2>1 DEF DbOK, DbTypeOK, AcceptanceToldAfterRecorded
  <2>3. DbOK'
    BY <1>6, <2>2 DEF DbOK
  <2> QED BY <1>5, <1>8, <2>3, SetIdle DEF NotifyAccepted
<1> QED BY <1>7, <1>8

\* A step after which the slots, the offers and the histories are as before.
LEMMA DeleteLawyerProfileStep ==
    ASSUME IInv, NEW l \in Lawyers, DeleteLawyerProfile(l)
    PROVE  IInv'
<1>1. profiles' \subseteq profiles
      /\ UNCHANGED <<offers, cases, lawyerOffers, told, requests, won, recorded, posted>>
  BY DEF DeleteLawyerProfile, history
<1>2. DbTypeOK' /\ OffersOK' /\ HistoryOK'
  BY <1>1 DEF IInv, DbOK, DbTypeOK, OffersOK, HistoryOK, Made
<1>3. OneOfferPerLawyerAndCase' /\ AcceptedOfferWasWon' /\ AcceptanceToldAfterRecorded'
  BY <1>1 DEF IInv, DbOK, OneOfferPerLawyerAndCase, LiveOffer, AcceptedOfferWasWon,
              AcceptanceToldAfterRecorded
<1>4. requests' \in [Requests -> Request] /\ \A r \in Requests : SlotOK(requests[r])'
  BY <1>1 DEF IInv, SlotOK, Made
<1> QED BY <1>2, <1>3, <1>4 DEF IInv, DbOK

LEMMA StutterStep ==
    ASSUME IInv, UNCHANGED vars
    PROVE  IInv'
<1>1. UNCHANGED <<dbVars, history>> /\ requests' = requests
  BY DEF vars
<1>2. DbOK'
  BY <1>1, NoWrite
<1>3. requests' \in [Requests -> Request] /\ \A r \in Requests : SlotOK(requests[r])'
  BY <1>1 DEF IInv, SlotOK, Made, dbVars, history
<1> QED BY <1>2, <1>3 DEF IInv

LEMMA NextIInv == IInv /\ [Next]_vars => IInv'
<1> SUFFICES ASSUME IInv, [Next]_vars PROVE IInv'
  OBVIOUS
<1>1. ASSUME NEW r \in Requests, Arrive(r) PROVE IInv'
  BY <1>1, ArriveStep
<1>2. ASSUME NEW r \in Requests, Proceed(r) PROVE IInv'
  BY <1>2, ReadingStep, CaseStep, OfferStep, TailStep DEF Proceed
<1>3. ASSUME NEW r \in Requests, Fail(r) PROVE IInv'
  BY <1>3, ReadingStep
<1>4. ASSUME NEW c \in Cases, CreateCase(c) PROVE IInv'
  BY <1>4, CreateCaseStep
<1>5. ASSUME NEW l \in Lawyers, DeleteLawyerProfile(l) PROVE IInv'
  BY <1>5, DeleteLawyerProfileStep
<1>6. CASE UNCHANGED vars
  BY <1>6, StutterStep
<1> QED BY <1>1, <1>2, <1>3, <1>4, <1>5, <1>6 DEF Next

(***************************************************************************)
(* The theorems.                                                           *)
(***************************************************************************)
\* What requests know and what the documents say of each other, at every step of
\* OfferService and CaseService.
THEOREM Invariance == Spec => []IInv
<1>1. Init => IInv
  BY InitIInv
<1>2. IInv /\ [Next]_vars => IInv'
  BY NextIInv
<1> QED BY <1>1, <1>2, PTL DEF Spec

\* Documents and slots keep their types.
THEOREM TypeCorrect == Spec => []TypeOK
<1>1. IInv => TypeOK
  BY DEF IInv, DbOK, DbTypeOK, TypeOK
<1> QED BY <1>1, Invariance, PTL

\* However creates interleave, a lawyer has one offer on a case at most.
THEOREM UniqueOffers == Spec => []OneOfferPerLawyerAndCase
<1>1. IInv => OneOfferPerLawyerAndCase
  BY DEF IInv, DbOK
<1> QED BY <1>1, Invariance, PTL

\* However acceptances, deletes and failures interleave, a case points only at the
\* offer its body named or at one on it that acceptOffer saved as accepted.
THEOREM AcceptedWasWon == Spec => []AcceptedOfferWasWon
<1>1. IInv => AcceptedOfferWasWon
  BY DEF IInv, DbOK
<1> QED BY <1>1, Invariance, PTL

\* No lawyer hears of an acceptance that its case did not record.
THEOREM ToldAfterRecorded == Spec => []AcceptanceToldAfterRecorded
<1>1. IInv => AcceptanceToldAfterRecorded
  BY DEF IInv, DbOK
<1> QED BY <1>1, Invariance, PTL

\* Which step writes which offer.
LEMMA OfferWriters ==
    ASSUME IInv, [Next]_vars, offers' # offers, NEW o \in OfferIds
    PROVE  /\ offers[o].st \in {"accepted", "rejected"} => offers'[o].st # "pending"
           /\ offers[o].st = "deleted" => offers'[o] = offers[o]
           /\ (offers[o].st = "accepted" /\ offers'[o].st = "rejected") =>
                 \E r \in Requests : At(r, "reject_save") /\ requests[r].offer = o
<1> DEFINE Goal ==
      /\ offers[o].st \in {"accepted", "rejected"} => offers'[o].st # "pending"
      /\ offers[o].st = "deleted" => offers'[o] = offers[o]
      /\ (offers[o].st = "accepted" /\ offers'[o].st = "rejected") =>
            \E r \in Requests : At(r, "reject_save") /\ requests[r].offer = o
<1>1. offers[o] \in OfferDoc /\ offers \in [OfferIds -> OfferDoc]
  BY DEF IInv, DbOK, DbTypeOK
<1>2. PICK r \in Requests :
         \/ InsertOffer(r) \/ (\E p \in OfferIds : RejectOnePending(r, p))
         \/ SaveAcceptedOffer(r) \/ SaveRejectedOffer(r) \/ DeleteOffer(r)
  BY DEF Next, vars, dbVars, Arrive, Proceed, Fail, CreateCase, DeleteLawyerProfile,
         ReadCaseForOffer, ReadCaseForDelete, ReadCaseForStatus, ReadOfferForAccept,
         ReadOfferForReject, ReadOfferForDelete, FindExistingOffer, CountOffer,
         ReadCaseForAccept, StartRejectingPending, SaveCaseOfAccepted, CountAcceptance,
         NotifyAccepted, ReadCaseForReject, DeleteCase, SaveStatus
<1>3. CASE InsertOffer(r)
  BY <1>1, <1>3 DEF InsertOffer
<1>4. ASSUME NEW p \in OfferIds, RejectOnePending(r, p) PROVE Goal
  BY <1>1, <1>4 DEF RejectOnePending, OfferDoc
<1>5. CASE SaveAcceptedOffer(r)
  BY <1>1, <1>5 DEF SaveAcceptedOffer, LiveOffer, OfferDoc
<1>6. CASE SaveRejectedOffer(r)
  BY <1>1, <1>6 DEF SaveRejectedOffer, LiveOffer, OfferDoc
<1>7. CASE DeleteOffer(r)
  BY <1>1, <1>7 DEF DeleteOffer, OfferDoc
<1> QED BY <1>2, <1>3, <1>4, <1>5, <1>6, <1>7

\* An acceptance never undoes the decision on another offer.
THEOREM DecisionsKept == Spec => DecisionsStand
<1>1. IInv /\ [Next]_vars =>
        [\A o \in OfferIds :
          /\ offers[o].st \in {"accepted", "rejected"} => offers'[o].st # "pending"
          /\ offers[o].st = "deleted" => offers'[o] = offers[o]
          /\ (offers[o].st = "accepted" /\ offers'[o].st = "rejected") =>
                \E r \in Requests : At(r, "reject_save") /\ requests[r].offer = o
        ]_offers
  BY OfferWriters
<1> QED BY <1>1, Invariance, PTL DEF Spec, DecisionsStand

----------------------------------------------------------------------------
(***************************************************************************)
(* Case.offers_count never exceeds what it was created with and the number *)
(* of offers made on the case since.                                       *)
(* The count lags behind by one for every request between its insert and   *)
(* its $inc, so the invariant adds those requests to the count.            *)
(***************************************************************************)
LEMMA Finite ==
    ASSUME NEW c
    PROVE  IsFiniteSet(Uncounted(c)) /\ IsFiniteSet(MadeOn(c))
<1>1. Uncounted(c) \subseteq Requests /\ MadeOn(c) \subseteq OfferIds
  BY DEF Uncounted, MadeOn
<1> QED BY <1>1, FiniteAssumption, FS_Subset

LEMMA FiniteNext ==
    ASSUME NEW c
    PROVE  IsFiniteSet(Uncounted(c)') /\ IsFiniteSet(MadeOn(c)')
<1>1. Uncounted(c)' \subseteq Requests /\ MadeOn(c)' \subseteq OfferIds
  BY DEF Uncounted, MadeOn
<1> QED BY <1>1, FiniteAssumption, FS_Subset

(***************************************************************************)
(* Steps that make no offer and put no request before its $inc.            *)
(***************************************************************************)
SameOffers == \A o \in OfferIds :
    /\ offers'[o].st # "unused" <=> offers[o].st # "unused"
    /\ offers'[o].case = offers[o].case

NoneBefore == \A r \in Requests :
    requests'[r].pc = "create_count" =>
        requests[r].pc = "create_count" /\ requests'[r].case = requests[r].case

CountNotRaised == posted' = posted /\ \A c \in Cases : cases'[c].count \in {cases[c].count, 0}

LEMMA CountKept ==
    ASSUME IInv, OffersCountBounded, SameOffers, NoneBefore, CountNotRaised
    PROVE  OffersCountBounded'
<1> SUFFICES ASSUME NEW c \in Cases
             PROVE  cases'[c].count + Cardinality(Uncounted(c)')
                        <= posted'[c].count + Cardinality(MadeOn(c)')
  BY DEF OffersCountBounded
<1>1. MadeOn(c)' = MadeOn(c)
  BY DEF SameOffers, MadeOn
<1>2. Uncounted(c)' \subseteq Uncounted(c)
  BY DEF NoneBefore, Uncounted, At
<1>3. Cardinality(Uncounted(c)') <= Cardinality(Uncounted(c))
  BY <1>2, Finite, FS_Subset
<1>4. /\ Cardinality(Uncounted(c)) \in Nat /\ Cardinality(Uncounted(c)') \in Nat
      /\ Cardinality(MadeOn(c)) \in Nat /\ cases[c].count \in Nat /\ posted[c].count \in Nat
  BY Finite, FiniteNext, FS_CardinalityType DEF IInv, DbOK, DbTypeOK, CaseDoc, Posting
<1>5. cases[c].count + Cardinality(Uncounted(c)) <= posted[c].count + Cardinality(MadeOn(c))
  BY DEF OffersCountBounded
<1> QED BY <1>1, <1>3, <1>4, <1>5 DEF CountNotRaised

\* The slot of r moves anywhere but before the $inc.
LEMMA SlotLeaves ==
    ASSUME IInv, NEW r \in Requests, NEW q, Become(r, q), q.pc # "create_count"
    PROVE  NoneBefore
BY DEF IInv, Become, NoneBefore

LEMMA OthersKeepCount ==
    ASSUME IInv, OffersCountBounded, NEW r \in Requests,
           Arrive(r) \/ Fail(r) \/ (Proceed(r) /\ ~InsertOffer(r) /\ ~CountOffer(r))
    PROVE  OffersCountBounded'
<1> USE DEF At, Finish, Goto
<1>0. /\ requests \in [Requests -> Request] /\ SlotOK(requests[r]) /\ requests[r] \in Request
      /\ offers \in [OfferIds -> OfferDoc] /\ cases \in [Cases -> CaseDoc]
  BY DEF IInv, DbOK, DbTypeOK
<1>1. Idle.pc # "create_count"
  BY DEF Idle
<1>2. ASSUME UNCHANGED offers PROVE SameOffers
  BY <1>2 DEF SameOffers
<1>3. ASSUME UNCHANGED <<cases, posted>> PROVE CountNotRaised
  BY <1>3 DEF CountNotRaised
<1>4. CASE Arrive(r)
  <2>1. UNCHANGED <<offers, cases, posted>>
    BY <1>4 DEF Arrive, ReadCaseForOffer, ReadCaseForDelete, ReadCaseForStatus,
                ReadOfferForAccept, ReadOfferForReject, ReadOfferForDelete, dbVars, history
  <2>2. \E q : Become(r, q) /\ q.pc # "create_count"
    <3>1. ASSUME NEW c \in Cases, NEW l \in Lawyers, ReadCaseForOffer(r, c, l)
          PROVE  \E q : Become(r, q) /\ q.pc # "create_count"
      <4>1. ([Idle EXCEPT !.pc = "create_find", !.case = c, !.lawyer = l]).pc = "create_find"
        BY DEF Idle
      <4>2. Become(r, [Idle EXCEPT !.pc = "create_find", !.case = c, !.lawyer = l])
        BY <3>1 DEF ReadCaseForOffer
      <4> QED BY <4>1, <4>2
    <3>2. ASSUME NEW c \in Cases, ReadCaseForDelete(r, c)
          PROVE  \E q : Become(r, q) /\ q.pc # "create_count"
      <4>1. ([Idle EXCEPT !.pc = "case_delete", !.case = c]).pc = "case_delete"
        BY DEF Idle
      <4>2. Become(r, [Idle EXCEPT !.pc = "case_delete", !.case = c])
        BY <3>2 DEF ReadCaseForDelete
      <4> QED BY <4>1, <4>2
    <3>3. ASSUME NEW c \in Cases, NEW s \in NewStatuses, ReadCaseForStatus(r, c, s)
          PROVE  \E q : Become(r, q) /\ q.pc # "create_count"
      <4>1. ([Idle EXCEPT !.pc = "status_save", !.case = c,
                 !.doc = [NothingRead EXCEPT !.st = cases[c].st], !.new = s]).pc = "status_save"
        BY DEF Idle
      <4>2. Become(r, [Idle EXCEPT !.pc = "status_save", !.case = c,
                 !.doc = [NothingRead EXCEPT !.st = cases[c].st], !.new = s])
        BY <3>3 DEF ReadCaseForStatus
      <4> QED BY <4>1, <4>2
    <3>4. ASSUME NEW o \in OfferIds, ReadOfferForAccept(r, o)
          PROVE  \E q : Become(r, q) /\ q.pc # "create_count"
      <4>1. ([Idle EXCEPT !.pc = "accept_case", !.offer = o, !.case = offers[o].case,
                 !.lawyer = offers[o].lawyer]).pc = "accept_case"
        BY DEF Idle
      <4>2. Become(r, [Idle EXCEPT !.pc = "accept_case", !.offer = o, !.case = offers[o].case,
                 !.lawyer = offers[o].lawyer])
        BY <3>4 DEF ReadOfferForAccept
      <4> QED BY <4>1, <4>2
    <3>5. ASSUME NEW o \in OfferIds, ReadOfferForReject(r, o)
          PROVE  \E q : Become(r, q) /\ q.pc # "create_count"
      <4>1. ([Idle EXCEPT !.pc = "reject_case", !.offer = o, !.case = offers[o].case,
                 !.lawyer = offers[o].lawyer]).pc = "reject_case"
        BY DEF Idle
      <4>2. Become(r, [Idle EXCEPT !.pc = "reject_case", !.offer = o, !.case = offers[o].case,
                 !.lawyer = offers[o].lawyer])
        BY <3>5 DEF ReadOfferForReject
      <4> QED BY <4>1, <4>2
    <3>6. ASSUME NEW o \in OfferIds, ReadOfferForDelete(r, o)
          PROVE  \E q : Become(r, q) /\ q.pc # "create_count"
      <4>1. ([Idle EXCEPT !.pc = "offer_delete", !.offer = o]).pc = "offer_delete"
        BY DEF Idle
      <4>2. Become(r, [Idle EXCEPT !.pc = "offer_delete", !.offer = o])
        BY <3>6 DEF ReadOfferForDelete
      <4> QED BY <4>1, <4>2
    <3> QED BY <1>4, <3>1, <3>2, <3>3, <3>4, <3>5, <3>6 DEF Arrive
  <2>3. NoneBefore
    BY <2>2, SlotLeaves
  <2> QED BY <1>2, <1>3, <2>1, <2>3, CountKept
<1>5. CASE Fail(r)
  BY <1>1, <1>2, <1>3, <1>5, SlotLeaves, CountKept DEF Fail, dbVars, history
<1>6. CASE FindExistingOffer(r) \/ ReadCaseForAccept(r) \/ StartRejectingPending(r)
           \/ ReadCaseForReject(r) \/ CountAcceptance(r) \/ NotifyAccepted(r)
  <2>1. UNCHANGED <<offers, cases, posted>>
    BY <1>6 DEF FindExistingOffer, ReadCaseForAccept, StartRejectingPending,
                ReadCaseForReject, CountAcceptance, NotifyAccepted, dbVars, history
  <2>2. \E q : Become(r, q) /\ q.pc # "create_count"
    <3>1. CASE Finish(r)
      BY <1>1, <3>1
    <3>2. ASSUME NEW step \in Steps \ {"create_count"}, Goto(r, step)
          PROVE  \E q : Become(r, q) /\ q.pc # "create_count"
      <4>1. [requests[r] EXCEPT !.pc = step].pc = step
        BY <1>0 DEF Request
      <4> QED BY <3>2, <4>1
    <3>3. CASE ReadCaseForAccept(r) /\ ~Finish(r)
      <4>1. [requests[r] EXCEPT !.pc = "accept_reject",
                                !.doc = Read(requests[r].case)].pc = "accept_reject"
        BY <1>0 DEF Request
      <4>2. Become(r, [requests[r] EXCEPT !.pc = "accept_reject",
                                          !.doc = Read(requests[r].case)])
        BY <3>3 DEF ReadCaseForAccept
      <4> QED BY <4>1, <4>2
    <3>4. CASE StartRejectingPending(r)
      <4>1. [requests[r] EXCEPT !.pc = "accept_save",
                                !.todo = PendingOn(requests[r].case)].pc = "accept_save"
        BY <1>0 DEF Request
      <4>2. Become(r, [requests[r] EXCEPT !.pc = "accept_save",
                                          !.todo = PendingOn(requests[r].case)])
        BY <3>4 DEF StartRejectingPending
      <4> QED BY <4>1, <4>2
    <3>5. CASE FindExistingOffer(r) /\ ~Finish(r)
      BY <3>2, <3>5 DEF FindExistingOffer, Steps
    <3>6. CASE ReadCaseForReject(r) /\ ~Finish(r)
      BY <3>2, <3>6 DEF ReadCaseForReject, Steps
    <3>7. CASE CountAcceptance(r)
      BY <3>2, <3>7 DEF CountAcceptance, Steps
    <3>8. CASE NotifyAccepted(r)
      BY <1>1, <3>8 DEF NotifyAccepted
    <3> QED BY <1>6, <3>1, <3>3, <3>4, <3>5, <3>6, <3>7, <3>8
  <2>3. NoneBefore
    BY <2>2, SlotLeaves
  <2> QED BY <1>2, <1>3, <2>1, <2>3, CountKept
<1>7. ASSUME NEW o \in OfferIds, RejectOnePending(r, o) PROVE OffersCountBounded'
  <2>1. SameOffers /\ NoneBefore /\ UNCHANGED <<cases, posted>>
    BY <1>0, <1>7 DEF RejectOnePending, history, SameOffers, OfferDoc, Become, NoneBefore, Request
  <2> QED BY <1>3, <2>1, CountKept
<1>8. CASE SaveAcceptedOffer(r) \/ SaveRejectedOffer(r)
  <2>1. SameOffers /\ UNCHANGED <<cases, posted>>
    BY <1>0, <1>8 DEF history, SaveAcceptedOffer, SaveRejectedOffer, LiveOffer, SameOffers, OfferDoc
  <2>2. NoneBefore
    BY <1>0, <1>8 DEF SaveAcceptedOffer, SaveRejectedOffer, Idle, Become, NoneBefore, Request
  <2> QED BY <1>3, <2>1, <2>2, CountKept
<1>9. CASE DeleteOffer(r)
  <2>1. Made(requests[r].offer)
    BY <1>0, <1>9 DEF DeleteOffer, SlotOK, OnOffer
  <2>2. SameOffers /\ NoneBefore /\ UNCHANGED <<cases, posted>>
    BY <1>0, <1>9, <2>1 DEF history, DeleteOffer, Made, SameOffers, OfferDoc, Idle, Become, NoneBefore
  <2> QED BY <1>3, <2>2, CountKept
<1>10. CASE DeleteCase(r) \/ SaveStatus(r)
  <2>1. UNCHANGED offers /\ NoneBefore
    BY <1>0, <1>10 DEF DeleteCase, SaveStatus, Idle, Become, NoneBefore
  <2>2. CountNotRaised
    BY <1>0, <1>10 DEF DeleteCase, SaveStatus, NoDoc, CaseDoc, CountNotRaised, history
  <2> QED BY <1>2, <2>1, <2>2, CountKept
<1>11. CASE SaveCaseOfAccepted(r)
  <2>1. UNCHANGED offers /\ NoneBefore
    BY <1>0, <1>11 DEF SaveCaseOfAccepted, Idle, Become, NoneBefore, Request
  <2>2. \A stored \in CaseDoc : \A doc, new : Saved(stored, doc, new).count = stored.count
    BY DEF Saved, CaseDoc
  <2>3. CountNotRaised
    BY <1>0, <1>11, <2>2 DEF SaveCaseOfAccepted, CountNotRaised
  <2> QED BY <1>2, <2>1, <2>3, CountKept
<1> QED BY <1>4, <1>5, <1>6, <1>7, <1>8, <1>9, <1>10, <1>11 DEF Proceed

(***************************************************************************)
(* The two steps of a create that matter.                                  *)
(***************************************************************************)
LEMMA InsertKeepsCount ==
    ASSUME IInv, OffersCountBounded, NEW r \in Requests, InsertOffer(r)
    PROVE  OffersCountBounded'
<1> DEFINE req == requests[r]
<1>0. /\ requests \in [Requests -> Request] /\ SlotOK(req) /\ req.pc = "create_insert"
      /\ offers \in [OfferIds -> OfferDoc] /\ cases \in [Cases -> CaseDoc]
      /\ UNCHANGED <<cases, posted>> /\ posted \in [Cases -> Posting]
  BY DEF IInv, DbOK, DbTypeOK, InsertOffer, At, history
<1>1. CASE PairTaken(req.case, req.lawyer)
  <2>1. SameOffers /\ NoneBefore /\ CountNotRaised
    BY <1>0, <1>1 DEF InsertOffer, Finish, Idle, Become, SameOffers, NoneBefore, CountNotRaised
  <2> QED BY <2>1, CountKept
<1>2. CASE ~PairTaken(req.case, req.lawyer)
  <2>1. PICK o \in OfferIds, b \in OfferBodies :
           /\ offers[o].st = "unused"
           /\ offers' = [offers EXCEPT ![o] =
                  [st |-> b, case |-> req.case, lawyer |-> req.lawyer]]
           /\ Become(r, [req EXCEPT !.pc = "create_count", !.offer = o])
    BY <1>2 DEF InsertOffer
  <2>2. /\ requests'[r].pc = "create_count" /\ requests'[r].case = req.case
        /\ \A s \in Requests \ {r} : requests'[s] = requests[s]
    BY <1>0, <2>1 DEF Become, Request
  <2>3. /\ offers'[o].st # "unused" /\ offers'[o].case = req.case
        /\ \A p \in OfferIds \ {o} : offers'[p] = offers[p]
    BY <1>0, <2>1, BodyAssumption
  <2> SUFFICES ASSUME NEW c \in Cases
               PROVE  cases[c].count + Cardinality(Uncounted(c)')
                          <= posted[c].count + Cardinality(MadeOn(c)')
    BY <1>0 DEF OffersCountBounded
  <2>4. /\ Cardinality(Uncounted(c)) \in Nat /\ Cardinality(MadeOn(c)) \in Nat
        /\ cases[c].count \in Nat /\ posted[c].count \in Nat
        /\ cases[c].count + Cardinality(Uncounted(c)) <= posted[c].count + Cardinality(MadeOn(c))
    BY <1>0, Finite, FS_CardinalityType DEF OffersCountBounded, CaseDoc, Posting
  <2>5. CASE c = req.case
    <3>1. Uncounted(c)' = Uncounted(c) \cup {r} /\ r \notin Uncounted(c)
      BY <1>0, <2>2, <2>5 DEF Uncounted, At
    <3>2. MadeOn(c)' = MadeOn(c) \cup {o} /\ o \notin MadeOn(c)
      BY <2>1, <2>3, <2>5 DEF MadeOn
    <3>3. Cardinality(Uncounted(c)') = Cardinality(Uncounted(c)) + 1
      BY <3>1, Finite, FS_AddElement
    <3>4. Cardinality(MadeOn(c)') = Cardinality(MadeOn(c)) + 1
      BY <3>2, Finite, FS_AddElement
    <3> QED BY <2>4, <3>3, <3>4
  <2>6. CASE c # req.case
    <3>1. Uncounted(c)' = Uncounted(c)
      BY <1>0, <2>2, <2>6 DEF Uncounted, At
    <3>2. MadeOn(c)' = MadeOn(c)
      BY <2>1, <2>3, <2>6 DEF MadeOn
    <3> QED BY <2>4, <3>1, <3>2
  <2> QED BY <2>5, <2>6
<1> QED BY <1>1, <1>2

LEMMA CountKeepsCount ==
    ASSUME IInv, OffersCountBounded, NEW r \in Requests, CountOffer(r)
    PROVE  OffersCountBounded'
<1> DEFINE d == requests[r].case
<1>0. /\ requests \in [Requests -> Request] /\ cases \in [Cases -> CaseDoc]
      /\ requests[r].pc = "create_count" /\ UNCHANGED <<offers, posted>>
      /\ posted \in [Cases -> Posting]
  BY DEF IInv, DbOK, DbTypeOK, CountOffer, At, history
<1>1. /\ requests'[r].pc # "create_count"
      /\ \A s \in Requests \ {r} : requests'[s] = requests[s]
  BY <1>0 DEF CountOffer, Finish, Become, Idle
<1>2. \A c \in Cases : /\ cases'[c].count \in {cases[c].count, cases[c].count + 1}
                       /\ c # d => cases'[c].count = cases[c].count
  BY <1>0 DEF CountOffer, CaseDoc
<1> SUFFICES ASSUME NEW c \in Cases
             PROVE  cases'[c].count + Cardinality(Uncounted(c)')
                        <= posted'[c].count + Cardinality(MadeOn(c)')
  BY DEF OffersCountBounded
<1>3. /\ Cardinality(Uncounted(c)) \in Nat /\ Cardinality(MadeOn(c)) \in Nat
      /\ cases[c].count \in Nat /\ posted[c].count \in Nat
      /\ cases[c].count + Cardinality(Uncounted(c)) <= posted[c].count + Cardinality(MadeOn(c))
  BY <1>0, Finite, FS_CardinalityType DEF OffersCountBounded, CaseDoc, Posting
<1>4. MadeOn(c)' = MadeOn(c)
  BY <1>0 DEF MadeOn
<1>5. CASE c = d
  <2>1. Uncounted(c)' = Uncounted(c) \ {r} /\ r \in Uncounted(c)
    BY <1>0, <1>1, <1>5 DEF Uncounted, At
  <2>2. Cardinality(Uncounted(c)') = Cardinality(Uncounted(c)) - 1
    BY <2>1, Finite, FS_RemoveElement
  <2> QED BY <1>0, <1>2, <1>3, <1>4, <2>2
<1>6. CASE c # d
  <2>1. Uncounted(c)' = Uncounted(c)
    BY <1>0, <1>1, <1>6 DEF Uncounted, At
  <2> QED BY <1>0, <1>2, <1>3, <1>4, <1>6, <2>1
<1> QED BY <1>5, <1>6

\* A new case has its body's count, and no offer was made on it before.
LEMMA CreateKeepsCount ==
    ASSUME IInv, OffersCountBounded, NEW d \in Cases, CreateCase(d)
    PROVE  OffersCountBounded'
<1>1. PICK b \in CaseBodies :
         /\ cases' = [cases EXCEPT ![d] = b]
         /\ posted' = [posted EXCEPT ![d] = [accepted |-> b.accepted, count |-> b.count]]
  BY DEF CreateCase
<1>2. /\ cases \in [Cases -> CaseDoc] /\ posted \in [Cases -> Posting]
      /\ cases[d].count = 0 /\ posted[d].count = 0
      /\ UNCHANGED <<offers, requests>>
  BY DEF IInv, DbOK, DbTypeOK, HistoryOK, CreateCase
<1>3. /\ cases'[d].count = b.count /\ posted'[d].count = b.count /\ b.count \in Nat
      /\ \A c \in Cases \ {d} : cases'[c] = cases[c] /\ posted'[c] = posted[c]
  BY <1>1, <1>2, BodyAssumption
<1> SUFFICES ASSUME NEW c \in Cases
             PROVE  cases'[c].count + Cardinality(Uncounted(c)')
                        <= posted'[c].count + Cardinality(MadeOn(c)')
  BY DEF OffersCountBounded
<1>4. MadeOn(c)' = MadeOn(c) /\ Uncounted(c)' = Uncounted(c)
  BY <1>2 DEF MadeOn, Uncounted, At
<1>5. Cardinality(Uncounted(c)) \in Nat /\ Cardinality(MadeOn(c)) \in Nat
  BY Finite, FS_CardinalityType
<1>6. cases[c].count + Cardinality(Uncounted(c)) <= posted[c].count + Cardinality(MadeOn(c))
  BY DEF OffersCountBounded
<1> QED BY <1>2, <1>3, <1>4, <1>5, <1>6

LEMMA InitCount == Init => OffersCountBounded
<1> SUFFICES ASSUME Init, NEW c \in Cases
             PROVE  cases[c].count + Cardinality(Uncounted(c))
                        <= posted[c].count + Cardinality(MadeOn(c))
  BY DEF OffersCountBounded
<1>1. Uncounted(c) = {} /\ cases[c].count = 0 /\ posted[c].count = 0
  BY DEF Init, Uncounted, At, Idle, NoDoc
<1>2. Cardinality(MadeOn(c)) \in Nat
  BY Finite, FS_CardinalityType
<1> QED BY <1>1, <1>2, FS_EmptySet

\* Whatever overlaps, dies or is deleted, the counter of a case never runs ahead of what
\* its body named and the offers made on it since (the $inc of OfferService.create).
THEOREM CountBounded == Spec => []OffersCountBounded
<1>1. IInv /\ OffersCountBounded /\ [Next]_vars => OffersCountBounded'
  <2> SUFFICES ASSUME IInv, OffersCountBounded, [Next]_vars PROVE OffersCountBounded'
    OBVIOUS
  <2>1. ASSUME NEW r \in Requests, Arrive(r) \/ Proceed(r) \/ Fail(r)
        PROVE  OffersCountBounded'
    BY <2>1, OthersKeepCount, InsertKeepsCount, CountKeepsCount
  <2>2. ASSUME NEW c \in Cases, CreateCase(c) PROVE OffersCountBounded'
    BY <2>2, CreateKeepsCount
  <2>3. CASE UNCHANGED <<offers, cases, requests, posted>>
    BY <2>3, CountKept DEF SameOffers, NoneBefore, CountNotRaised
  <2> QED BY <2>1, <2>2, <2>3 DEF Next, vars, dbVars, history, DeleteLawyerProfile
<1> QED BY <1>1, InitCount, Invariance, PTL DEF Spec
=============================================================================
