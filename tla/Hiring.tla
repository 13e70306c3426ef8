------------------------------- MODULE Hiring -------------------------------
(***************************************************************************)
(* What cases and offers promise: every operation happens at once.  A      *)
(* lawyer offers on an open case; the client accepts a pending offer, which*)
(* hires its lawyer and rejects the other pending offers in the same step; *)
(* offers are rejected or withdrawn while they are pending.  New cases and *)
(* offers are in any state their bodies may name.                          *)
(***************************************************************************)
CONSTANTS Cases, Lawyers, OfferIds, None, NewStatuses, OfferBodies, CaseBodies, AdminDeletes

VARIABLES
    offers,     \* offer id -> its status, case and lawyer
    hires       \* case id -> its status, the lawyer hired and the offer accepted

Live(doc) == doc.st \notin {"unused", "deleted"}

Init ==
    /\ offers = [o \in OfferIds |-> [st |-> "unused", case |-> None, lawyer |-> None]]
    /\ hires = [c \in Cases |-> [st |-> "unused", lawyer |-> None, accepted |-> None]]

Post(c) ==
    /\ hires[c].st = "unused"
    /\ \E b \in CaseBodies :
          hires' = [hires EXCEPT ![c] = [st |-> b.st, lawyer |-> b.lawyer, accepted |-> b.accepted]]
    /\ UNCHANGED offers

Submit(o, c, l) ==
    /\ offers[o].st = "unused"
    /\ hires[c].st = "open"
    /\ ~\E p \in OfferIds : Live(offers[p]) /\ offers[p].case = c /\ offers[p].lawyer = l
    /\ \E s \in OfferBodies :
          offers' = [offers EXCEPT ![o] = [st |-> s, case |-> c, lawyer |-> l]]
    /\ UNCHANGED hires

Accept(o) ==
    LET c == offers[o].case IN
    /\ offers[o].st = "pending"
    /\ Live(hires[c])
    /\ offers' = [p \in OfferIds |->
           IF offers[p].st = "pending" /\ offers[p].case = c
           THEN [offers[p] EXCEPT !.st = IF p = o THEN "accepted" ELSE "rejected"]
           ELSE offers[p]]
    /\ hires' = [hires EXCEPT ![c] =
           [st |-> "in_progress", lawyer |-> offers[o].lawyer, accepted |-> o]]

Reject(o) ==
    /\ offers[o].st = "pending"
    /\ offers' = [offers EXCEPT ![o].st = "rejected"]
    /\ UNCHANGED hires

Withdraw(o) ==
    /\ offers[o].st = "pending" \/ (AdminDeletes /\ Live(offers[o]))
    /\ offers' = [offers EXCEPT ![o].st = "deleted"]
    /\ UNCHANGED hires

SetStatus(c, s) ==
    /\ Live(hires[c])
    /\ hires' = [hires EXCEPT ![c].st = s]
    /\ UNCHANGED offers

Remove(c) ==
    /\ hires[c].st = "open" \/ (AdminDeletes /\ Live(hires[c]))
    /\ hires' = [hires EXCEPT ![c] = [st |-> "deleted", lawyer |-> None, accepted |-> None]]
    /\ UNCHANGED offers

Next ==
    \/ \E c \in Cases :
          \/ Post(c)
          \/ Remove(c)
          \/ \E s \in NewStatuses : SetStatus(c, s)
          \/ \E o \in OfferIds, l \in Lawyers : Submit(o, c, l)
    \/ \E o \in OfferIds : Accept(o) \/ Reject(o) \/ Withdraw(o)

Spec == Init /\ [][Next]_<<offers, hires>>
=============================================================================
