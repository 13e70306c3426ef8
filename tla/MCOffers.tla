------------------------------ MODULE MCOffers ------------------------------
(***************************************************************************)
(* Offers for TLC.  Ids, lawyers and request slots are interchangeable, so *)
(* every set of bodies below has with one offer or lawyer all of them.     *)
(***************************************************************************)
EXTENDS Offers, TLC

Symmetry == Permutations(Cases) \cup Permutations(Lawyers)
            \cup Permutations(OfferIds) \cup Permutations(Requests)

\* The defaults of the schema, for a body that names none of the fields.
PlainBody == [st |-> "open", lawyer |-> None, accepted |-> None, count |-> 0]
PlainBodies == {PlainBody}

\* Bodies that name an offer and a count.
NamingBodies == {[PlainBody EXCEPT !.accepted = o, !.count = 1] : o \in OfferIds}

\* Bodies that name all four fields.
FullBodies ==
    PlainBodies \cup [st: {"open"}, lawyer: Lawyers, accepted: OfferIds, count: {1}]
        \cup [st: {"completed"}, lawyer: {None}, accepted: {None}, count: {0}]
=============================================================================
