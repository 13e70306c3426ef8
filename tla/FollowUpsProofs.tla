--------------------------- MODULE FollowUpsProofs ---------------------------
(***************************************************************************)
(* Theorems about FollowUps, for any number of messages, reviews and       *)
(* requests in flight, with or without failures.                           *)
(***************************************************************************)
EXTENDS FollowUps, FiniteSetTheorems, TLAPS

-----------------------------------------------------------------------------
\* The lists keep their types, whatever the walk meets.
LEMMA OffOK == Off \in Walk
BY LimitsAssumption DEF Off, Walk, Stops, NoneShown

LEMMA NextStopOK == ASSUME NEW w \in Walk PROVE NextStop(w) \in Walk
<1>1. FirstQuery \in Stops /\ LastQuery \in Stops /\ "done" \in Stops
  BY DEF FirstQuery, LastQuery, Stops
<1>2. w.page + 1 \in Nat
  BY DEF Walk
<1>3. /\ [w EXCEPT !.at = LastQuery] \in Walk
      /\ [w EXCEPT !.at = FirstQuery, !.page = @ + 1] \in Walk
      /\ [w EXCEPT !.at = "done"] \in Walk
  BY <1>1, <1>2 DEF Walk
<1> QED BY <1>3 DEF NextStop

LEMMA FiniteRows == ASSUME NEW S \in SUBSET Rows PROVE Cardinality(S) \in Nat
BY RowsAssumption, FS_Subset, FS_CardinalityType

LEMMA WalkStep ==
    ASSUME WalkTypeOK, WalkNext
    PROVE  WalkTypeOK'
<1> USE DEF WalkTypeOK
<1>1. CASE BeginWalk
  <2>1. PICK limit \in Limits :
           walk' = [Off EXCEPT !.at = FirstQuery, !.limit = limit, !.start = Found]
    BY <1>1 DEF BeginWalk
  <2>2. FirstQuery \in Stops /\ Found \in SUBSET Rows
    BY DEF FirstQuery, Stops, Found, In
  <2>3. walk' \in Walk
    BY <2>1, <2>2, OffOK DEF Walk
  <2> QED BY <1>1, <2>3 DEF BeginWalk
<1>2. CASE FindPage
  <2>1. PICK page :
           walk' = NextStop([walk EXCEPT
               !.shown = [r \in Rows |-> IF r \in page THEN Once(@[r]) ELSE @[r]]])
    BY <1>2 DEF FindPage
  <2>2. PICK shown : shown = [r \in Rows |-> IF r \in page THEN Once(walk.shown[r]) ELSE walk.shown[r]]
    OBVIOUS
  <2>3. shown \in [Rows -> 0 .. 2]
    <3>1. walk.shown \in [Rows -> 0 .. 2]
      BY DEF Walk
    <3>2. \A n \in 0 .. 2 : Once(n) \in 0 .. 2
      BY DEF Once
    <3> QED BY <2>2, <3>1, <3>2
  <2>4. [walk EXCEPT !.shown = shown] \in Walk
    BY <2>3 DEF Walk
  <2>5. walk' = NextStop([walk EXCEPT !.shown = shown])
    BY <2>1, <2>2
  <2>6. walk' \in Walk
    BY <2>4, <2>5, NextStopOK
  <2> QED BY <1>2, <2>6 DEF FindPage
<1>3. CASE CountRows
  <2>1. PICK n \in Nat : n = Cardinality(Counted)
    BY FiniteRows DEF Counted, In
  <2>2. [walk EXCEPT !.total = n] \in Walk
    BY DEF Walk
  <2>3. walk' = NextStop([walk EXCEPT !.total = n])
    BY <1>3, <2>1 DEF CountRows
  <2>4. walk' \in Walk
    BY <2>2, <2>3, NextStopOK
  <2> QED BY <1>3, <2>4 DEF CountRows
<1>4. CASE EndWalk
  BY <1>4, OffOK DEF EndWalk
<1>5. \A grew, shrank \in BOOLEAN : [walk EXCEPT !.grew = grew, !.shrank = shrank] \in Walk
  BY DEF Walk
<1>6. /\ Grown => walk' \in Walk
      /\ Shrunk => walk' \in Walk
      /\ walk' = [walk EXCEPT !.grew = @ \/ Walking, !.shrank = @ \/ Walking] => walk' \in Walk
  <2>1. PICK g : g = (walk.grew \/ Walking)
    OBVIOUS
  <2>2. PICK s : s = (walk.shrank \/ Walking)
    OBVIOUS
  <2>3. g \in BOOLEAN /\ s \in BOOLEAN
    BY <2>1, <2>2, Zenon
  <2>4. /\ [walk EXCEPT !.grew = g] \in Walk
        /\ [walk EXCEPT !.shrank = s] \in Walk
        /\ [walk EXCEPT !.grew = g, !.shrank = s] \in Walk
    BY <2>3 DEF Walk
  <2> QED BY <2>1, <2>2, <2>4 DEF Grown, Shrunk
<1>7. CASE LeaveAll
  BY <1>6, <1>7 DEF LeaveAll, RowState
<1>8. ASSUME NEW r \in Rows, Insert(r) PROVE WalkTypeOK'
  BY <1>6, <1>8 DEF Insert, RowState
<1>9. ASSUME NEW r \in Rows, Leave(r) \/ Return(r) PROVE WalkTypeOK'
  BY <1>6, <1>9 DEF Leave, Return, RowState
<1>10. ASSUME NEW r \in Rows, Delete(r) \/ SoftDelete(r) PROVE WalkTypeOK'
  BY <1>6, <1>10 DEF Delete, SoftDelete, RowState
<1>11. ASSUME NEW r \in Rows, Rename(r) PROVE WalkTypeOK'
  BY <1>6, <1>11 DEF Rename
<1> QED BY <1>1, <1>2, <1>3, <1>4, <1>7, <1>8, <1>9, <1>10, <1>11 DEF WalkNext

-----------------------------------------------------------------------------
LEMMA IdleOK == Idle \in Request /\ SlotOK(Idle) /\ Idle.at = "idle"
<1>1. Idle.at = "idle" /\ Idle \in Request
  BY DEF Idle, Request
<1> QED BY <1>1 DEF SlotOK, ReviewSteps

\* What a request's step does to the slots.
LEMMA SlotSet ==
    ASSUME IInv, NEW r \in Requests, NEW q \in Request, Become(r, q)
    PROVE  /\ requests' \in [Requests -> Request] /\ requests'[r] = q
           /\ \A s \in Requests \ {r} : requests'[s] = requests[s]
BY DEF IInv, TypeOK, Become

\* The requests at some steps are finitely many, and a step moves one of them.
LEMMA StepsCount ==
    ASSUME IInv, NEW r \in Requests, NEW q \in Request, Become(r, q), NEW S
    PROVE  /\ Cardinality(Steps(S)) \in Nat
           /\ Cardinality(Steps(S)') =
                 Cardinality(Steps(S)) + (IF q.at \in S THEN 1 ELSE 0)
                                       - (IF requests[r].at \in S THEN 1 ELSE 0)
<1> DEFINE Others == {s \in Requests \ {r} : requests[s].at \in S}
<1>1. IsFiniteSet(Others)
  BY FiniteAssumption, FS_Subset
<1>2. PICK n \in Nat : n = Cardinality(Others)
  BY <1>1, FS_CardinalityType
<1>3. r \notin Others
  OBVIOUS
<1>4. Steps(S) = IF requests[r].at \in S THEN Others \cup {r} ELSE Others
  BY DEF Steps
<1>5. Steps(S)' = IF q.at \in S THEN Others \cup {r} ELSE Others
  BY SlotSet DEF Steps
<1> HIDE DEF Others
<1>6. Cardinality(Others \cup {r}) = n + 1
  BY <1>1, <1>2, <1>3, FS_AddElement
<1>7. Cardinality(Steps(S)) = IF requests[r].at \in S THEN n + 1 ELSE n
  BY <1>2, <1>4, <1>6
<1>8. Cardinality(Steps(S)') = IF q.at \in S THEN n + 1 ELSE n
  BY <1>2, <1>5, <1>6
<1> QED BY <1>2, <1>7, <1>8

\* Without reviews and their requests the count is right.
LEMMA NothingReviewed ==
    ASSUME total = 0, \A i \in ReviewIds : reviews[i] = None,
           \A s \in Requests : requests[s].at \notin ReviewSteps
    PROVE  total + Cardinality(Steps({"lookupNew", "plus"}))
               = Cardinality(Live) + Cardinality(Steps({"lookupOld", "minus"}))
<1>1. Steps({"lookupNew", "plus"}) = {} /\ Steps({"lookupOld", "minus"}) = {} /\ Live = {}
  BY DEF Steps, Live, ReviewSteps
<1> QED BY <1>1, FS_EmptySet

LEMMA InitIInv == Init => IInv
<1> SUFFICES ASSUME Init PROVE IInv
  OBVIOUS
<1>1. /\ topic \in {"messages", "reviews", "lists"} /\ profiles = Lawyers /\ thread = <<>>
      /\ reviews = [i \in ReviewIds |-> None] /\ total = 0 /\ drifted = FALSE
      /\ requests = [r \in Requests |-> Idle]
  BY DEF Init
<1>2. case \in [there: BOOLEAN, lawyer: Lawyers \cup {None}]
  <2>1. PICK l \in Lawyers :
           case = [there |-> TRUE, lawyer |-> IF topic = "reviews" THEN l ELSE None]
    BY DEF Init
  <2> QED BY <2>1
<1>3. WalkTypeOK
  <2>1. CASE WalkInit
    BY <2>1, OffOK DEF WalkInit, WalkTypeOK, RowState
  <2>2. CASE /\ list = GetAuditLogs /\ walk = Off
             /\ rows = [r \in Rows |-> "absent"] /\ rank = [r \in Rows |-> 0]
    <3>1. GetAuditLogs \in AllLists
      BY DEF AllLists
    <3> QED BY <2>2, <3>1, OffOK DEF WalkTypeOK, RowState
  <2> QED BY <2>1, <2>2 DEF Init
<1>4. thread \in Seq(Message) /\ Len(thread) <= MaxMessages
  BY <1>1, PageAssumption
<1>5. TypeOK
  <2>1. requests \in [Requests -> Request]
    BY <1>1, IdleOK
  <2>2. reviews \in [ReviewIds -> Reviewed \cup {None}]
    BY <1>1
  <2>3. profiles \subseteq Lawyers /\ total \in Int
    BY <1>1
  <2>4. drifted \in BOOLEAN
    BY <1>1, Zenon
  <2> QED BY <1>1, <1>2, <1>3, <1>4, <2>1, <2>2, <2>3, <2>4 DEF TypeOK
<1>6. \A r \in Requests : requests[r] = Idle /\ requests[r].at \notin ReviewSteps
  BY <1>1, IdleOK DEF ReviewSteps
<1>7. TotalExplained /\ OtherTopic /\ OneReviewPerCase /\ ReadWasShown
  BY <1>1, <1>6, NothingReviewed DEF TotalExplained, OtherTopic, OneReviewPerCase, ReadWasShown
<1> QED BY <1>5, <1>6, <1>7, IdleOK DEF IInv

-----------------------------------------------------------------------------
\* A request that goes on to a step that counts nothing, from one that shows nothing.
LEMMA RequestStep ==
    ASSUME IInv, OnlyRequests, NEW r \in Requests, NEW q \in Request, Become(r, q),
           SlotOK(q), q.at \notin Counting,
           requests[r].at \notin Counting, requests[r].at # "answer"
    PROVE  IInv'
<1>1. UNCHANGED <<topic, case, profiles, thread, reviews, total, drifted, list, rows, rank, walk>>
  BY DEF OnlyRequests, messageVars, reviewVars, walkVars
<1>2. TypeOK'
  <2>1. WalkTypeOK'
    BY <1>1 DEF IInv, TypeOK, WalkTypeOK
  <2> QED BY <1>1, <2>1, SlotSet DEF IInv, TypeOK
<1>3. \A s \in Requests : SlotOK(requests[s])'
  <2> SUFFICES ASSUME NEW s \in Requests PROVE SlotOK(requests[s])'
    OBVIOUS
  <2>1. PICK x \in Request : x = requests'[s] /\ SlotOK(x)
    BY SlotSet DEF IInv
  <2> QED BY <1>1, <2>1 DEF SlotOK
<1>4. ReadWasShown'
  <2>1. \A i \in DOMAIN thread : Answering(i) => Answering(i)'
    BY <1>1, SlotSet DEF Answering, At, Fetched
  <2> QED BY <1>1, <2>1 DEF IInv, ReadWasShown
<1>5. TotalExplained'
  <2>1. /\ Cardinality(Steps({"lookupNew", "plus"})') = Cardinality(Steps({"lookupNew", "plus"}))
        /\ Cardinality(Steps({"lookupOld", "minus"})') = Cardinality(Steps({"lookupOld", "minus"}))
    BY StepsCount DEF Counting
  <2> QED BY <1>1, <2>1 DEF IInv, TotalExplained, Live, Reviewee
<1>6. OneReviewPerCase' /\ OtherTopic'
  BY <1>1 DEF IInv, OneReviewPerCase, OtherTopic
<1> QED BY <1>2, <1>3, <1>4, <1>5, <1>6 DEF IInv

LEMMA FinishStep ==
    ASSUME IInv, OnlyRequests, NEW r \in Requests, Finish(r),
           requests[r].at \notin Counting, requests[r].at # "answer"
    PROVE  IInv'
<1>1. Idle.at \notin Counting
  BY IdleOK DEF Counting
<1> QED BY <1>1, IdleOK, RequestStep DEF Finish

\* The steps that only move the request.
LEMMA MovesStep ==
    ASSUME IInv, NEW r \in Requests,
           \/ Ask(r) \/ ReadCase(r) \/ CheckCaseAccess(r) \/ FindMessages(r)
           \/ NotifyReceiver(r) \/ AskReview(r) \/ CheckReview(r) \/ NotifyLawyer(r)
    PROVE  IInv'
<1> DEFINE q == requests[r]
<1>1. q \in Request /\ SlotOK(q)
  BY DEF IInv, TypeOK
<1> HIDE DEF q
<1>2. CASE Ask(r)
  <2>1. PICK op \in {"getByCase", "createMessage"} : Become(r, [Idle EXCEPT !.at = "case", !.op = op])
    BY <1>2 DEF Ask
  <2>2. PICK x : x = [Idle EXCEPT !.at = "case", !.op = op]
    OBVIOUS
  <2>3. x \in Request /\ x.at = "case" /\ x.op = op
    BY <2>2, IdleOK DEF Request, MessageSteps, Idle
  <2>4. SlotOK(x) /\ x.at \notin Counting
    BY <2>3 DEF SlotOK, Counting, ReviewSteps
  <2> QED BY <1>2, <2>1, <2>2, <2>3, <2>4, RequestStep DEF Ask, At, Counting
<1>3. CASE ReadCase(r)
  <2>1. PICK l : l = IF q.op = "createMessage" THEN case.lawyer ELSE None
    OBVIOUS
  <2>2. PICK x : x = [q EXCEPT !.at = "access", !.lawyer = l]
    OBVIOUS
  <2>3. l \in Lawyers \cup {None}
    BY <2>1 DEF IInv, TypeOK
  <2>4. x \in Request /\ x.at = "access" /\ x.op = q.op
    BY <1>1, <2>2, <2>3 DEF Request, MessageSteps
  <2>5. q.at = "case"
    BY <1>3 DEF ReadCase, At, q
  <2>6. SlotOK(x) /\ x.at \notin Counting
    BY <1>1, <2>4, <2>5 DEF SlotOK, Counting, ReviewSteps
  <2>7. Become(r, x) \/ Finish(r)
    BY <1>3, <2>1, <2>2 DEF ReadCase, q
  <2> QED BY <1>3, <2>4, <2>5, <2>6, <2>7, RequestStep, FinishStep DEF ReadCase, Counting, q
<1>4. CASE CheckCaseAccess(r)
  <2>1. PICK u \in Users :
           IF HasAccess(u)
           THEN Become(r, [q EXCEPT !.at = IF q.op = "getByCase" THEN "find" ELSE "insert",
                                    !.op = None, !.user = u])
           ELSE Finish(r)
    BY <1>4 DEF CheckCaseAccess, q
  <2>2. PICK step : step = IF q.op = "getByCase" THEN "find" ELSE "insert"
    OBVIOUS
  <2>3. PICK x : x = [q EXCEPT !.at = step, !.op = None, !.user = u]
    OBVIOUS
  <2>4. x \in Request /\ x.at \in {"find", "insert"} /\ x.user = u
    BY <1>1, <2>2, <2>3 DEF Request, MessageSteps
  <2>5. SlotOK(x) /\ x.at \notin Counting
    BY <2>4 DEF SlotOK, Counting, ReviewSteps
  <2>6. Become(r, x) \/ Finish(r)
    BY <2>1, <2>2, <2>3
  <2> QED BY <1>4, <2>4, <2>5, <2>6, RequestStep, FinishStep DEF CheckCaseAccess, At, Counting
<1>5. CASE FindMessages(r)
  <2>1. PICK step : step = IF q.user = Admin THEN "answer" ELSE "mark"
    OBVIOUS
  <2>2. PICK n : n = IF Len(thread) < PageSize THEN Len(thread) ELSE PageSize
    OBVIOUS
  <2>3. thread \in Seq(Message)
    BY DEF IInv, TypeOK
  <2>4. /\ n \in Nat
        /\ \A i \in DOMAIN thread : i <= PageSize => i <= n
    BY <2>2, <2>3, PageAssumption
  <2>5. PICK x : x = [q EXCEPT !.at = step, !.upto = n]
    OBVIOUS
  <2>6. x \in Request /\ x.at = step /\ x.user = q.user /\ x.upto = n
    BY <1>1, <2>1, <2>4, <2>5 DEF Request, MessageSteps
  <2>7. q.at = "find"
    BY <1>5 DEF FindMessages, At, q
  <2>8. SlotOK(x) /\ x.at \notin Counting
    BY <1>1, <2>1, <2>4, <2>6, <2>7 DEF SlotOK, Counting, ReviewSteps
  <2>9. Become(r, x)
    BY <1>5, <2>1, <2>2, <2>5 DEF FindMessages, q
  <2> QED BY <1>5, <2>6, <2>7, <2>8, <2>9, RequestStep DEF FindMessages, Counting, q
<1>6. CASE NotifyReceiver(r) \/ NotifyLawyer(r)
  BY <1>6, FinishStep DEF NotifyReceiver, NotifyLawyer, At, Counting
<1>7. CASE AskReview(r)
  <2>1. PICK k \in Reviewed \cup ReviewIds, step \in {"check", "remove"} :
           /\ Become(r, [Idle EXCEPT !.at = step, !.target = k])
           /\ step = "check" => k \in Reviewed
           /\ step = "remove" => k \in ReviewIds
    BY <1>7 DEF AskReview
  <2>2. PICK x : x = [Idle EXCEPT !.at = step, !.target = k]
    OBVIOUS
  <2>3. x \in Request /\ x.at = step /\ x.target = k
    BY <2>2, IdleOK DEF Request, ReviewSteps, Idle
  <2>4. SlotOK(x) /\ x.at \notin Counting
    BY <1>7, <2>1, <2>3 DEF SlotOK, Counting, AskReview
  <2> QED BY <1>7, <2>1, <2>2, <2>3, <2>4, RequestStep DEF AskReview, At, Counting
<1>8. CASE CheckReview(r)
  <2>1. PICK x : x = [q EXCEPT !.at = "create"]
    OBVIOUS
  <2>2. x \in Request /\ x.at = "create" /\ x.target = q.target
    BY <1>1, <2>1 DEF Request, ReviewSteps
  <2>3. q.at = "check"
    BY <1>8 DEF CheckReview, At, q
  <2>4. SlotOK(x) /\ x.at \notin Counting
    BY <1>1, <2>2, <2>3 DEF SlotOK, Counting, ReviewSteps
  <2>5. Become(r, x) \/ Finish(r)
    BY <1>8, <2>1 DEF CheckReview, Goto, q
  <2> QED BY <1>8, <2>2, <2>3, <2>4, <2>5, RequestStep, FinishStep DEF CheckReview, Counting, q
<1> QED BY <1>2, <1>3, <1>4, <1>5, <1>6, <1>7, <1>8

-----------------------------------------------------------------------------
\* A step about messages that leaves reviews alone: what must be shown of it.
LEMMA MessageStep ==
    ASSUME IInv, NEW r \in Requests, NEW q \in Request, Become(r, q),
           requests[r].at \in MessageSteps, q.at \in MessageSteps \cup {"idle"},
           UNCHANGED <<topic, case, profiles, reviewVars, walkVars>>,
           thread' \in Seq(Message), Len(thread') <= MaxMessages,
           ReadWasShown', \A s \in Requests : SlotOK(requests[s])'
    PROVE  IInv'
<1>1. UNCHANGED <<topic, case, profiles, reviews, total, drifted, list, rows, rank, walk>>
  BY DEF reviewVars, walkVars
<1>2. TypeOK'
  <2>1. WalkTypeOK'
    BY <1>1 DEF IInv, TypeOK, WalkTypeOK
  <2> QED BY <1>1, <2>1, SlotSet DEF IInv, TypeOK
<1>3. TotalExplained'
  <2>1. /\ Cardinality(Steps({"lookupNew", "plus"})') = Cardinality(Steps({"lookupNew", "plus"}))
        /\ Cardinality(Steps({"lookupOld", "minus"})') = Cardinality(Steps({"lookupOld", "minus"}))
    BY StepsCount DEF MessageSteps
  <2> QED BY <1>1, <2>1 DEF IInv, TotalExplained, Live, Reviewee
<1>4. OneReviewPerCase' /\ OtherTopic'
  BY <1>1 DEF IInv, OneReviewPerCase, OtherTopic
<1> QED BY <1>2, <1>3, <1>4 DEF IInv

\* Whoever marks holds every message of the first page that nobody was shown: it answers
\* with those it marked.
LEMMA MarkReadStep ==
    ASSUME IInv, NEW r \in Requests, MarkRead(r)
    PROVE  IInv'
<1> DEFINE q == requests[r]
<1>1. q \in Request /\ q.at = "mark" /\ SlotOK(q) /\ q.user \in Users /\ q.user # Admin
  BY DEF IInv, TypeOK, MarkRead, At, SlotOK
<1>2. PICK x : x = [q EXCEPT !.at = "answer"]
  OBVIOUS
<1>3. /\ Become(r, x)
      /\ UNCHANGED <<topic, case, profiles, reviewVars, walkVars>>
  BY <1>2 DEF MarkRead, Goto
<1>4. x \in Request /\ x.at = "answer" /\ x.user = q.user /\ x.upto = q.upto
  BY <1>1, <1>2 DEF Request, MessageSteps
<1>5. thread \in Seq(Message) /\ Len(thread) <= MaxMessages
  BY DEF IInv, TypeOK
<1>6. /\ thread' \in Seq(Message) /\ DOMAIN thread' = DOMAIN thread
      /\ \A i \in DOMAIN thread :
            /\ thread'[i].sender = thread[i].sender /\ thread'[i].known = thread[i].known
            /\ thread'[i].read => thread[i].read \/ thread[i].sender # q.user
  <2>1. thread' = [i \in DOMAIN thread |->
                     [thread[i] EXCEPT !.read = @ \/ thread[i].sender # q.user]]
    BY DEF MarkRead
  <2>2. \A m \in Message, b \in BOOLEAN :
           LET n == [m EXCEPT !.read = b] IN
           n \in Message /\ n.sender = m.sender /\ n.known = m.known /\ n.read = b
    BY DEF Message
  <2>3. \A i \in DOMAIN thread : thread[i] \in Message
    BY <1>5
  <2>4. \A i \in DOMAIN thread : (thread[i].read \/ thread[i].sender # q.user) \in BOOLEAN
    BY Zenon
  <2>5. \A i \in DOMAIN thread :
           /\ thread'[i] \in Message
           /\ thread'[i].sender = thread[i].sender /\ thread'[i].known = thread[i].known
           /\ thread'[i].read = (thread[i].read \/ thread[i].sender # q.user)
    <3> SUFFICES ASSUME NEW i \in DOMAIN thread
                 PROVE  /\ thread'[i] \in Message
                        /\ thread'[i].sender = thread[i].sender
                        /\ thread'[i].known = thread[i].known
                        /\ thread'[i].read = (thread[i].read \/ thread[i].sender # q.user)
      OBVIOUS
    <3>1. PICK b \in BOOLEAN : b = (thread[i].read \/ thread[i].sender # q.user)
      BY <2>4, Zenon
    <3>2. thread'[i] = [thread[i] EXCEPT !.read = b]
      BY <2>1, <3>1
    <3>3. /\ thread'[i] \in Message /\ thread'[i].sender = thread[i].sender
          /\ thread'[i].known = thread[i].known /\ thread'[i].read = b
      BY <2>2, <2>3, <3>2
    <3> QED BY <3>1, <3>3, Zenon
  <2>6. thread' \in Seq(Message) /\ DOMAIN thread' = DOMAIN thread
    <3>1. DOMAIN thread = 1 .. Len(thread) /\ Len(thread) \in Nat
      BY <1>5
    <3>2. thread' \in [1 .. Len(thread) -> Message]
      BY <2>1, <2>5, <3>1
    <3> QED BY <3>1, <3>2
  <2> QED BY <2>5, <2>6
<1> HIDE DEF q
<1>7. Len(thread') <= MaxMessages
  BY <1>5, <1>6
<1>8. ReadWasShown'
  <2> SUFFICES ASSUME NEW i \in DOMAIN thread, i <= PageSize, thread'[i].read, thread'[i].known = "no"
               PROVE  Answering(i)'
    BY <1>6 DEF ReadWasShown
  <2>1. thread[i].known = "no" /\ (thread[i].read \/ thread[i].sender # q.user)
    BY <1>6
  <2>2. CASE thread[i].read
    <3>1. PICK s \in Requests : At(s, "answer") /\ requests[s].user # Admin /\ Fetched(requests[s], i)
      BY <2>1, <2>2 DEF IInv, ReadWasShown, Answering
    <3>2. s # r
      BY <1>1, <3>1 DEF At, q
    <3>3. requests'[s] = requests[s]
      BY <1>3, <1>4, <3>2, SlotSet
    <3> QED BY <1>6, <3>1, <3>3 DEF Answering, At, Fetched
  <2>3. CASE thread[i].sender # q.user
    <3>1. i <= q.upto
      BY <1>1, <2>1 DEF SlotOK
    <3>2. requests'[r] = x
      BY <1>3, <1>4, SlotSet
    <3> QED BY <1>1, <1>4, <1>6, <2>3, <3>1, <3>2 DEF Answering, At, Fetched
  <2> QED BY <2>1, <2>2, <2>3
<1>9. \A s \in Requests : SlotOK(requests[s])'
  <2> SUFFICES ASSUME NEW s \in Requests PROVE SlotOK(requests[s])'
    OBVIOUS
  <2>1. CASE s = r
    <3>1. requests'[s] = x
      BY <1>3, <1>4, <2>1, SlotSet
    <3> QED BY <1>1, <1>4, <3>1 DEF SlotOK, ReviewSteps
  <2>2. CASE s # r
    <3>1. requests'[s] = requests[s] /\ SlotOK(requests[s])
      BY <1>3, <1>4, <2>2, SlotSet DEF IInv
    <3>2. topic' = topic
      BY <1>3
    <3> QED BY <1>6, <3>1, <3>2 DEF SlotOK
  <2> QED BY <2>1, <2>2
<1>10. requests[r].at \in MessageSteps /\ x.at \in MessageSteps \cup {"idle"}
  BY <1>1, <1>4 DEF MessageSteps, q
<1> QED BY <1>3, <1>4, <1>6, <1>7, <1>8, <1>9, <1>10, MessageStep

\* A request that ends, and in ending may make messages known: every one it was about to
\* show is known afterwards.
LEMMA KnownStep ==
    ASSUME IInv, NEW r \in Requests, Become(r, Idle),
           UNCHANGED <<topic, case, profiles, reviews, total, walkVars>>,
           DOMAIN thread' = DOMAIN thread,
           \A i \in DOMAIN thread :
              /\ thread'[i] \in Message /\ thread'[i].read = thread[i].read
              /\ thread'[i].sender = thread[i].sender
              /\ thread'[i].known = "no" => thread[i].known = "no"
              /\ thread'[i].known = "no" /\ At(r, "answer") /\ requests[r].user # Admin
                    => ~Fetched(requests[r], i),
           thread' \in Seq(Message),
           drifted' \in BOOLEAN, drifted => drifted', requests[r].at \in Counting => drifted'
    PROVE  IInv'
<1>1. /\ UNCHANGED <<topic, case, profiles, reviews, total, list, rows, rank, walk>>
      /\ requests' \in [Requests -> Request] /\ requests'[r] = Idle
      /\ \A s \in Requests \ {r} : requests'[s] = requests[s]
  BY IdleOK, SlotSet DEF walkVars
<1>2. thread \in Seq(Message) /\ Len(thread) <= MaxMessages
  BY DEF IInv, TypeOK
<1>3. TypeOK'
  <2>1. WalkTypeOK'
    BY <1>1 DEF IInv, TypeOK, WalkTypeOK
  <2>2. Len(thread') <= MaxMessages
    BY <1>2
  <2> QED BY <1>1, <2>1, <2>2 DEF IInv, TypeOK
<1>4. ReadWasShown'
  <2> SUFFICES ASSUME NEW i \in DOMAIN thread, i <= PageSize, thread[i].read, thread'[i].known = "no"
               PROVE  Answering(i)'
    BY DEF ReadWasShown
  <2>1. PICK s \in Requests : At(s, "answer") /\ requests[s].user # Admin /\ Fetched(requests[s], i)
    BY DEF IInv, ReadWasShown, Answering
  <2>2. s # r
    BY <2>1
  <2> QED BY <1>1, <2>1, <2>2 DEF Answering, At, Fetched
<1>5. TotalExplained'
  <2>1. CASE drifted'
    BY <2>1 DEF TotalExplained
  <2>2. CASE ~drifted'
    <3>1. Idle.at \notin Counting /\ requests[r].at \notin Counting /\ ~drifted
      BY <2>2, IdleOK DEF Counting
    <3>2. /\ Cardinality(Steps({"lookupNew", "plus"})') = Cardinality(Steps({"lookupNew", "plus"}))
          /\ Cardinality(Steps({"lookupOld", "minus"})') = Cardinality(Steps({"lookupOld", "minus"}))
      BY <3>1, IdleOK, StepsCount DEF Counting
    <3> QED BY <1>1, <3>1, <3>2 DEF IInv, TotalExplained, Live, Reviewee
  <2> QED BY <2>1, <2>2
<1>6. OneReviewPerCase' /\ OtherTopic'
  BY <1>1 DEF IInv, OneReviewPerCase, OtherTopic
<1>7. \A s \in Requests : SlotOK(requests[s])'
  <2> SUFFICES ASSUME NEW s \in Requests PROVE SlotOK(requests[s])'
    OBVIOUS
  <2>1. requests'[s] \in {Idle, requests[s]} /\ SlotOK(requests[s]) /\ SlotOK(Idle)
    BY <1>1, IdleOK DEF IInv
  <2> QED BY <1>1, <2>1 DEF SlotOK
<1> QED BY <1>3, <1>4, <1>5, <1>6, <1>7 DEF IInv

LEMMA KnownMessage ==
    ASSUME NEW m \in Message, NEW k \in {"no", "shown", "missed"}
    PROVE  LET n == [m EXCEPT !.known = k] IN
           n \in Message /\ n.sender = m.sender /\ n.read = m.read /\ n.known = k
BY DEF Message

LEMMA AnswerMessagesStep ==
    ASSUME IInv, NEW r \in Requests, AnswerMessages(r)
    PROVE  IInv'
<1> DEFINE q == requests[r]
<1>1. thread \in Seq(Message)
  BY DEF IInv, TypeOK
<1>2. DOMAIN thread = 1 .. Len(thread) /\ Len(thread) \in Nat
  BY <1>1
<1>3. /\ DOMAIN thread' = DOMAIN thread
      /\ \A i \in DOMAIN thread :
            \/ thread'[i] = thread[i] /\ (q.user = Admin \/ ~Fetched(q, i))
            \/ thread'[i] = [thread[i] EXCEPT !.known = "shown"]
  <2>1. CASE q.user = Admin
    BY <2>1 DEF AnswerMessages
  <2>2. CASE q.user # Admin
    BY <2>2 DEF AnswerMessages
  <2> QED BY <2>1, <2>2
<1>4. \A i \in DOMAIN thread :
         /\ thread'[i] \in Message /\ thread'[i].read = thread[i].read
         /\ thread'[i].sender = thread[i].sender
         /\ thread'[i].known = "no" => thread[i].known = "no"
         /\ thread'[i].known = "no" /\ q.user # Admin => ~Fetched(q, i)
  <2>1. \A i \in DOMAIN thread : thread[i] \in Message
    BY <1>1
  <2>2. \A m \in Message : LET n == [m EXCEPT !.known = "shown"] IN
           n \in Message /\ n.sender = m.sender /\ n.read = m.read /\ n.known = "shown"
    BY KnownMessage
  <2> QED BY <1>3, <2>1, <2>2
<1>5. thread' \in Seq(Message)
  <2>1. CASE q.user = Admin
    BY <1>1, <2>1 DEF AnswerMessages
  <2>2. CASE q.user # Admin
    <3>1. thread' = [i \in 1 .. Len(thread) |->
              IF Fetched(q, i) THEN [thread[i] EXCEPT !.known = "shown"] ELSE thread[i]]
      BY <1>2, <2>2 DEF AnswerMessages
    <3>2. thread' \in [1 .. Len(thread) -> Message]
      BY <1>2, <1>4, <3>1
    <3> QED BY <1>2, <3>2
  <2> QED BY <2>1, <2>2
<1>6. /\ Become(r, Idle) /\ q.at = "answer"
      /\ UNCHANGED <<topic, case, profiles, reviews, total, walkVars>>
  BY DEF AnswerMessages, Finish, reviewVars, At
<1>7. drifted' = drifted /\ drifted \in BOOLEAN
  BY DEF AnswerMessages, reviewVars, IInv, TypeOK
<1>8. q.at \notin Counting
  BY <1>6 DEF Counting
<1> QED BY <1>3, <1>4, <1>5, <1>6, <1>7, <1>8, KnownStep

LEMMA FailStep ==
    ASSUME IInv, NEW r \in Requests, Fail(r)
    PROVE  IInv'
<1> DEFINE q == requests[r]
<1>1. thread \in Seq(Message)
  BY DEF IInv, TypeOK
<1>2. DOMAIN thread = 1 .. Len(thread) /\ Len(thread) \in Nat
  BY <1>1
<1>3. thread' = [i \in 1 .. Len(thread) |->
         IF At(r, "answer") /\ Fetched(q, i) /\ thread[i].known = "no"
         THEN [thread[i] EXCEPT !.known = "missed"] ELSE thread[i]]
  BY <1>2 DEF Fail
<1>4. /\ DOMAIN thread' = DOMAIN thread
      /\ \A i \in DOMAIN thread :
            \/ thread'[i] = thread[i] /\ ~(At(r, "answer") /\ Fetched(q, i) /\ thread[i].known = "no")
            \/ thread'[i] = [thread[i] EXCEPT !.known = "missed"]
  BY <1>2, <1>3
<1>5. \A i \in DOMAIN thread :
         /\ thread'[i] \in Message /\ thread'[i].read = thread[i].read
         /\ thread'[i].sender = thread[i].sender
         /\ thread'[i].known = "no" => thread[i].known = "no"
         /\ thread'[i].known = "no" /\ At(r, "answer") => ~Fetched(q, i)
  <2>1. \A i \in DOMAIN thread : thread[i] \in Message
    BY <1>1
  <2>2. \A m \in Message : LET n == [m EXCEPT !.known = "missed"] IN
           n \in Message /\ n.sender = m.sender /\ n.read = m.read /\ n.known = "missed"
    BY KnownMessage
  <2> QED BY <1>4, <2>1, <2>2
<1>6. thread' \in Seq(Message)
  BY <1>2, <1>3, <1>5
<1>7. /\ Become(r, Idle)
      /\ UNCHANGED <<topic, case, profiles, reviews, total, walkVars>>
  BY DEF Fail, Finish
<1>8. drifted' \in BOOLEAN /\ (drifted => drifted') /\ (q.at \in Counting => drifted')
  BY Zenon DEF Fail
<1> QED BY <1>4, <1>5, <1>6, <1>7, <1>8, KnownStep

\* A new message is unread, and known as missed to whoever is about to mark.
LEMMA InsertMessageStep ==
    ASSUME IInv, NEW r \in Requests, InsertMessage(r)
    PROVE  IInv'
<1> DEFINE q == requests[r]
<1>1. q \in Request /\ q.at = "insert" /\ SlotOK(q) /\ q.user \in Users
  BY DEF IInv, TypeOK, InsertMessage, At, SlotOK
<1>2. CASE Receiver(q) = None \/ Len(thread) = MaxMessages
  <2>1. OnlyRequests /\ Finish(r)
    BY <1>2 DEF InsertMessage, OnlyRequests, messageVars
  <2> QED BY <1>1, <2>1, FinishStep DEF Counting
<1>3. CASE ~(Receiver(q) = None \/ Len(thread) = MaxMessages)
  <2>1. PICK known : known = IF BeingRead THEN "missed" ELSE "no"
    OBVIOUS
  <2>2. PICK m : m = [sender |-> q.user, read |-> FALSE, known |-> known]
    OBVIOUS
  <2>3. PICK x : x = [Idle EXCEPT !.at = "notify"]
    OBVIOUS
  <2>4. /\ thread' = Append(thread, m) /\ Become(r, x)
        /\ UNCHANGED <<topic, case, profiles, reviewVars, walkVars>>
    BY <1>3, <2>1, <2>2, <2>3 DEF InsertMessage
  <2>5. m \in Message /\ ~m.read /\ m.known = known
    BY <1>1, <2>1, <2>2 DEF Message
  <2>6. x \in Request /\ x.at = "notify"
    BY <2>3, IdleOK DEF Request, MessageSteps
  <2>7. thread \in Seq(Message) /\ Len(thread) <= MaxMessages
    BY DEF IInv, TypeOK
  <2>8. /\ thread' \in Seq(Message) /\ Len(thread') = Len(thread) + 1
        /\ \A i \in DOMAIN thread : thread'[i] = thread[i]
        /\ \A i \in DOMAIN thread' : i \in DOMAIN thread \/ thread'[i] = m
    BY <2>4, <2>5, <2>7
  <2>9. Len(thread') <= MaxMessages
    BY <1>3, <2>7, <2>8, PageAssumption
  <2>10. /\ requests'[r] = x
         /\ \A s \in Requests \ {r} : requests'[s] = requests[s]
    BY <2>4, <2>6, SlotSet
  <2>11. ReadWasShown'
    <3> SUFFICES ASSUME NEW i \in DOMAIN thread', i <= PageSize, thread'[i].read,
                        thread'[i].known = "no"
                 PROVE  Answering(i)'
      BY DEF ReadWasShown
    <3>1. i \in DOMAIN thread /\ thread'[i] = thread[i]
      BY <2>5, <2>8
    <3>2. PICK s \in Requests :
             At(s, "answer") /\ requests[s].user # Admin /\ Fetched(requests[s], i)
      BY <3>1 DEF IInv, ReadWasShown, Answering
    <3>3. requests'[s] = requests[s]
      BY <1>1, <2>10, <3>2 DEF At
    <3> QED BY <3>1, <3>2, <3>3 DEF Answering, At, Fetched
  <2>12. \A s \in Requests : SlotOK(requests[s])'
    <3> SUFFICES ASSUME NEW s \in Requests PROVE SlotOK(requests[s])'
      OBVIOUS
    <3>1. CASE s = r
      BY <2>6, <2>10, <3>1 DEF SlotOK, ReviewSteps
    <3>2. CASE s # r
      <4>1. requests'[s] = requests[s] /\ SlotOK(requests[s]) /\ topic' = topic
        BY <2>4, <2>10, <3>2 DEF IInv
      <4>2. requests[s].at = "mark" => known = "missed"
        BY <2>1 DEF BeingRead, At
      <4> QED BY <2>5, <2>8, <4>1, <4>2 DEF SlotOK
    <3> QED BY <3>1, <3>2
  <2>13. q.at \in MessageSteps /\ x.at \in MessageSteps \cup {"idle"}
    BY <1>1, <2>6 DEF MessageSteps
  <2> QED BY <2>4, <2>6, <2>8, <2>9, <2>11, <2>12, <2>13, MessageStep
<1> QED BY <1>2, <1>3

-----------------------------------------------------------------------------
\* A step about reviews: what must be shown of it.
LEMMA ReviewStep ==
    ASSUME IInv, NEW r \in Requests, NEW q \in Request, Become(r, q), SlotOK(q),
           requests[r].at \in ReviewSteps, q.at # "mark",
           UNCHANGED <<topic, messageVars, drifted, walkVars>>,
           reviews' \in [ReviewIds -> Reviewed \cup {None}], total' \in Int,
           OneReviewPerCase', TotalExplained'
    PROVE  IInv'
<1>1. UNCHANGED <<topic, case, profiles, thread, drifted, list, rows, rank, walk>>
  BY DEF messageVars, walkVars
<1>2. TypeOK'
  <2>1. WalkTypeOK'
    BY <1>1 DEF IInv, TypeOK, WalkTypeOK
  <2> QED BY <1>1, <2>1, SlotSet DEF IInv, TypeOK
<1>3. ReadWasShown'
  <2>1. \A i \in DOMAIN thread : Answering(i) => Answering(i)'
    BY <1>1, SlotSet DEF Answering, At, Fetched, ReviewSteps
  <2> QED BY <1>1, <2>1 DEF IInv, ReadWasShown
<1>4. \A s \in Requests : SlotOK(requests[s])'
  <2> SUFFICES ASSUME NEW s \in Requests PROVE SlotOK(requests[s])'
    OBVIOUS
  <2>1. PICK x \in Request : x = requests'[s] /\ SlotOK(x)
    BY SlotSet DEF IInv
  <2> QED BY <1>1, <2>1 DEF SlotOK
<1>5. topic = "reviews"
  BY DEF IInv, SlotOK
<1> QED BY <1>1, <1>2, <1>3, <1>4, <1>5 DEF IInv, OtherTopic

LEMMA ReviewTypes ==
    ASSUME IInv
    PROVE  /\ reviews \in [ReviewIds -> Reviewed \cup {None}] /\ total \in Int
           /\ IsFiniteSet(Live) /\ Cardinality(Live) \in Nat
<1>1. IsFiniteSet(Live)
  BY FiniteAssumption, FS_Subset DEF Live
<1> QED BY <1>1, FS_CardinalityType DEF IInv, TypeOK

\* A review more is one that its request still has to count.
LEMMA CreateReviewStep ==
    ASSUME IInv, NEW r \in Requests, CreateReview(r)
    PROVE  IInv'
<1> DEFINE k == requests[r].target
<1>1. requests[r].at = "create" /\ k \in Reviewed /\ k # None
  BY NobodyAssumption DEF IInv, SlotOK, CreateReview, At
<1> HIDE DEF k
<1>2. CASE Exists(k)
  <2>1. OnlyRequests /\ Finish(r)
    BY <1>2 DEF CreateReview, OnlyRequests, reviewVars, k
  <2> QED BY <1>1, <2>1, FinishStep DEF Counting
<1>3. CASE ~Exists(k)
  <2>1. PICK i \in FreeIds : reviews' = [reviews EXCEPT ![i] = k]
    BY <1>3 DEF CreateReview, k
  <2>2. PICK x : x = [Idle EXCEPT !.at = "lookupNew"]
    OBVIOUS
  <2>3. /\ Become(r, x) /\ total' = total
        /\ UNCHANGED <<topic, messageVars, drifted, walkVars>>
    BY <1>3, <2>2 DEF CreateReview, k
  <2>4. x \in Request /\ x.at = "lookupNew"
    BY <2>2, IdleOK DEF Request, ReviewSteps
  <2>5. topic = "reviews"
    BY <1>1 DEF IInv, SlotOK, ReviewSteps
  <2>6. SlotOK(x) /\ requests[r].at \in ReviewSteps
    BY <1>1, <2>4, <2>5 DEF SlotOK, ReviewSteps
  <2>7. i \in ReviewIds /\ reviews[i] = None
    BY DEF FreeIds
  <2>8. /\ reviews' \in [ReviewIds -> Reviewed \cup {None}] /\ total' \in Int
        /\ Live' = Live \cup {i} /\ i \notin Live
    BY <1>1, <2>1, <2>3, <2>7, ReviewTypes DEF Live
  <2>9. Cardinality(Live') = Cardinality(Live) + 1
    BY <2>8, ReviewTypes, FS_AddElement
  <2>10. OneReviewPerCase'
    BY <1>3, <2>1, <2>7, ReviewTypes DEF IInv, OneReviewPerCase, Exists
  <2>11. /\ Cardinality(Steps({"lookupNew", "plus"})) \in Nat
         /\ Cardinality(Steps({"lookupOld", "minus"})) \in Nat
         /\ Cardinality(Steps({"lookupNew", "plus"})') = Cardinality(Steps({"lookupNew", "plus"})) + 1
         /\ Cardinality(Steps({"lookupOld", "minus"})') = Cardinality(Steps({"lookupOld", "minus"}))
    BY <1>1, <2>3, <2>4, StepsCount
  <2>12. TotalExplained'
    <3>1. UNCHANGED <<case, profiles, drifted>>
      BY <2>3 DEF messageVars
    <3> QED BY <2>3, <2>9, <2>11, <3>1, ReviewTypes DEF IInv, TotalExplained, Reviewee
  <2> QED BY <2>3, <2>4, <2>6, <2>8, <2>10, <2>12, ReviewStep
<1> QED BY <1>2, <1>3

\* A review less is one, too.
LEMMA RemoveReviewStep ==
    ASSUME IInv, NEW r \in Requests, RemoveReview(r)
    PROVE  IInv'
<1> DEFINE i == requests[r].target
<1>1. requests[r].at = "remove" /\ i \in ReviewIds
  BY DEF IInv, SlotOK, RemoveReview, At
<1> HIDE DEF i
<1>2. CASE reviews[i] = None
  <2>1. OnlyRequests /\ Finish(r)
    BY <1>2 DEF RemoveReview, OnlyRequests, reviewVars, i
  <2> QED BY <1>1, <2>1, FinishStep DEF Counting
<1>3. CASE reviews[i] # None
  <2>1. PICK x : x = [Idle EXCEPT !.at = "lookupOld"]
    OBVIOUS
  <2>2. /\ Become(r, x) /\ total' = total /\ reviews' = [reviews EXCEPT ![i] = None]
        /\ UNCHANGED <<topic, messageVars, drifted, walkVars>>
    BY <1>3, <2>1 DEF RemoveReview, i
  <2>3. x \in Request /\ x.at = "lookupOld"
    BY <2>1, IdleOK DEF Request, ReviewSteps
  <2>4. topic = "reviews"
    BY <1>1 DEF IInv, SlotOK, ReviewSteps
  <2>5. SlotOK(x) /\ requests[r].at \in ReviewSteps
    BY <1>1, <2>3, <2>4 DEF SlotOK, ReviewSteps
  <2>6. /\ reviews' \in [ReviewIds -> Reviewed \cup {None}] /\ total' \in Int
        /\ Live' = Live \ {i} /\ i \in Live
    BY <1>1, <1>3, <2>2, ReviewTypes DEF Live
  <2>7. Cardinality(Live') = Cardinality(Live) - 1
    BY <2>6, ReviewTypes, FS_RemoveElement
  <2>8. OneReviewPerCase'
    BY <1>1, <2>2, ReviewTypes DEF IInv, OneReviewPerCase
  <2>9. /\ Cardinality(Steps({"lookupNew", "plus"})) \in Nat
        /\ Cardinality(Steps({"lookupOld", "minus"})) \in Nat
        /\ Cardinality(Steps({"lookupNew", "plus"})') = Cardinality(Steps({"lookupNew", "plus"}))
        /\ Cardinality(Steps({"lookupOld", "minus"})') = Cardinality(Steps({"lookupOld", "minus"})) + 1
    BY <1>1, <2>2, <2>3, StepsCount
  <2>10. TotalExplained'
    <3>1. UNCHANGED <<case, profiles, drifted>>
      BY <2>2 DEF messageVars
    <3> QED BY <2>2, <2>7, <2>9, <3>1, ReviewTypes DEF IInv, TotalExplained, Reviewee
  <2> QED BY <2>2, <2>3, <2>5, <2>6, <2>8, <2>10, ReviewStep
<1> QED BY <1>2, <1>3

\* A request that is to count a review goes on while the lawyer is there.
LEMMA LookUpLawyerStep ==
    ASSUME IInv, NEW r \in Requests, LookUpLawyer(r)
    PROVE  IInv'
<1> DEFINE q == requests[r]
<1>1. q \in Request /\ q.at \in {"lookupNew", "lookupOld"} /\ SlotOK(q)
  BY DEF IInv, TypeOK, LookUpLawyer
<1>2. PICK step : step = IF q.at = "lookupNew" THEN "plus" ELSE "minus"
  OBVIOUS
<1>3. PICK x \in {Idle, [q EXCEPT !.at = step]} :
         /\ Become(r, x) /\ IF Reviewee \in profiles THEN x = [q EXCEPT !.at = step] ELSE x = Idle
  BY <1>2 DEF LookUpLawyer, Goto, Finish, At
<1>4. /\ x \in Request /\ SlotOK(x) /\ x.at # "mark"
      /\ Reviewee \in profiles => x.at = step
  <2>1. CASE Reviewee \in profiles
    <3>1. x \in Request /\ x.at = step
      BY <1>1, <1>2, <1>3, <2>1 DEF Request, ReviewSteps
    <3>2. topic = "reviews"
      BY <1>1 DEF SlotOK, ReviewSteps
    <3> QED BY <1>2, <3>1, <3>2 DEF SlotOK
  <2>2. CASE Reviewee \notin profiles
    BY <1>3, <2>2, IdleOK
  <2> QED BY <2>1, <2>2
<1>5. /\ UNCHANGED <<topic, messageVars, drifted, walkVars>>
      /\ UNCHANGED <<case, profiles, reviews, total>>
  BY DEF LookUpLawyer, OnlyRequests, reviewVars, messageVars
<1>6. TotalExplained'
  <2>1. CASE Reviewee \notin profiles
    BY <1>5, <2>1 DEF TotalExplained, Reviewee
  <2>2. CASE Reviewee \in profiles
    <3>1. /\ Cardinality(Steps({"lookupNew", "plus"})') = Cardinality(Steps({"lookupNew", "plus"}))
          /\ Cardinality(Steps({"lookupOld", "minus"})') = Cardinality(Steps({"lookupOld", "minus"}))
      <4>1. /\ x.at \in {"lookupNew", "plus"} <=> q.at \in {"lookupNew", "plus"}
            /\ x.at \in {"lookupOld", "minus"} <=> q.at \in {"lookupOld", "minus"}
        BY <1>1, <1>2, <1>4, <2>2
      <4> QED BY <1>3, <1>4, <4>1, StepsCount
    <3> QED BY <1>5, <3>1 DEF IInv, TotalExplained, Live, Reviewee
  <2> QED BY <2>1, <2>2
<1>7. OneReviewPerCase'
  BY <1>5 DEF IInv, OneReviewPerCase
<1>8. q.at \in ReviewSteps
  BY <1>1 DEF ReviewSteps
<1> QED BY <1>3, <1>4, <1>5, <1>6, <1>7, <1>8, ReviewTypes, ReviewStep

\* What is counted was still to be counted.
LEMMA CountReviewStep ==
    ASSUME IInv, NEW r \in Requests, CountReview(r)
    PROVE  IInv'
<1> DEFINE q == requests[r]
<1>1. q \in Request /\ q.at \in {"plus", "minus"} /\ topic = "reviews"
  BY DEF IInv, TypeOK, CountReview, SlotOK, ReviewSteps
<1>2. PICK x : /\ x = (IF q.at = "plus" THEN [Idle EXCEPT !.at = "tell"] ELSE Idle)
               /\ Become(r, x)
  BY DEF CountReview, At, Finish
<1>3. x \in Request /\ x.at \in {"tell", "idle"}
  BY <1>2, IdleOK DEF Request, ReviewSteps
<1>4. SlotOK(x) /\ x.at # "mark" /\ q.at \in ReviewSteps
  BY <1>1, <1>3 DEF SlotOK, ReviewSteps
<1>5. /\ UNCHANGED <<topic, messageVars, drifted, walkVars>>
      /\ UNCHANGED <<case, profiles, reviews>>
  BY DEF CountReview, messageVars
<1>6. /\ total' \in Int
      /\ Reviewee \in profiles => total' = IF q.at = "plus" THEN total + 1 ELSE total - 1
  BY ReviewTypes DEF CountReview, At
<1>7. TotalExplained'
  <2>1. /\ Cardinality(Steps({"lookupNew", "plus"})) \in Nat
        /\ Cardinality(Steps({"lookupOld", "minus"})) \in Nat
        /\ Cardinality(Steps({"lookupNew", "plus"})') =
               Cardinality(Steps({"lookupNew", "plus"})) - (IF q.at = "plus" THEN 1 ELSE 0)
        /\ Cardinality(Steps({"lookupOld", "minus"})') =
               Cardinality(Steps({"lookupOld", "minus"})) - (IF q.at = "minus" THEN 1 ELSE 0)
    <3>1. \A S : /\ Cardinality(Steps(S)) \in Nat
                 /\ Cardinality(Steps(S)') =
                       Cardinality(Steps(S)) + (IF x.at \in S THEN 1 ELSE 0)
                                             - (IF q.at \in S THEN 1 ELSE 0)
      BY <1>2, <1>3, StepsCount
    <3>2. x.at \notin {"lookupNew", "plus"} /\ x.at \notin {"lookupOld", "minus"}
      BY <1>3
    <3>3. /\ q.at \in {"lookupNew", "plus"} <=> q.at = "plus"
          /\ q.at \in {"lookupOld", "minus"} <=> q.at = "minus"
      BY <1>1
    <3> HIDE DEF q
    <3> QED BY <3>1, <3>2, <3>3
  <2>2. Live' = Live
    BY <1>5 DEF Live
  <2> QED BY <1>1, <1>5, <1>6, <2>1, <2>2, ReviewTypes DEF IInv, TotalExplained, Reviewee
<1>8. OneReviewPerCase'
  BY <1>5 DEF IInv, OneReviewPerCase
<1> QED BY <1>2, <1>3, <1>4, <1>5, <1>6, <1>7, <1>8, ReviewTypes, ReviewStep

-----------------------------------------------------------------------------
\* What happens to the case, the profiles and the lists while no request moves.
LEMMA QuietStep ==
    ASSUME IInv, UNCHANGED <<topic, thread, total, requests>>,
           WalkTypeOK', case' \in [there: BOOLEAN, lawyer: Lawyers \cup {None}],
           profiles' \subseteq Lawyers, drifted' \in BOOLEAN,
           reviews' \in [ReviewIds -> Reviewed \cup {None}],
           OneReviewPerCase', OtherTopic', TotalExplained'
    PROVE  IInv'
<1>1. TypeOK'
  BY DEF IInv, TypeOK
<1>2. ReadWasShown'
  BY DEF IInv, ReadWasShown, Answering, At, Fetched
<1>3. \A s \in Requests : SlotOK(requests[s])'
  BY DEF IInv, SlotOK
<1> QED BY <1>1, <1>2, <1>3 DEF IInv

LEMMA CaseChangesStep == ASSUME IInv, CaseChanges PROVE IInv'
<1>1. /\ UNCHANGED <<topic, thread, total, requests, profiles, drifted, reviews>>
      /\ UNCHANGED <<list, rows, rank, walk>> /\ topic = "messages"
  BY DEF CaseChanges, reviewVars, walkVars
<1>2. WalkTypeOK'
  BY <1>1 DEF IInv, TypeOK, WalkTypeOK
<1>3. case' \in [there: BOOLEAN, lawyer: Lawyers \cup {None}]
  <2>1. case \in [there: BOOLEAN, lawyer: Lawyers \cup {None}]
    BY DEF IInv, TypeOK
  <2>2. CASE \E l \in Lawyers : case' = [case EXCEPT !.lawyer = l]
    BY <2>1, <2>2
  <2>3. CASE case' = [there |-> FALSE, lawyer |-> None]
    BY <2>3
  <2> QED BY <2>2, <2>3 DEF CaseChanges
<1>4. \A s \in Requests : requests[s].at \notin ReviewSteps
  BY <1>1 DEF IInv, SlotOK
<1>5. TotalExplained'
  BY <1>1, <1>4, NothingReviewed DEF IInv, OtherTopic, TotalExplained, Steps, Live
<1>6. OneReviewPerCase' /\ OtherTopic'
  BY <1>1 DEF IInv, OneReviewPerCase, OtherTopic
<1> QED BY <1>1, <1>2, <1>3, <1>5, <1>6, QuietStep DEF IInv, TypeOK

LEMMA ProfileDeletedStep == ASSUME IInv, ProfileDeleted PROVE IInv'
<1>1. /\ UNCHANGED <<topic, thread, total, requests, case, drifted, reviews>>
      /\ UNCHANGED <<list, rows, rank, walk>> /\ profiles' \subseteq profiles
  BY DEF ProfileDeleted, reviewVars, walkVars
<1>2. WalkTypeOK'
  BY <1>1 DEF IInv, TypeOK, WalkTypeOK
<1>3. TotalExplained'
  BY <1>1 DEF IInv, TotalExplained, Steps, Live, Reviewee
<1>4. OneReviewPerCase' /\ OtherTopic'
  BY <1>1 DEF IInv, OneReviewPerCase, OtherTopic
<1> QED BY <1>1, <1>2, <1>3, <1>4, QuietStep DEF IInv, TypeOK

LEMMA DeleteReviewStep == ASSUME IInv, DeleteReview PROVE IInv'
<1>1. /\ UNCHANGED <<topic, thread, total, requests, case, profiles>>
      /\ UNCHANGED <<list, rows, rank, walk>> /\ drifted' = TRUE /\ topic = "reviews"
  BY DEF DeleteReview, messageVars, walkVars
<1>2. WalkTypeOK'
  BY <1>1 DEF IInv, TypeOK, WalkTypeOK
<1>3. /\ reviews' \in [ReviewIds -> Reviewed \cup {None}]
      /\ \A j \in ReviewIds : reviews'[j] \in {reviews[j], None}
  BY ReviewTypes DEF DeleteReview
<1>4. OneReviewPerCase'
  BY <1>3 DEF IInv, OneReviewPerCase
<1>5. TotalExplained' /\ OtherTopic'
  BY <1>1 DEF TotalExplained, OtherTopic
<1> QED BY <1>1, <1>2, <1>3, <1>4, <1>5, QuietStep DEF IInv, TypeOK

LEMMA ListsStep == ASSUME IInv, ListsNext PROVE IInv'
<1>1. UNCHANGED <<topic, thread, total, requests, case, profiles, drifted, reviews>>
  BY DEF ListsNext, messageVars, reviewVars
<1>2. WalkTypeOK'
  BY WalkStep DEF ListsNext, IInv, TypeOK
<1>3. TotalExplained' /\ OneReviewPerCase' /\ OtherTopic'
  BY <1>1 DEF IInv, TotalExplained, Steps, Live, Reviewee, OneReviewPerCase, OtherTopic
<1> QED BY <1>1, <1>2, <1>3, QuietStep DEF IInv, TypeOK

LEMMA StutterStep == ASSUME IInv, UNCHANGED vars PROVE IInv'
<1>1. /\ UNCHANGED <<topic, thread, total, requests, case, profiles, drifted, reviews>>
      /\ UNCHANGED <<list, rows, rank, walk>>
  BY DEF vars, walkVars
<1>2. WalkTypeOK'
  BY <1>1 DEF IInv, TypeOK, WalkTypeOK
<1>3. TotalExplained' /\ OneReviewPerCase' /\ OtherTopic'
  BY <1>1 DEF IInv, TotalExplained, Steps, Live, Reviewee, OneReviewPerCase, OtherTopic
<1> QED BY <1>1, <1>2, <1>3, QuietStep DEF IInv, TypeOK

LEMMA Inductive == IInv /\ [Next]_vars => IInv'
<1> SUFFICES ASSUME IInv, [Next]_vars PROVE IInv'
  OBVIOUS
<1>1. ASSUME NEW r \in Requests, Messages(r) PROVE IInv'
  BY <1>1, MovesStep, MarkReadStep, AnswerMessagesStep, InsertMessageStep DEF Messages
<1>2. ASSUME NEW r \in Requests, Reviews(r) PROVE IInv'
  BY <1>2, MovesStep, CreateReviewStep, LookUpLawyerStep, CountReviewStep, RemoveReviewStep
     DEF Reviews
<1> QED BY <1>1, <1>2, FailStep, CaseChangesStep, ProfileDeletedStep, DeleteReviewStep,
           ListsStep, StutterStep DEF Next

-----------------------------------------------------------------------------
\* Between any two calls the messages, the reviews, their count and what the requests have
\* read of them fit together as IInv says, whatever fails.
THEOREM Invariance == Spec => []IInv
BY InitIInv, Inductive, PTL DEF Spec

\* Marking a message of the first page as read is always accounted for: it was shown, it is
\* about to be, or it was sent into the gap between the fetch and the mark of getByCase, or
\* the reader failed.
THEOREM ReadMessagesShown == Spec => []ReadWasShown
<1>1. IInv => ReadWasShown
  BY DEF IInv
<1> QED BY Invariance, <1>1, PTL

\* Creations and deletions of reviews that overlap leave total_reviews right in the end,
\* since each of them counts its own with $inc.
THEOREM TotalKept == Spec => []TotalExplained
<1>1. IInv => TotalExplained
  BY DEF IInv
<1> QED BY Invariance, <1>1, PTL

\* The check for an earlier review may be passed twice; the index still lets one review of
\* a case in.
THEOREM ReviewsUnique == Spec => []OneReviewPerCase
<1>1. IInv => OneReviewPerCase
  BY DEF IInv
<1> QED BY Invariance, <1>1, PTL

-----------------------------------------------------------------------------
(***************************************************************************)
(* The walks.                                                              *)
(***************************************************************************)
\* Pages follow one another without a gap and without an overlap.
LEMMA SkipFacts ==
    ASSUME NEW page \in Nat, NEW limit \in Limits, page > 0
    PROVE  /\ Skip(page, limit) \in Nat
           /\ Skip(page + 1, limit) = Skip(page, limit) + limit
           /\ Skip(page + 1, limit) = page * limit
           /\ Skip(page + 1, limit) \in Nat
           /\ Skip(1, limit) = 0
<1>1. limit \in Nat
  BY LimitsAssumption
<1>2. PICK p \in Nat : page = p + 1
  BY SMT
<1>3. p * limit \in Nat /\ (p + 1) * limit = p * limit + limit /\ 0 * limit = 0
  BY <1>1, SMT
<1>4. Skip(page, limit) = p * limit
  BY <1>1, <1>2 DEF Skip
<1>5. Skip(page + 1, limit) = (p + 1) * limit
  BY <1>1, <1>2 DEF Skip
<1> QED BY <1>1, <1>2, <1>3, <1>4, <1>5 DEF Skip

LEMMA Positions ==
    ASSUME NEW r
    PROVE  /\ IsFiniteSet(Found) /\ Cardinality(Found) \in Nat
           /\ IsFiniteSet(UpTo(r)) /\ Position(r) \in Nat
           /\ Position(r) <= Cardinality(Found)
<1>1. Found \in SUBSET Rows /\ UpTo(r) \in SUBSET Found
  BY DEF Found, In, UpTo
<1> QED BY <1>1, RowsAssumption, FS_Subset, FS_CardinalityType DEF Position

LEMMA PositionsNext ==
    ASSUME NEW r
    PROVE  /\ IsFiniteSet(Found') /\ Cardinality(Found') \in Nat
           /\ IsFiniteSet(UpTo(r)') /\ Position(r)' \in Nat
           /\ Position(r)' <= Cardinality(Found')
<1>1. Found' \in SUBSET Rows /\ UpTo(r)' \in SUBSET Found'
  BY DEF Found, In, UpTo
<1> QED BY <1>1, RowsAssumption, FS_Subset, FS_CardinalityType DEF Position

\* What find returns, in its order: every row once, the row at i having i rows up to it.
LEMMA SortedRows ==
    ASSUME WalkTypeOK, list.order # "none", NEW s \in Sorted(Found)
    PROVE  /\ DOMAIN s = 1 .. Cardinality(Found)
           /\ \A i \in DOMAIN s : s[i] \in Found /\ Position(s[i]) = i
           /\ \A r \in Found : \E i \in DOMAIN s : s[i] = r
<1> DEFINE n == Cardinality(Found)
<1>1. n \in Nat /\ IsFiniteSet(Found)
  BY Positions
<1>2. /\ s \in [1 .. n -> Found] /\ DOMAIN s = 1 .. n
      /\ \A i, j \in 1 .. n : s[i] = s[j] => i = j
      /\ InOrder(s)
  BY DEF Sorted
<1>3. \A r \in Found : \E i \in 1 .. n : s[i] = r
  <2>1. s \in Injection(1 .. n, Found)
    BY <1>2 DEF Injection, IsInjective
  <2>2. Cardinality(1 .. n) = n
    BY <1>1, FS_Interval
  <2>3. s \in Surjection(1 .. n, Found)
    BY <1>1, <2>1, <2>2, FS_Injection
  <2> QED BY <2>3 DEF Surjection
<1>4. \A r \in Rows : rank[r] \in Int
  BY RowsAssumption, FS_CardinalityType DEF WalkTypeOK, Ranks
<1>5. Found \subseteq Rows
  BY DEF Found, In
<1>6. ASSUME NEW i \in 1 .. n PROVE Position(s[i]) = i
  <2>1. ASSUME NEW j \in 1 .. n PROVE s[j] \in UpTo(s[i]) <=> j <= i
    <3>1. s[j] \in Found /\ s[i] \in Found /\ rank[s[j]] \in Int /\ rank[s[i]] \in Int
      BY <1>2, <1>4, <1>5
    <3>2. CASE j < i
      <4>1. IF list.order = "newest" THEN rank[s[j]] > rank[s[i]] ELSE rank[s[j]] < rank[s[i]]
        BY <1>2, <3>2 DEF InOrder
      <4> QED BY <3>1, <3>2, <4>1 DEF UpTo
    <3>3. CASE j = i
      BY <3>1, <3>3 DEF UpTo
    <3>4. CASE i < j
      <4>1. IF list.order = "newest" THEN rank[s[i]] > rank[s[j]] ELSE rank[s[i]] < rank[s[j]]
        BY <1>2, <3>4 DEF InOrder
      <4> QED BY <1>1, <3>1, <3>4, <4>1 DEF UpTo
    <3> QED BY <1>1, <3>2, <3>3, <3>4
  <2>2. PICK f : f = [j \in 1 .. i |-> s[j]]
    OBVIOUS
  <2>3. f \in [1 .. i -> UpTo(s[i])]
    BY <1>1, <2>1, <2>2
  <2>4. f \in Injection(1 .. i, UpTo(s[i]))
    BY <1>1, <1>2, <2>2, <2>3 DEF Injection, IsInjective
  <2>5. f \in Surjection(1 .. i, UpTo(s[i]))
    <3>1. ASSUME NEW r \in UpTo(s[i]) PROVE \E j \in 1 .. i : f[j] = r
      <4>1. r \in Found
        BY DEF UpTo
      <4>2. PICK j \in 1 .. n : s[j] = r
        BY <1>3, <4>1
      <4>3. j \in 1 .. i
        BY <1>1, <2>1, <4>2
      <4> QED BY <2>2, <4>2, <4>3
    <3> QED BY <2>3, <3>1 DEF Surjection
  <2>6. IsFiniteSet(1 .. i) /\ Cardinality(1 .. i) = i
    BY <1>1, FS_Interval
  <2>7. Cardinality(UpTo(s[i])) = Cardinality(1 .. i)
    BY <2>4, <2>5, <2>6, FS_Surjection
  <2> QED BY <2>6, <2>7 DEF Position
<1> QED BY <1>2, <1>3, <1>6

\* A page holds the rows whose position is within it.
LEMMA PageRows ==
    ASSUME WalkTypeOK, list.order # "none", NEW s \in Sorted(Found),
           NEW page \in Nat, page > 0, NEW limit \in Limits, NEW r \in Rows
    PROVE  r \in OnPage(s, page, limit) <=>
               r \in Found /\ Skip(page, limit) < Position(r)
                           /\ Position(r) <= Skip(page + 1, limit)
<1>1. /\ DOMAIN s = 1 .. Cardinality(Found)
      /\ \A i \in DOMAIN s : s[i] \in Found /\ Position(s[i]) = i
      /\ \A q \in Found : \E i \in DOMAIN s : s[i] = q
  BY SortedRows
<1>2. Skip(page + 1, limit) = Skip(page, limit) + limit
  BY SkipFacts
<1>3. ASSUME r \in OnPage(s, page, limit)
      PROVE  r \in Found /\ Skip(page, limit) < Position(r)
                         /\ Position(r) <= Skip(page + 1, limit)
  <2>1. PICK i \in DOMAIN s : s[i] = r /\ Skip(page, limit) < i /\ i <= Skip(page, limit) + limit
    BY <1>3 DEF OnPage
  <2> QED BY <1>1, <1>2, <2>1
<1>4. ASSUME r \in Found, Skip(page, limit) < Position(r), Position(r) <= Skip(page + 1, limit)
      PROVE  r \in OnPage(s, page, limit)
  <2>1. PICK i \in DOMAIN s : s[i] = r
    BY <1>1, <1>4
  <2>2. Position(r) = i
    BY <1>1, <2>1
  <2> QED BY <1>2, <1>4, <2>1, <2>2 DEF OnPage
<1> QED BY <1>3, <1>4

LEMMA NextStopFields ==
    ASSUME NEW w \in Walk, NEW n, n = NextStop(w)
    PROVE  /\ n.limit = w.limit /\ n.total = w.total /\ n.start = w.start /\ n.shown = w.shown
           /\ (n.grew <=> w.grew) /\ (n.shrank <=> w.shrank)
           /\ \/ w.at # LastQuery /\ n.at = LastQuery /\ n.page = w.page
              \/ /\ w.at = LastQuery /\ n.at = FirstQuery /\ n.page = w.page + 1
                 /\ w.page * w.limit < w.total
              \/ w.at = LastQuery /\ n.at = "done" /\ n.page = w.page
                 /\ ~(w.page * w.limit < w.total)
BY DEF NextStop, Walk

\* The fields of the walk that queries and marks leave alone, in one place.
LEMMA WalkFields ==
    ASSUME WalkTypeOK
    PROVE  /\ walk.page \in Nat /\ walk.limit \in Limits /\ walk.total \in Nat
           /\ walk.start \subseteq Rows /\ walk.shown \in [Rows -> 0 .. 2]
           /\ \A r \in Rows : walk.shown[r] \in 0 .. 2
           /\ walk.at \in Stops /\ walk \in Walk
BY DEF WalkTypeOK, Walk

\* The rows stay as they are while a query runs.
LEMMA SameRows ==
    ASSUME UNCHANGED <<list, rows, rank>>
    PROVE  Found' = Found /\ \A r : Position(r)' = Position(r)
<1>1. Found' = Found
  BY DEF Found, In
<1> QED BY <1>1 DEF Position, UpTo

LEMMA FindPageStep ==
    ASSUME WalkTypeOK, WalkInv, FindPage
    PROVE  WalkInv'
<1>1. PICK s \in Sorted(Found) :
         walk' = NextStop([walk EXCEPT
             !.shown = [r \in Rows |-> IF r \in OnPage(s, walk.page, walk.limit)
                                       THEN Once(@[r]) ELSE @[r]]])
  BY DEF FindPage
<1>2. PICK shown : shown = [r \in Rows |-> IF r \in OnPage(s, walk.page, walk.limit)
                                           THEN Once(walk.shown[r]) ELSE walk.shown[r]]
  OBVIOUS
<1>3. PICK q : q = [walk EXCEPT !.shown = shown]
  OBVIOUS
<1>4. /\ walk.page \in Nat /\ walk.page > 0 /\ walk.limit \in Limits /\ walk.total \in Nat
      /\ walk.start \subseteq Rows /\ walk.at = "find"
      /\ \A r \in Rows : walk.shown[r] \in 0 .. 2
  BY WalkFields DEF FindPage, WalkInv
<1>5. /\ q \in Walk /\ q.at = "find" /\ q.page = walk.page /\ q.limit = walk.limit
      /\ q.total = walk.total /\ q.start = walk.start /\ q.shown = shown
      /\ (q.grew <=> walk.grew) /\ (q.shrank <=> walk.shrank)
  <2>1. shown \in [Rows -> 0 .. 2]
    BY <1>2, <1>4 DEF Once
  <2> QED BY <1>3, <1>4, <2>1, WalkFields DEF Walk
<1>6. walk' = NextStop(q)
  BY <1>1, <1>2, <1>3
<1>7. /\ walk'.limit = walk.limit /\ walk'.total = walk.total /\ walk'.start = walk.start
      /\ walk'.shown = shown
      /\ (walk'.grew <=> walk.grew) /\ (walk'.shrank <=> walk.shrank)
      /\ \/ list.counts # "first" /\ walk'.at = "count" /\ walk'.page = walk.page
         \/ /\ list.counts = "first"
            /\ \/ walk'.at = "count" /\ walk'.page = walk.page + 1
               \/ /\ walk'.at = "done" /\ walk'.page = walk.page
                  /\ ~(walk.page * walk.limit < walk.total)
  BY <1>5, <1>6, NextStopFields DEF FirstQuery, LastQuery
<1>8. UNCHANGED <<list, rows, rank>> /\ Found' = Found /\ \A r : Position(r)' = Position(r)
  BY SameRows DEF FindPage
<1>9. Passed(walk) = Skip(walk.page, walk.limit)
  BY <1>4 DEF Passed
<1>10. Passed(walk)' = Skip(walk.page + 1, walk.limit)
  BY <1>7, <1>8 DEF Passed
<1>11. /\ Skip(walk.page, walk.limit) \in Nat /\ Skip(walk.page + 1, walk.limit) \in Nat
       /\ Skip(walk.page, walk.limit) <= Skip(walk.page + 1, walk.limit)
       /\ Skip(walk.page + 1, walk.limit) = walk.page * walk.limit
  <2>1. walk.limit \in Nat
    BY <1>4, LimitsAssumption
  <2> QED BY <1>4, <2>1, SkipFacts
<1>12. ASSUME list.order # "none", NEW r \in Rows
       PROVE  /\ r \in Found /\ Skip(walk.page, walk.limit) < Position(r)
                             /\ Position(r) <= Skip(walk.page + 1, walk.limit)
                 => shown[r] = Once(walk.shown[r])
              /\ ~(r \in Found /\ Skip(walk.page, walk.limit) < Position(r)
                               /\ Position(r) <= Skip(walk.page + 1, walk.limit))
                 => shown[r] = walk.shown[r]
  BY <1>2, <1>4, <1>12, PageRows
<1>13. ASSUME list.order # "none" PROVE ShownBehind'
  <2>1. SUFFICES ASSUME ~walk.grew, NEW r \in Rows
                 PROVE  /\ shown[r] <= 1
                        /\ shown[r] = 1 /\ r \in Found =>
                               Position(r) <= Skip(walk.page + 1, walk.limit)
    BY <1>7, <1>8, <1>10 DEF ShownBehind
  <2>2. /\ walk.shown[r] <= 1
        /\ walk.shown[r] = 1 /\ r \in Found => Position(r) <= Skip(walk.page, walk.limit)
    BY <1>9, <1>13, <2>1 DEF WalkInv, ShownBehind
  <2>3. Position(r) \in Nat
    BY Positions
  <2> QED BY <1>4, <1>11, <1>12, <1>13, <2>2, <2>3 DEF Once
<1>14. ASSUME list.order # "none" PROVE UnshownAhead'
  <2>1. SUFFICES ASSUME ~walk.shrank
                 PROVE  /\ walk.start \subseteq Found
                        /\ \A r \in walk.start :
                              shown[r] > 0 \/ Position(r) > Skip(walk.page + 1, walk.limit)
    BY <1>7, <1>8, <1>10 DEF UnshownAhead
  <2>2. /\ walk.start \subseteq Found
        /\ \A r \in walk.start :
              walk.shown[r] > 0 \/ Position(r) > Skip(walk.page, walk.limit)
    BY <1>4, <1>9, <1>14, <2>1 DEF WalkInv, UnshownAhead
  <2>3. ASSUME NEW r \in walk.start
        PROVE  shown[r] > 0 \/ Position(r) > Skip(walk.page + 1, walk.limit)
    <3>1. r \in Rows /\ r \in Found /\ Position(r) \in Nat
      BY <1>4, <2>2, Positions
    <3>2. walk.shown[r] \in 0 .. 2
      BY <1>4, <3>1
    <3> QED BY <1>11, <1>12, <1>14, <2>2, <3>1, <3>2 DEF Once
  <2> QED BY <2>2, <2>3
<1>15. ASSUME list.counts = "first", walk'.at = "find", ~walk'.grew
       PROVE  Cardinality(Found') <= walk'.total
  BY <1>7, <1>15
<1>16. WalkComplete'
  <2>1. SUFFICES ASSUME walk'.at = "done", list.order # "none", ~walk.shrank, ~walk.grew,
                        list.counts = "first", NEW r \in walk.start
                 PROVE  shown[r] > 0
    BY <1>7, <1>8 DEF WalkComplete
  <2>2. Cardinality(Found) <= walk.total /\ walk.total <= Skip(walk.page + 1, walk.limit)
    BY <1>4, <1>7, <1>11, <2>1 DEF WalkInv
  <2>3. walk'.at # "off" /\ ~walk'.shrank /\ r \in walk'.start
    BY <1>7, <2>1
  <2>4. shown[r] > 0 \/ Position(r) > Skip(walk.page + 1, walk.limit)
    BY <1>7, <1>8, <1>10, <1>14, <2>1, <2>3 DEF UnshownAhead
  <2>5. Position(r) \in Nat /\ Position(r) <= Cardinality(Found) /\ Cardinality(Found) \in Nat
    BY Positions
  <2> QED BY <1>4, <1>11, <2>2, <2>4, <2>5
<1>17. walk'.page > 0 /\ walk'.at # "off"
  BY <1>4, <1>7
<1> QED BY <1>8, <1>13, <1>14, <1>15, <1>16, <1>17 DEF WalkInv

LEMMA CountRowsStep ==
    ASSUME WalkTypeOK, WalkInv, CountRows
    PROVE  WalkInv'
<1>1. PICK n : n = Cardinality(Counted)
  OBVIOUS
<1>2. n \in Nat /\ Cardinality(Found) <= n
  <2>1. Counted \in SUBSET Rows /\ Found \in SUBSET Counted
    BY DEF Counted, Found, In
  <2> QED BY <1>1, <2>1, RowsAssumption, FS_Subset, FS_CardinalityType
<1>3. PICK q : q = [walk EXCEPT !.total = n]
  OBVIOUS
<1>4. /\ walk.page \in Nat /\ walk.page > 0 /\ walk.limit \in Limits
      /\ walk.start \subseteq Rows /\ walk.at = "count"
  BY WalkFields DEF CountRows, WalkInv
<1>5. /\ q \in Walk /\ q.at = "count" /\ q.page = walk.page /\ q.limit = walk.limit
      /\ q.total = n /\ q.start = walk.start /\ q.shown = walk.shown
      /\ (q.grew <=> walk.grew) /\ (q.shrank <=> walk.shrank)
  BY <1>2, <1>3, <1>4, WalkFields DEF Walk
<1>6. walk' = NextStop(q)
  BY <1>1, <1>3 DEF CountRows
<1>7. /\ walk'.limit = walk.limit /\ walk'.total = n /\ walk'.start = walk.start
      /\ walk'.shown = walk.shown
      /\ (walk'.grew <=> walk.grew) /\ (walk'.shrank <=> walk.shrank)
      /\ \/ list.counts = "first" /\ walk'.at = "find" /\ walk'.page = walk.page
         \/ /\ list.counts # "first"
            /\ \/ walk'.at = "find" /\ walk'.page = walk.page + 1
               \/ /\ walk'.at = "done" /\ walk'.page = walk.page
                  /\ ~(walk.page * walk.limit < n)
  BY <1>5, <1>6, NextStopFields DEF FirstQuery, LastQuery
<1>8. UNCHANGED <<list, rows, rank>> /\ Found' = Found /\ \A r : Position(r)' = Position(r)
  BY SameRows DEF CountRows
<1>9. Passed(walk)' = Passed(walk)
  BY <1>4, <1>7, <1>8 DEF Passed
<1>10. ASSUME list.order # "none" PROVE ShownBehind' /\ UnshownAhead'
  <2>1. ShownBehind /\ UnshownAhead /\ walk.at # "off"
    BY <1>4, <1>10 DEF WalkInv
  <2>2. ShownBehind'
    BY <1>7, <1>8, <1>9, <2>1 DEF ShownBehind
  <2>3. UnshownAhead'
    BY <1>7, <1>8, <1>9, <2>1 DEF UnshownAhead
  <2> QED BY <2>2, <2>3
<1>11. WalkComplete'
  <2>1. SUFFICES ASSUME walk'.at = "done", list.order # "none", ~walk.shrank,
                        NEW r \in walk.start
                 PROVE  walk.shown[r] > 0
    BY <1>7, <1>8 DEF WalkComplete
  <2>2. walk.shown[r] > 0 \/ Position(r) > Skip(walk.page + 1, walk.limit)
    <3>1. Passed(walk) = Skip(walk.page + 1, walk.limit)
      BY <1>4, <1>7, <2>1 DEF Passed
    <3> QED BY <1>4, <2>1, <3>1 DEF WalkInv, UnshownAhead
  <2>3. Skip(walk.page + 1, walk.limit) = walk.page * walk.limit
        /\ Skip(walk.page + 1, walk.limit) \in Nat
    BY <1>4, SkipFacts
  <2>4. Position(r) \in Nat /\ Position(r) <= Cardinality(Found) /\ Cardinality(Found) \in Nat
    BY Positions
  <2> QED BY <1>2, <1>7, <2>1, <2>2, <2>3, <2>4
<1>12. walk'.page > 0 /\ walk'.at # "off"
  BY <1>4, <1>7
<1>13. Cardinality(Found') <= walk'.total
  BY <1>2, <1>7, <1>8
<1> QED BY <1>8, <1>10, <1>11, <1>12, <1>13 DEF WalkInv

\* Rows change under a walk: unless it is marked as grown no row has come, unless it is
\* marked as shrunk none has left, and those that stay have kept their rank.
LEMMA RowsChange ==
    ASSUME WalkTypeOK, WalkInv, UNCHANGED list,
           walk'.at = walk.at, walk'.page = walk.page, walk'.limit = walk.limit,
           walk'.total = walk.total, walk'.start = walk.start, walk'.shown = walk.shown,
           walk.at # "off" =>
               /\ ~walk'.grew => /\ ~walk.grew /\ Found' \subseteq Found
                                 /\ \A q \in Found' : rank'[q] = rank[q]
               /\ ~walk'.shrank => /\ ~walk.shrank /\ Found \subseteq Found'
                                   /\ \A q \in Found : rank'[q] = rank[q]
    PROVE  WalkInv'
<1>1. CASE walk.at = "off"
  <2>1. \A r \in Rows : walk.shown[r] = 0
    BY <1>1 DEF WalkInv, NoneShown
  <2>2. ShownBehind' /\ UnshownAhead'
    BY <1>1, <2>1 DEF ShownBehind, UnshownAhead
  <2> QED BY <1>1, <2>2 DEF WalkInv, WalkComplete, NoneShown
<1>2. CASE walk.at # "off"
  <2>1. Passed(walk)' = Passed(walk) /\ Passed(walk) \in Nat
    <3>1. walk.page \in Nat /\ walk.page > 0 /\ walk.limit \in Limits
      BY WalkFields DEF WalkInv
    <3>2. Skip(walk.page, walk.limit) \in Nat /\ Skip(walk.page + 1, walk.limit) \in Nat
      BY <3>1, SkipFacts
    <3> QED BY <3>2 DEF Passed
  <2>2. ASSUME list.order # "none" PROVE ShownBehind'
    <3>1. SUFFICES ASSUME ~walk'.grew, NEW r \in Rows
                   PROVE  /\ walk.shown[r] <= 1
                          /\ walk.shown[r] = 1 /\ r \in Found' => Position(r)' <= Passed(walk)
      BY <2>1 DEF ShownBehind
    <3>2. /\ walk.shown[r] <= 1
          /\ walk.shown[r] = 1 /\ r \in Found => Position(r) <= Passed(walk)
      BY <1>2, <2>2, <3>1 DEF WalkInv, ShownBehind
    <3>3. ASSUME r \in Found' PROVE r \in Found /\ Position(r)' <= Position(r)
      <4>1. UpTo(r)' \in SUBSET UpTo(r) /\ r \in Found
        BY <1>2, <3>1, <3>3 DEF UpTo
      <4> QED BY <4>1, Positions, FS_Subset DEF Position
    <3>4. Position(r) \in Nat /\ Position(r)' \in Nat
      BY Positions, PositionsNext
    <3> QED BY <2>1, <3>2, <3>3, <3>4
  <2>3. ASSUME list.order # "none" PROVE UnshownAhead'
    <3>1. SUFFICES ASSUME ~walk'.shrank
                   PROVE  /\ walk.start \subseteq Found'
                          /\ \A r \in walk.start :
                                walk.shown[r] > 0 \/ Position(r)' > Passed(walk)
      BY <2>1 DEF UnshownAhead
    <3>2. /\ walk.start \subseteq Found
          /\ \A r \in walk.start : walk.shown[r] > 0 \/ Position(r) > Passed(walk)
      BY <1>2, <2>3, <3>1 DEF WalkInv, UnshownAhead
    <3>3. ASSUME NEW r \in walk.start PROVE walk.shown[r] > 0 \/ Position(r)' > Passed(walk)
      <4>1. UpTo(r) \in SUBSET UpTo(r)'
        BY <1>2, <3>1, <3>2 DEF UpTo
      <4>2. Position(r) <= Position(r)'
        BY <4>1, PositionsNext, FS_Subset DEF Position
      <4>3. Position(r) \in Nat /\ Position(r)' \in Nat
        BY Positions, PositionsNext
      <4> QED BY <2>1, <3>2, <4>2, <4>3
    <3> QED BY <1>2, <3>1, <3>2, <3>3
  <2>4. ASSUME list.counts = "first", walk.at = "find", ~walk'.grew
        PROVE  Cardinality(Found') <= walk.total
    <3>1. Found' \in SUBSET Found /\ ~walk.grew
      BY <1>2, <2>4
    <3>2. Cardinality(Found') <= Cardinality(Found) /\ Cardinality(Found) <= walk.total
      BY <2>4, <3>1, Positions, FS_Subset DEF WalkInv
    <3> QED BY <3>2, Positions, PositionsNext, WalkFields
  <2>5. WalkComplete'
    BY <1>2 DEF WalkInv, WalkComplete
  <2> QED BY <1>2, <2>2, <2>3, <2>4, <2>5 DEF WalkInv
<1> QED BY <1>1, <1>2

\* What the marks of a change leave of the walk.
LEMMA Marks ==
    ASSUME WalkTypeOK, Grown \/ Shrunk
               \/ walk' = [walk EXCEPT !.grew = @ \/ Walking, !.shrank = @ \/ Walking]
    PROVE  /\ walk'.at = walk.at /\ walk'.page = walk.page /\ walk'.limit = walk.limit
           /\ walk'.total = walk.total /\ walk'.start = walk.start /\ walk'.shown = walk.shown
           /\ ~walk'.grew => ~walk.grew /\ (walk.at # "off" => Shrunk)
           /\ ~walk'.shrank => ~walk.shrank /\ (walk.at # "off" => Grown)
<1>1. PICK g : g = (walk.grew \/ Walking)
  OBVIOUS
<1>2. PICK s : s = (walk.shrank \/ Walking)
  OBVIOUS
<1>3. /\ ~g => ~walk.grew /\ walk.at = "off"
      /\ ~s => ~walk.shrank /\ walk.at = "off"
  BY <1>1, <1>2, Zenon DEF Walking
<1>4. CASE Grown
  <2>1. walk' = [walk EXCEPT !.grew = g]
    BY <1>1, <1>4 DEF Grown
  <2> QED BY <1>3, <1>4, <2>1, WalkFields DEF Walk
<1>5. CASE Shrunk
  <2>1. walk' = [walk EXCEPT !.shrank = s]
    BY <1>2, <1>5 DEF Shrunk
  <2> QED BY <1>3, <1>5, <2>1, WalkFields DEF Walk
<1>6. CASE walk' = [walk EXCEPT !.grew = @ \/ Walking, !.shrank = @ \/ Walking]
  <2>1. walk' = [walk EXCEPT !.grew = g, !.shrank = s]
    BY <1>1, <1>2, <1>6
  <2> QED BY <1>3, <2>1, WalkFields DEF Walk
<1> QED BY <1>4, <1>5, <1>6

LEMMA WalkEnds ==
    ASSUME WalkTypeOK, WalkInv, BeginWalk \/ EndWalk
    PROVE  WalkInv'
<1>1. CASE EndWalk
  BY <1>1 DEF EndWalk, Off, WalkInv, ShownBehind, UnshownAhead, WalkComplete, NoneShown
<1>2. CASE BeginWalk
  <2>1. PICK limit \in Limits :
           walk' = [Off EXCEPT !.at = FirstQuery, !.limit = limit, !.start = Found]
    BY <1>2 DEF BeginWalk
  <2>2. /\ walk'.at = FirstQuery /\ walk'.page = 1 /\ walk'.limit = limit
        /\ walk'.start = Found /\ walk'.shown = NoneShown /\ ~walk'.shrank
    BY <2>1 DEF Off
  <2>3. UNCHANGED <<list, rows, rank>> /\ Found' = Found /\ \A r : Position(r)' = Position(r)
    BY <1>2, SameRows DEF BeginWalk
  <2>4. Passed(walk)' = 0
    BY <2>2, <2>3, SkipFacts DEF Passed, FirstQuery
  <2>5. ShownBehind'
    BY <2>2 DEF ShownBehind, NoneShown
  <2>6. \A r \in Found : Position(r) > 0
    <3>1. ASSUME NEW r \in Found PROVE Position(r) > 0
      <4>1. rank[r] \in Int
        BY RowsAssumption, FS_CardinalityType DEF WalkTypeOK, Ranks, Found, In
      <4>2. r \in UpTo(r)
        BY <4>1 DEF UpTo
      <4> QED BY <4>2, Positions, FS_EmptySet DEF Position
    <3> QED BY <3>1
  <2>7. UnshownAhead'
    BY <2>2, <2>3, <2>4, <2>6 DEF UnshownAhead
  <2>8. walk'.at # "off" /\ walk'.at # "done" /\ ~(list.counts = "first" /\ walk'.at = "find")
    BY <2>2 DEF FirstQuery
  <2> QED BY <2>2, <2>3, <2>5, <2>7, <2>8 DEF WalkInv, WalkComplete
<1> QED BY <1>1, <1>2

LEMMA RowStep ==
    ASSUME WalkTypeOK, WalkInv, NEW r \in Rows,
           Insert(r) \/ Leave(r) \/ Return(r) \/ Delete(r) \/ SoftDelete(r) \/ Rename(r) \/ LeaveAll
    PROVE  WalkInv'
<1>1. /\ rows \in [Rows -> RowState] /\ rank \in [Rows -> Ranks \cup {0}] /\ UNCHANGED list
  BY DEF WalkTypeOK, Insert, Leave, Return, Delete, SoftDelete, Rename, LeaveAll
<1>2. CASE Insert(r) \/ Return(r)
  <2>1. Grown
    BY <1>2 DEF Insert, Return
  <2>2. Found \subseteq Found' /\ \A q \in Found : rank'[q] = rank[q]
    BY <1>1, <1>2 DEF Insert, Return, Found, In
  <2>3. walk.at # "off" => walk'.grew
    BY <2>1, Zenon, WalkFields DEF Grown, Walking, Walk
  <2> QED BY <1>1, <2>1, <2>2, <2>3, Marks, RowsChange
<1>3. CASE Leave(r) \/ SoftDelete(r) \/ LeaveAll \/ (Delete(r) /\ rows[r] = "listed")
  <2>1. Shrunk
    BY <1>3 DEF Leave, SoftDelete, LeaveAll, Delete
  <2>2. Found' \subseteq Found /\ \A q \in Found' : rank'[q] = rank[q]
    BY <1>1, <1>3 DEF Leave, SoftDelete, LeaveAll, Delete, Found, In
  <2>3. walk.at # "off" => walk'.shrank
    BY <2>1, WalkFields DEF Shrunk, Walking, Walk
  <2> QED BY <1>1, <2>1, <2>2, <2>3, Marks, RowsChange
<1>4. CASE Delete(r) /\ rows[r] # "listed"
  <2>1. UNCHANGED walk /\ Found' = Found /\ \A q \in Found : rank'[q] = rank[q]
    BY <1>1, <1>4 DEF Delete, Found, In
  <2> QED BY <1>1, <2>1, RowsChange
<1>5. CASE Rename(r)
  <2>1. walk' = [walk EXCEPT !.grew = @ \/ Walking, !.shrank = @ \/ Walking]
    BY <1>5 DEF Rename
  <2>2. walk.at # "off" => walk'.grew /\ walk'.shrank
    BY <2>1, WalkFields DEF Walking, Walk
  <2> QED BY <1>1, <2>1, <2>2, Marks, RowsChange
<1> QED BY <1>2, <1>3, <1>4, <1>5

LEMMA WalkInvStep == IInv /\ WalkInv /\ [Next]_vars => WalkInv'
<1> SUFFICES ASSUME IInv, WalkInv, [Next]_vars PROVE WalkInv'
  OBVIOUS
<1>1. WalkTypeOK
  BY DEF IInv, TypeOK
<1>2. CASE WalkNext
  <2>1. CASE \E r \in Rows : Insert(r) \/ Leave(r) \/ Return(r) \/ Delete(r)
                                 \/ SoftDelete(r) \/ Rename(r)
    BY <1>1, <2>1, RowStep
  <2>2. CASE LeaveAll
    <3>1. PICK r \in Rows : TRUE
      BY <2>2 DEF LeaveAll, Found, In
    <3> QED BY <1>1, <2>2, RowStep
  <2> QED BY <1>1, <1>2, <2>1, <2>2, WalkEnds, FindPageStep, CountRowsStep DEF WalkNext
<1>3. CASE UNCHANGED walkVars
  <2>1. UNCHANGED <<list, rows, rank, walk>>
    BY <1>3 DEF walkVars
  <2>2. Found' = Found /\ \A r : Position(r)' = Position(r)
    BY <2>1, SameRows
  <2> QED BY <1>1, <2>1, <2>2, RowsChange
<1>4. WalkNext \/ UNCHANGED walkVars
  <2>1. ASSUME NEW r \in Requests, Messages(r) PROVE UNCHANGED walkVars
    BY <2>1 DEF Messages, Ask, ReadCase, CheckCaseAccess, FindMessages, MarkRead,
                AnswerMessages, InsertMessage, NotifyReceiver, OnlyRequests
  <2>2. ASSUME NEW r \in Requests, Reviews(r) PROVE UNCHANGED walkVars
    BY <2>2 DEF Reviews, AskReview, CheckReview, CreateReview, LookUpLawyer, CountReview,
                NotifyLawyer, RemoveReview, OnlyRequests
  <2>3. ASSUME NEW r \in Requests, Fail(r) PROVE UNCHANGED walkVars
    BY <2>3 DEF Fail
  <2>4. CaseChanges \/ ProfileDeleted \/ DeleteReview => UNCHANGED walkVars
    BY DEF CaseChanges, ProfileDeleted, DeleteReview
  <2> QED BY <2>1, <2>2, <2>3, <2>4 DEF Next, ListsNext, vars
<1> QED BY <1>2, <1>3, <1>4

\* Whatever comes and goes between two queries, the pages behind a walk hold what it has
\* shown until a row comes, and those ahead what it has not until one leaves.
THEOREM WalkInvariance == Spec => []WalkInv
<1>1. Init => WalkInv
  BY DEF Init, WalkInit, Off, WalkInv, ShownBehind, UnshownAhead, WalkComplete, NoneShown
<1>2. IInv /\ WalkInv /\ [Next]_vars => WalkInv'
  BY WalkInvStep
<1> QED BY <1>1, <1>2, Invariance, PTL DEF Spec

\* A sorted list that no row leaves is shown whole, for any number of rows, any page size
\* and any insertions meanwhile; those that count first need that none comes, either.
THEOREM WalksComplete == Spec => []WalkComplete
<1>1. WalkInv => WalkComplete
  BY DEF WalkInv
<1> QED BY <1>1, WalkInvariance, PTL

\* A sorted list into which no row comes shows none twice, whatever leaves it meanwhile.
THEOREM WalksShowOnce == Spec => []WalkShowsOnce
<1>1. WalkInv => WalkShowsOnce
  BY DEF WalkInv, WalkShowsOnce, ShownBehind
<1> QED BY <1>1, WalkInvariance, PTL
=============================================================================
