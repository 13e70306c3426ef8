-------------------------- MODULE ProfileCacheProofs --------------------------
(***************************************************************************)
(* Theorems about ProfileCache, for any number of requests in flight, with *)
(* or without failures of requests and of Redis.                           *)
(***************************************************************************)
EXTENDS ProfileCache, TLAPS

-----------------------------------------------------------------------------
\* The parts of a sequence, and the keys that one is due to drop.
LEMMA SeqParts ==
    ASSUME NEW S, NEW s \in Seq(S), s # <<>>
    PROVE  Head(s) \in S /\ Tail(s) \in Seq(S) /\ Range(s) = {Head(s)} \cup Range(Tail(s))
<1>1. Head(s) \in S /\ Tail(s) \in Seq(S)
  OBVIOUS
<1>2. ASSUME NEW x PROVE x \in Range(s) <=> x = Head(s) \/ x \in Range(Tail(s))
  <2>1. x \in Range(s) <=> \E i \in 1..Len(s) : s[i] = x
    BY DEF Range
  <2>2. x \in Range(Tail(s)) <=> \E i \in 1..(Len(s) - 1) : s[i + 1] = x
    <3>1. DOMAIN Tail(s) = 1..(Len(s) - 1)
      OBVIOUS
    <3>2. \A i \in 1..(Len(s) - 1) : Tail(s)[i] = s[i + 1]
      OBVIOUS
    <3>3. x \in Range(Tail(s)) <=> \E i \in DOMAIN Tail(s) : Tail(s)[i] = x
      BY Zenon DEF Range
    <3> QED BY <3>1, <3>2, <3>3
  <2>3. x = Head(s) <=> s[1] = x
    OBVIOUS
  <2>4. Len(s) \in Nat /\ Len(s) >= 1
    OBVIOUS
  <2>5. (\E i \in 1..Len(s) : s[i] = x) <=> s[1] = x \/ \E i \in 1..(Len(s) - 1) : s[i + 1] = x
    <3>1. ASSUME NEW i \in 1..Len(s), s[i] = x, i # 1
          PROVE  \E j \in 1..(Len(s) - 1) : s[j + 1] = x
      <4>1. i - 1 \in 1..(Len(s) - 1) /\ (i - 1) + 1 = i
        BY <2>4, <3>1
      <4> QED BY <3>1, <4>1
    <3> QED BY <2>4, <3>1
  <2> QED BY <2>1, <2>2, <2>3, <2>5
<1> QED BY <1>1, <1>2

LEMMA EmptyRange == Range(<<>>) = {}
BY DEF Range

\* What a list of keys and prefixes drops.
Dropped(seq) == UNION {DropKeys(t) : t \in Range(seq)}

LEMMA DroppedParts ==
    ASSUME NEW s \in Seq(Keys \cup Prefixes), s # <<>>
    PROVE  Dropped(s) = DropKeys(Head(s)) \cup Dropped(Tail(s))
<1>1. Range(s) = {Head(s)} \cup Range(Tail(s))
  BY SeqParts
<1> QED BY <1>1 DEF Dropped

LEMMA DroppedNone == Dropped(<<>>) = {}
BY EmptyRange DEF Dropped

LEMMA DueIs == ASSUME NEW q PROVE Due(q) = q.found \cup Dropped(q.drops)
BY DEF Due, Dropped

LEMMA DropKeysIs ==
    /\ \A k \in Keys : DropKeys(k) = {k}
    /\ \A t \in Keys \cup Prefixes : DropKeys(t) \subseteq Keys
BY DEF DropKeys, Keys, LawyerKeys, CategoryKeys, Prefixes

LEMMA IdleOK == Idle \in Request /\ RequestOK(Idle) /\ Due(Idle) = {}
<1>1. Idle \in Request
  BY DEF Idle, Request
<1>2. Due(Idle) = {}
  BY DueIs, DroppedNone DEF Idle
<1>3. RequestOK(Idle)
  BY DEF RequestOK, Idle
<1> QED BY <1>1, <1>2, <1>3

\* What follows a drop.
LEMMA AfterDropIs ==
    ASSUME NEW q \in Request, NEW rest \in Seq(Keys \cup Prefixes)
    PROVE  \E p \in Request : /\ p = AfterDrop(q, rest) /\ RequestOK(p)
                              /\ Due(p) = Dropped(rest)
                              /\ rest # <<>> => Wrote(p)
<1>1. CASE rest = <<>>
  BY <1>1, IdleOK, DroppedNone DEF AfterDrop
<1>2. CASE rest # <<>>
  <2> DEFINE p == [q EXCEPT !.pc = "drop", !.drops = rest, !.found = {}]
  <2>1. p \in Request /\ p.pc = "drop" /\ p.drops = rest /\ p.found = {}
    BY DEF Request
  <2>2. p = AfterDrop(q, rest)
    BY <1>2 DEF AfterDrop
  <2> HIDE DEF p
  <2>3. RequestOK(p) /\ Wrote(p)
    BY <1>2, <2>1 DEF RequestOK, Wrote
  <2>4. Due(p) = Dropped(rest)
    BY <2>1, DueIs
  <2> QED BY <2>1, <2>2, <2>3, <2>4
<1> QED BY <1>1, <1>2

-----------------------------------------------------------------------------
\* What Redis may hold under a key.
Copies == (SUBSET Docs) \cup {None}

LEMMA CopiesAre == None \in Copies /\ \A old \in SUBSET Docs : old \in Copies
<1>1. None \in Copies
  BY Zenon DEF Copies
<1>2. \A old \in SUBSET Docs : old \in Copies
  BY Zenon DEF Copies
<1> QED BY <1>1, <1>2

LEMMA Typed ==
    IInv => /\ docs \in [Docs -> {"absent", "live", "deleted"}]
            /\ entries \in [Keys -> Copies] /\ up \in BOOLEAN /\ excused \subseteq Keys
BY DEF IInv, TypeOK, Copies

\* Whether another request explains an old entry.
OtherDue(r, k) == \E s \in Requests \ {r} : Wrote(requests[s]) /\ k \in Due(requests[s])

\* A step of one request, whatever it does to the database and to Redis.
LEMMA SetRequest ==
    ASSUME IInv, NEW r \in Requests, NEW q \in Request, RequestOK(q), Become(r, q),
           docs' \in [Docs -> {"absent", "live", "deleted"}],
           entries' \in [Keys -> Copies],
           up' \in BOOLEAN, excused' \subseteq Keys,
           \A k \in Keys : Stale(k)' /\ k \notin excused' =>
               OtherDue(r, k) \/ (Wrote(q) /\ k \in Due(q))
    PROVE  IInv'
<1>1. /\ requests' \in [Requests -> Request] /\ requests'[r] = q
      /\ \A s \in Requests \ {r} : requests'[s] = requests[s]
  BY DEF Become, IInv, TypeOK
<1>2. \A s \in Requests : RequestOK(requests'[s])
  BY <1>1 DEF IInv
<1>3. ASSUME NEW k \in Keys, Stale(k)', k \notin excused'
      PROVE  \E s \in Requests : Wrote(requests'[s]) /\ k \in Due(requests'[s])
  BY <1>1, <1>3 DEF OtherDue
<1>4. TypeOK'
  BY <1>1 DEF TypeOK, Copies
<1>5. StaleExplained'
  BY <1>3 DEF StaleExplained
<1> QED BY <1>2, <1>4, <1>5 DEF IInv

\* A step of one request that changes nothing else, and gives up no explanation.
LEMMA KeepEntries ==
    ASSUME IInv, NEW r \in Requests, NEW q \in Request, RequestOK(q), Become(r, q),
           UNCHANGED <<docs, entries, up, excused>>,
           \A k \in Keys : Stale(k) /\ Wrote(requests[r]) /\ k \in Due(requests[r])
               => Wrote(q) /\ k \in Due(q)
    PROVE  IInv'
<1>1. \A k \in Keys : Stale(k)' /\ k \notin excused' =>
          OtherDue(r, k) \/ (Wrote(q) /\ k \in Due(q))
  BY DEF IInv, StaleExplained, OtherDue, Stale
<1> QED BY <1>1, Typed, SetRequest

LEMMA InitIInv == Init => IInv
<1> SUFFICES ASSUME Init PROVE IInv
  OBVIOUS
<1>1. TypeOK
  <2>1. docs \in [Docs -> {"absent", "live", "deleted"}]
    <3>1. CASE docs = [lawyer |-> "live", user |-> "live", category |-> "absent"]
      BY <3>1 DEF Docs
    <3>2. CASE \E st \in {"absent", "live"} :
                  docs = [lawyer |-> "absent", user |-> "absent", category |-> st]
      BY <3>2 DEF Docs
    <3> QED BY <3>1, <3>2 DEF Init
  <2>2. /\ requests = [r \in Requests |-> Idle] /\ entries = [k \in Keys |-> None]
        /\ up = TRUE /\ excused = {}
    BY DEF Init
  <2>3. entries \in [Keys -> Copies] /\ requests \in [Requests -> Request]
    BY <2>2, IdleOK, CopiesAre
  <2> QED BY <2>1, <2>2, <2>3 DEF TypeOK, Copies
<1>2. StaleExplained
  BY DEF Init, StaleExplained, Stale
<1>3. \A r \in Requests : RequestOK(requests[r])
  BY IdleOK DEF Init
<1> QED BY <1>1, <1>2, <1>3 DEF IInv
-----------------------------------------------------------------------------
\* Requests that come.
LEMMA DocsIn ==
    /\ <<"lawyer">> \in Seq(Docs) /\ <<"user">> \in Seq(Docs) /\ <<"category">> \in Seq(Docs)
    /\ <<"lawyer", "user">> \in Seq(Docs)
<1>1. "lawyer" \in Docs /\ "user" \in Docs /\ "category" \in Docs
  BY DEF Docs
<1> QED BY <1>1

LEMMA LookOK ==
    ASSUME IInv, NEW r \in Requests, NEW k \in Keys, Look(r, k)
    PROVE  IInv'
<1> DEFINE q == [Idle EXCEPT !.pc = "read", !.key = k, !.todo = Sources(k)]
<1>1. Sources(k) \in Seq(Docs) /\ Sources(k) # <<>>
  BY DocsIn DEF Sources
<1>2. q \in Request /\ RequestOK(q)
  <2>1. /\ q.pc = "read" /\ q.key = k /\ q.todo = Sources(k)
        /\ q.drops = <<>> /\ q.found = {} /\ q \in Request
    BY <1>1, IdleOK DEF Idle, Request
  <2> QED BY <1>1, <2>1 DEF RequestOK
<1>3. ~Wrote(requests[r])
  BY DEF Look, Wrote, At
<1> QED BY <1>2, <1>3, KeepEntries DEF Look

LEMMA ReadersOK ==
    ASSUME IInv, NEW r \in Requests,
           \/ GetProfile(r) \/ GetLawyer(r) \/ GetLawyers(r) \/ GetCategory(r)
           \/ GetByName(r) \/ GetCategories(r) \/ GetSubCategories(r)
    PROVE  IInv'
BY LookOK DEF GetProfile, GetLawyer, GetLawyers, GetCategory, GetByName, GetCategories,
   GetSubCategories, Keys, LawyerKeys, CategoryKeys

LEMMA ReadNextOK ==
    ASSUME IInv, NEW r \in Requests, ReadNext(r)
    PROVE  IInv'
<1> DEFINE q == requests[r]
           rest == Tail(q.todo)
<1>1. q \in Request /\ RequestOK(q) /\ q.pc = "read" /\ ~Wrote(q)
  BY DEF ReadNext, At, Wrote, IInv, TypeOK
<1>2. UNCHANGED <<docs, entries, up, excused>>
  BY DEF ReadNext
<1>3. CASE Finish(r)
  BY <1>1, <1>2, <1>3, IdleOK, KeepEntries DEF Finish
<1>4. CASE Become(r, [q EXCEPT !.todo = rest, !.pc = IF rest = <<>> THEN "set" ELSE "read"])
  <2>1. q.todo \in Seq(Docs) /\ q.todo # <<>>
    BY <1>1 DEF Request, RequestOK
  <2>2. rest \in Seq(Docs)
    BY <2>1, SeqParts
  <2> DEFINE p == [q EXCEPT !.todo = rest, !.pc = IF rest = <<>> THEN "set" ELSE "read"]
  <2>3. /\ p \in Request /\ p.todo = rest /\ p.key = q.key /\ p.drops = q.drops
        /\ p.found = q.found /\ p.pc = IF rest = <<>> THEN "set" ELSE "read"
    BY <1>1, <2>2 DEF Request
  <2> HIDE DEF p
  <2>4. RequestOK(p)
    BY <1>1, <2>3 DEF RequestOK
  <2>5. Become(r, p)
    BY <1>4 DEF p
  <2> QED BY <1>1, <1>2, <2>3, <2>4, <2>5, KeepEntries
<1> QED BY <1>3, <1>4 DEF ReadNext

LEMMA SetEntryOK ==
    ASSUME IInv, NEW r \in Requests, SetEntry(r)
    PROVE  IInv'
<1> DEFINE q == requests[r]
<1>1. q \in Request /\ RequestOK(q) /\ q.pc = "set" /\ ~Wrote(q) /\ q.key \in Keys
  BY DEF SetEntry, At, Wrote, IInv, TypeOK, RequestOK
<1>2. q.old \in SUBSET Docs
  BY <1>1 DEF Request
<1>3. /\ entries' = IF up THEN [entries EXCEPT ![q.key] = q.old] ELSE entries
      /\ excused' = IF ~up THEN excused ELSE IF q.old = {} THEN excused \ {q.key}
                    ELSE excused \cup {q.key}
      /\ Become(r, Idle) /\ UNCHANGED <<docs, up>>
  BY DEF SetEntry, Finish
<1>4. /\ entries' \in [Keys -> Copies] /\ excused' \subseteq Keys
      /\ docs' \in [Docs -> {"absent", "live", "deleted"}] /\ up' \in BOOLEAN
  BY <1>1, <1>2, <1>3, Typed, CopiesAre
<1>5. ASSUME NEW k \in Keys, Stale(k)', k \notin excused' PROVE OtherDue(r, k)
  <2>1. Stale(k) /\ k \notin excused
    BY <1>1, <1>2, <1>3, <1>5, Typed DEF Stale
  <2> QED BY <1>1, <2>1 DEF IInv, StaleExplained, OtherDue
<1> QED BY <1>3, <1>4, <1>5, IdleOK, SetRequest

-----------------------------------------------------------------------------
\* Writers that begin.
LEMMA BeginOK ==
    ASSUME IInv, NEW r \in Requests, NEW op \in Writers, NEW todo \in Seq(Docs),
           NEW drops \in Seq(Keys \cup Prefixes), Begin(r, op, todo, drops),
           todo \in Left(op), drops # <<>>, Promised(op) \subseteq Dropped(drops)
    PROVE  IInv'
<1> DEFINE q == [Idle EXCEPT !.pc = "write", !.op = op, !.todo = todo, !.drops = drops]
<1>1. /\ q.pc = "write" /\ q.op = op /\ q.todo = todo
      /\ q.drops = drops /\ q.found = {} /\ q \in Request
  BY IdleOK DEF Idle, Request
<1>2. RequestOK(q)
  <2>1. Due(q) = Dropped(drops)
    BY <1>1, DueIs
  <2> QED BY <1>1, <2>1 DEF RequestOK
<1>3. ~Wrote(requests[r])
  BY DEF Begin, Wrote, At
<1> QED BY <1>1, <1>2, <1>3, KeepEntries DEF Begin

LEMMA DroppedOne == ASSUME NEW t \in Keys \cup Prefixes PROVE Dropped(<<t>>) = DropKeys(t)
<1>1. /\ <<t>> \in Seq(Keys \cup Prefixes) /\ <<t>> # <<>>
      /\ Head(<<t>>) = t /\ Tail(<<t>>) = <<>>
  OBVIOUS
<1> QED BY <1>1, DroppedParts, DroppedNone

LEMMA DroppedTwo ==
    ASSUME NEW t \in Keys \cup Prefixes, NEW u \in Keys \cup Prefixes
    PROVE  Dropped(<<t, u>>) = DropKeys(t) \cup DropKeys(u)
<1>1. /\ <<t, u>> \in Seq(Keys \cup Prefixes) /\ <<t, u>> # <<>>
      /\ Head(<<t, u>>) = t /\ Tail(<<t, u>>) = <<u>>
  OBVIOUS
<1> QED BY <1>1, DroppedParts, DroppedOne

LEMMA BeginnersOK ==
    ASSUME IInv, NEW r \in Requests,
           \/ UpdateProfile(r) \/ UpdateById(r) \/ DeleteById(r) \/ VerifyLawyer(r)
           \/ CreateCategory(r) \/ UpdateCategory(r) \/ DeleteCategory(r) \/ SeedCategories(r)
    PROVE  IInv'
<1>1. /\ "profile" \in Keys /\ "byId" \in Keys /\ "category" \in Keys
      /\ "lawyers:list" \in Prefixes /\ "categories*" \in Prefixes
      /\ DropKeys("profile") = {"profile"} /\ DropKeys("byId") = {"byId"}
      /\ DropKeys("category") = {"category"} /\ DropKeys("lawyers:list") = {"lawyers"}
      /\ DropKeys("categories*") = {"categories", "sub"}
  <2>1. "profile" \in Keys /\ "byId" \in Keys /\ "category" \in Keys
    BY DEF Keys, LawyerKeys, CategoryKeys
  <2>2. "lawyers:list" \in Prefixes /\ "categories*" \in Prefixes
    BY DEF Prefixes
  <2>3. DropKeys("lawyers:list") = {"lawyers"}
    BY DEF DropKeys
  <2>4. DropKeys("categories*") = {"categories", "sub"}
    BY DEF DropKeys
  <2> QED BY <2>1, <2>2, <2>3, <2>4, DropKeysIs
<1>2. /\ InvalidateCache \in Seq(Keys \cup Prefixes) /\ InvalidateCache # <<>>
      /\ Dropped(InvalidateCache) = LawyerKeys
  <2>1. /\ InvalidateCache \in Seq(Keys \cup Prefixes) /\ InvalidateCache # <<>>
        /\ Head(InvalidateCache) = "byId" /\ Tail(InvalidateCache) = <<"profile", "lawyers:list">>
    BY <1>1 DEF InvalidateCache
  <2>2. Dropped(<<"profile", "lawyers:list">>) = {"profile"} \cup {"lawyers"}
    BY <1>1, DroppedTwo
  <2>3. Dropped(InvalidateCache) = {"byId"} \cup ({"profile"} \cup {"lawyers"})
    BY <1>1, <2>1, <2>2, DroppedParts
  <2> QED BY <2>1, <2>3 DEF LawyerKeys
<1>3. /\ Promised("updateProfile") = {"profile"}
      /\ \A op \in {"updateById", "deleteById", "verifyLawyer"} : Promised(op) = LawyerKeys
      /\ \A op \in {"updateCategory", "deleteCategory"} :
            Promised(op) = {"category", "categories", "sub"}
      /\ \A op \in {"createCategory", "seedCategories"} : Promised(op) = {"categories", "sub"}
  BY DEF Promised
<1>4. \A f \in Fields : f \in Seq(Docs) /\ f \in {<<"lawyer">>, <<"lawyer", "user">>}
  BY DocsIn DEF Fields
<1>5. <<"lawyer">> \in Seq(Docs) /\ <<"lawyer", "user">> \in Seq(Docs) /\ <<"category">> \in Seq(Docs)
  BY DocsIn
<1>6. CASE UpdateProfile(r)
  <2>1. PICK f \in Fields : Begin(r, "updateProfile", f, <<"profile">>)
    BY <1>6 DEF UpdateProfile
  <2>2. Dropped(<<"profile">>) = {"profile"} /\ <<"profile">> \in Seq(Keys \cup Prefixes)
    BY <1>1, DroppedOne
  <2> QED BY <1>3, <1>4, <2>1, <2>2, BeginOK DEF Writers, Left
<1>7. CASE UpdateById(r)
  <2>1. PICK f \in Fields : Begin(r, "updateById", f, InvalidateCache)
    BY <1>7 DEF UpdateById
  <2> QED BY <1>2, <1>3, <1>4, <2>1, BeginOK DEF Writers, Left
<1>8. CASE DeleteById(r)
  <2>1. Begin(r, "deleteById", <<"lawyer">>, InvalidateCache)
    BY <1>8 DEF DeleteById
  <2> QED BY <1>2, <1>3, <1>5, <2>1, BeginOK DEF Writers, Left
<1>9. CASE VerifyLawyer(r)
  <2>1. Begin(r, "verifyLawyer", <<"lawyer", "user">>, InvalidateCache)
    BY <1>9 DEF VerifyLawyer
  <2> QED BY <1>2, <1>3, <1>5, <2>1, BeginOK DEF Writers, Left
<1>10. ASSUME NEW op \in {"createCategory", "seedCategories"},
              Begin(r, op, <<"category">>, <<"categories*">>)
       PROVE  IInv'
  <2>1. /\ Dropped(<<"categories*">>) = {"categories", "sub"}
        /\ <<"categories*">> \in Seq(Keys \cup Prefixes) /\ <<"categories*">> # <<>>
    BY <1>1, DroppedOne
  <2>2. op \in Writers /\ <<"category">> \in Left(op)
    BY DEF Writers, Left
  <2> QED BY <1>3, <1>5, <1>10, <2>1, <2>2, BeginOK
<1>11. ASSUME NEW op \in {"updateCategory", "deleteCategory"},
              Begin(r, op, <<"category">>, <<"categories*", "category">>)
       PROVE  IInv'
  <2>1. /\ Dropped(<<"categories*", "category">>) = {"categories", "sub"} \cup {"category"}
        /\ <<"categories*", "category">> \in Seq(Keys \cup Prefixes)
        /\ <<"categories*", "category">> # <<>>
    BY <1>1, DroppedTwo
  <2>2. op \in Writers /\ <<"category">> \in Left(op)
    BY DEF Writers, Left
  <2> QED BY <1>3, <1>5, <1>11, <2>1, <2>2, BeginOK
<1> QED BY <1>6, <1>7, <1>8, <1>9, <1>10, <1>11
        DEF CreateCategory, UpdateCategory, DeleteCategory, SeedCategories

-----------------------------------------------------------------------------
\* Dropping.
LEMMA DropSlot ==
    ASSUME IInv, NEW r \in Requests, At(r, "drop")
    PROVE  LET q == requests[r] IN
           /\ q \in Request /\ q.drops \in Seq(Keys \cup Prefixes) /\ q.drops # <<>>
           /\ q.found = {} /\ Head(q.drops) \in Keys \cup Prefixes
           /\ Tail(q.drops) \in Seq(Keys \cup Prefixes)
           /\ Due(q) = DropKeys(Head(q.drops)) \cup Dropped(Tail(q.drops))
<1> DEFINE q == requests[r]
<1>1. q \in Request /\ RequestOK(q) /\ q.pc = "drop"
  BY DEF At, IInv, TypeOK
<1>2. q.drops \in Seq(Keys \cup Prefixes) /\ q.drops # <<>> /\ q.found = {}
  BY <1>1 DEF Request, RequestOK
<1> HIDE DEF q
<1>3. Due(q) = q.found \cup Dropped(q.drops)
  BY DueIs
<1>4. Dropped(q.drops) = DropKeys(Head(q.drops)) \cup Dropped(Tail(q.drops))
  BY <1>2, DroppedParts
<1>5. Head(q.drops) \in Keys \cup Prefixes /\ Tail(q.drops) \in Seq(Keys \cup Prefixes)
  BY <1>2, SeqParts
<1> QED BY <1>1, <1>2, <1>3, <1>4, <1>5 DEF q

\* Entries that are gone, or excused, need no explanation; the rest keep theirs.
LEMMA Dropping ==
    ASSUME IInv, NEW r \in Requests, NEW rest \in Seq(Keys \cup Prefixes), NEW gone \in SUBSET Keys,
           Become(r, AfterDrop(requests[r], rest)),
           Due(requests[r]) \subseteq gone \cup Dropped(rest),
           entries' \in [Keys -> Copies], excused' \subseteq Keys,
           \A k \in Keys \ gone : entries'[k] = entries[k] /\ (k \in excused => k \in excused'),
           \A k \in gone : entries'[k] = None \/ k \in excused',
           UNCHANGED <<docs, up>>
    PROVE  IInv'
<1>1. requests[r] \in Request
  BY DEF IInv, TypeOK
<1>2. PICK p \in Request : /\ p = AfterDrop(requests[r], rest) /\ RequestOK(p)
                           /\ Due(p) = Dropped(rest) /\ (rest # <<>> => Wrote(p))
  BY <1>1, AfterDropIs
<1>3. ASSUME NEW k \in Keys, Stale(k)', k \notin excused'
      PROVE  OtherDue(r, k) \/ (Wrote(p) /\ k \in Due(p))
  <2>1. k \notin gone /\ Stale(k) /\ k \notin excused
    BY <1>3 DEF Stale
  <2>2. OtherDue(r, k) \/ k \in Due(requests[r])
    BY <2>1 DEF IInv, StaleExplained, OtherDue
  <2>3. k \in Dropped(rest) => Wrote(p) /\ k \in Due(p)
    BY <1>2, DroppedNone
  <2>4. k \in Due(requests[r]) => k \in Dropped(rest)
    BY <2>1
  <2> QED BY <2>2, <2>3, <2>4
<1>4. Become(r, p)
  BY <1>2
<1>5. docs' \in [Docs -> {"absent", "live", "deleted"}] /\ up' \in BOOLEAN
  BY Typed
<1> QED BY <1>2, <1>3, <1>4, <1>5, SetRequest

LEMMA DropKeyOK ==
    ASSUME IInv, NEW r \in Requests, DropKey(r)
    PROVE  IInv'
<1> DEFINE q == requests[r]
           k == Head(q.drops)
<1>1. /\ At(r, "drop") /\ k \in Keys
      /\ entries' = IF up THEN [entries EXCEPT ![k] = None] ELSE entries
      /\ excused' = IF up THEN excused \ {k} ELSE excused \cup {k}
      /\ Become(r, AfterDrop(q, Tail(q.drops))) /\ UNCHANGED <<docs, up>>
  BY DEF DropKey
<1>2. Tail(q.drops) \in Seq(Keys \cup Prefixes) /\ Due(q) \subseteq {k} \cup Dropped(Tail(q.drops))
  BY <1>1, DropSlot, DropKeysIs
<1>3. entries' \in [Keys -> Copies] /\ excused' \subseteq Keys
  BY <1>1, Typed, CopiesAre
<1>4. \A m \in Keys \ {k} : entries'[m] = entries[m] /\ (m \in excused => m \in excused')
  BY <1>1, Typed
<1>5. \A m \in {k} : entries'[m] = None \/ m \in excused'
  BY <1>1, Typed
<1>6. PICK gone \in SUBSET Keys : gone = {k}
  BY <1>1
<1> HIDE DEF k
<1> QED BY <1>1, <1>2, <1>3, <1>4, <1>5, <1>6, Dropping

LEMMA ListKeysOfPrefixOK ==
    ASSUME IInv, NEW r \in Requests, ListKeysOfPrefix(r)
    PROVE  IInv'
<1> DEFINE q == requests[r]
           rest == Tail(q.drops)
           prefixed == DropKeys(Head(q.drops))
           listed == {k \in prefixed : entries[k] # None}
<1>1. At(r, "drop") /\ UNCHANGED <<docs, entries, up>>
  BY DEF ListKeysOfPrefix
<1>2. /\ q \in Request /\ rest \in Seq(Keys \cup Prefixes) /\ prefixed \subseteq Keys
      /\ Due(q) = prefixed \cup Dropped(rest)
  BY <1>1, DropSlot, DropKeysIs
<1>3. CASE Become(r, [q EXCEPT !.pc = "del", !.drops = rest, !.found = listed]) /\ excused' = excused
  <2> DEFINE p == [q EXCEPT !.pc = "del", !.drops = rest, !.found = listed]
  <2>1. p \in Request /\ p.pc = "del" /\ p.drops = rest /\ p.found = listed
    BY <1>2 DEF Request
  <2>2. Become(r, p)
    BY <1>3
  <2> HIDE DEF p
  <2>3. Due(p) = listed \cup Dropped(rest) /\ Wrote(p) /\ RequestOK(p)
    BY <2>1, DueIs DEF Wrote, RequestOK
  <2>4. \A k \in Keys : Stale(k) /\ k \in Due(q) => k \in Due(p)
    BY <1>2, <2>3 DEF Stale
  <2> QED BY <1>1, <1>3, <2>1, <2>2, <2>3, <2>4, KeepEntries
<1>4. CASE listed = {} /\ Become(r, AfterDrop(q, rest)) /\ excused' = excused
  <2>1. \A k \in prefixed : entries'[k] = None
    BY <1>1, <1>4
  <2> QED BY <1>1, <1>2, <1>4, <2>1, Typed, Dropping
<1>5. CASE Become(r, AfterDrop(q, rest)) /\ excused' = excused \cup prefixed
  <2>1. excused' \subseteq Keys
    BY <1>2, <1>5, Typed
  <2> QED BY <1>1, <1>2, <1>5, <2>1, Typed, Dropping
<1> QED BY <1>3, <1>4, <1>5 DEF ListKeysOfPrefix

LEMMA DropFoundOK ==
    ASSUME IInv, NEW r \in Requests, DropFound(r)
    PROVE  IInv'
<1> DEFINE q == requests[r]
<1>1. q \in Request /\ q.found \in SUBSET Keys /\ q.drops \in Seq(Keys \cup Prefixes)
  BY DEF IInv, TypeOK, Request
<1>2. /\ entries' = IF up THEN [k \in Keys |-> IF k \in q.found THEN None ELSE entries[k]]
                     ELSE entries
      /\ excused' = IF up THEN excused \ q.found ELSE excused \cup q.found
      /\ Become(r, AfterDrop(q, q.drops)) /\ UNCHANGED <<docs, up>>
  BY DEF DropFound
<1>3. Due(q) \subseteq q.found \cup Dropped(q.drops)
  BY DueIs
<1>4. entries' \in [Keys -> Copies] /\ excused' \subseteq Keys
  BY <1>1, <1>2, Typed, CopiesAre
<1>5. \A k \in Keys \ q.found : entries'[k] = entries[k] /\ (k \in excused => k \in excused')
  BY <1>1, <1>2, Typed
<1>6. \A k \in q.found : entries'[k] = None \/ k \in excused'
  BY <1>1, <1>2
<1> QED BY <1>1, <1>2, <1>3, <1>4, <1>5, <1>6, Dropping
-----------------------------------------------------------------------------
\* Writing.
LEMMA AgedIs ==
    ASSUME NEW q \in Request, NEW d \in Docs
    PROVE  /\ Aged(q, d) \in Request
           /\ Aged(q, d).pc = q.pc /\ Aged(q, d).key = q.key /\ Aged(q, d).op = q.op
           /\ Aged(q, d).todo = q.todo /\ Aged(q, d).drops = q.drops
           /\ Aged(q, d).found = q.found
           /\ q.pc = "idle" => Aged(q, d) = q
<1>1. q.old \cup {d} \in SUBSET Docs
  BY DEF Request
<1>2. q.pc = "idle" => Aged(q, d) = q
  BY DEF Aged, Held
<1>3. CASE Aged(q, d) = q
  BY <1>2, <1>3
<1>4. CASE Aged(q, d) = [q EXCEPT !.old = @ \cup {d}]
  <2>1. PICK old \in SUBSET Docs : old = q.old \cup {d}
    BY <1>1
  <2>2. Aged(q, d) = [q EXCEPT !.old = old]
    BY <1>4, <2>1
  <2> QED BY <1>2, <2>2 DEF Request
<1> QED BY <1>3, <1>4 DEF Aged

LEMMA AgedOK ==
    ASSUME NEW q \in Request, NEW d \in Docs, RequestOK(q)
    PROVE  RequestOK(Aged(q, d)) /\ Due(Aged(q, d)) = Due(q) /\ (Wrote(q) => Wrote(Aged(q, d)))
<1>1. PICK p \in Request : /\ p = Aged(q, d)
                           /\ p.pc = q.pc /\ p.key = q.key /\ p.op = q.op /\ p.todo = q.todo
                           /\ p.drops = q.drops /\ p.found = q.found /\ (q.pc = "idle" => p = q)
  BY AgedIs
<1>2. Due(p) = Due(q)
  <2>1. Due(p) = p.found \cup Dropped(p.drops) /\ Due(q) = q.found \cup Dropped(q.drops)
    BY DueIs
  <2> QED BY <1>1, <2>1
<1>3. Wrote(q) => Wrote(p)
  BY <1>1 DEF Wrote
<1>4. RequestOK(p)
  <2>1. CASE q.pc = "idle"
    BY <1>1, <2>1
  <2>2. CASE q.pc # "idle"
    BY <1>1, <1>2, <2>2 DEF RequestOK
  <2> QED BY <2>1, <2>2
<1> QED BY <1>1, <1>2, <1>3, <1>4

\* A document is written: its copies are old now.  The writer, if it is one of the requests,
\* is due to drop every key that it does not excuse.
LEMMA DocWritten ==
    ASSUME IInv, NEW d \in Docs, NEW out \in SUBSET Keys,
           docs' \in [Docs -> {"absent", "live", "deleted"}], up' \in BOOLEAN,
           AgeEntries(d), excused' = excused \cup out,
           requests' \in [Requests -> Request],
           \A s \in Requests :
               /\ RequestOK(requests'[s])
               /\ Wrote(requests[s]) => Wrote(requests'[s]) /\ Due(requests[s]) \subseteq Due(requests'[s]),
           \A k \in Keys \ out : d \in Copied(k) =>
               \E s \in Requests : Wrote(requests'[s]) /\ k \in Due(requests'[s])
    PROVE  IInv'
<1>1. entries' \in [Keys -> Copies] /\ excused' \subseteq Keys
  <2>1. ASSUME NEW k \in Keys, entries[k] # None PROVE entries[k] \cup {d} \in Copies
    <3>1. entries[k] \in SUBSET Docs
      BY <2>1, Typed, Zenon DEF Copies
    <3> QED BY <3>1, CopiesAre
  <2>2. \A k \in Keys : entries[k] \in Copies
    BY Typed
  <2> QED BY <2>1, <2>2, Typed DEF AgeEntries
<1>2. TypeOK'
  BY <1>1 DEF TypeOK, Copies
<1>3. StaleExplained'
  <2> SUFFICES ASSUME NEW k \in Keys, Stale(k)', k \notin excused'
               PROVE  \E s \in Requests : Wrote(requests'[s]) /\ k \in Due(requests'[s])
    BY DEF StaleExplained
  <2>1. CASE d \in Copied(k)
    BY <2>1
  <2>2. CASE d \notin Copied(k)
    <3>1. entries'[k] = entries[k]
      BY <2>2 DEF AgeEntries
    <3>2. Stale(k) /\ k \notin excused
      BY <3>1 DEF Stale
    <3> QED BY <3>2 DEF IInv, StaleExplained
  <2> QED BY <2>1, <2>2
<1> QED BY <1>2, <1>3 DEF IInv

LEMMA OtherWriteOK ==
    ASSUME IInv, OtherWrite
    PROVE  IInv'
<1>1. PICK d \in {"lawyer", "user"} :
         /\ AgeEntries(d) /\ requests' = [s \in Requests |-> Aged(requests[s], d)]
         /\ excused' = excused \cup Uncovered(None, d) /\ UNCHANGED <<docs, up>>
  BY DEF OtherWrite
<1>2. d \in Docs
  BY DEF Docs
<1>3. Uncovered(None, d) = {k \in Keys : d \in Copied(k)}
  <2>1. Promised(None) = {}
    BY NoneAssumption DEF Promised, Writers
  <2> QED BY <2>1 DEF Uncovered
<1>4. \A s \in Requests :
         /\ requests'[s] \in Request /\ RequestOK(requests'[s])
         /\ Wrote(requests[s]) => Wrote(requests'[s]) /\ Due(requests[s]) \subseteq Due(requests'[s])
  <2> SUFFICES ASSUME NEW s \in Requests
               PROVE  /\ requests'[s] \in Request /\ RequestOK(requests'[s])
                      /\ Wrote(requests[s]) => /\ Wrote(requests'[s])
                                               /\ Due(requests[s]) \subseteq Due(requests'[s])
    OBVIOUS
  <2>1. requests[s] \in Request /\ RequestOK(requests[s]) /\ requests'[s] = Aged(requests[s], d)
    BY <1>1 DEF IInv, TypeOK
  <2> QED BY <1>2, <2>1, AgedIs, AgedOK
<1>5. requests' \in [Requests -> Request]
  BY <1>1, <1>4
<1>6. docs' \in [Docs -> {"absent", "live", "deleted"}] /\ up' \in BOOLEAN
  BY <1>1, Typed
<1>7. Uncovered(None, d) \in SUBSET Keys
  BY <1>3
<1>8. \A k \in Keys \ Uncovered(None, d) : d \notin Copied(k)
  BY <1>3
<1> QED BY <1>1, <1>2, <1>4, <1>5, <1>6, <1>7, <1>8, DocWritten

\* What a writer has before and after one of its writes.
LEMMA WriteSlot ==
    ASSUME IInv, NEW r \in Requests, At(r, "write")
    PROVE  LET q == requests[r]
               d == Head(q.todo)
               rest == Tail(q.todo)
               done == IF rest # <<>> THEN [q EXCEPT !.todo = rest]
                       ELSE [q EXCEPT !.todo = rest, !.op = None, !.pc = "drop"]
           IN /\ q \in Request /\ d \in Docs /\ q.op \in Writers
              /\ Promised(q.op) \subseteq Due(q)
              /\ d = "user" => q.op \in Saving
              /\ done \in Request /\ RequestOK(done) /\ Wrote(done) /\ Due(done) = Due(q)
<1> DEFINE q == requests[r]
           d == Head(q.todo)
           rest == Tail(q.todo)
           done == IF rest # <<>> THEN [q EXCEPT !.todo = rest]
                   ELSE [q EXCEPT !.todo = rest, !.op = None, !.pc = "drop"]
<1>1. /\ q \in Request /\ RequestOK(q) /\ q.pc = "write"
      /\ q.op \in Writers /\ q.todo \in Left(q.op) /\ q.drops # <<>>
      /\ Promised(q.op) \subseteq Due(q)
  BY DEF At, IInv, TypeOK, RequestOK
<1>2. /\ d \in Docs /\ rest \in {<<>>, <<"user">>}
      /\ d = "user" => q.op \in Saving
      /\ rest = <<"user">> => <<"user">> \in Left(q.op)
  <2>1. q.todo \in {<<"lawyer">>, <<"lawyer", "user">>, <<"user">>, <<"category">>}
    BY <1>1 DEF Left
  <2>2. q.op \notin {"updateProfile", "updateById", "verifyLawyer"}
           => q.todo \in {<<"lawyer">>, <<"category">>}
    BY <1>1 DEF Left
  <2>3. q.op \in {"updateProfile", "updateById", "verifyLawyer"} => <<"user">> \in Left(q.op)
    BY DEF Left
  <2>4. \/ d = "lawyer" /\ rest = <<>>
        \/ d = "lawyer" /\ rest = <<"user">>
        \/ d = "user" /\ rest = <<>>
        \/ d = "category" /\ rest = <<>>
    <3>1. /\ \A x : Head(<<x>>) = x /\ Tail(<<x>>) = <<>>
          /\ \A x, y : Head(<<x, y>>) = x /\ Tail(<<x, y>>) = <<y>>
      OBVIOUS
    <3> QED BY <2>1, <3>1
  <2>5. d = "user" \/ rest = <<"user">> => q.op \in Saving
    <3>1. q.todo = <<"lawyer">> => rest = <<>> /\ d = "lawyer"
      OBVIOUS
    <3>2. q.todo = <<"category">> => rest = <<>> /\ d = "category"
      OBVIOUS
    <3>3. <<"user">> # <<>>
      OBVIOUS
    <3> QED BY <2>2, <2>4, <3>1, <3>2, <3>3 DEF Saving
  <2> QED BY <2>3, <2>4, <2>5 DEF Docs, Saving
<1>3. rest \in Seq(Docs)
  <2>1. <<>> \in Seq(Docs)
    OBVIOUS
  <2> QED BY <1>2, <2>1, DocsIn
<1>4. CASE rest = <<>>
  <2> DEFINE p == [q EXCEPT !.todo = rest, !.op = None, !.pc = "drop"]
  <2>1. /\ p \in Request /\ p.pc = "drop" /\ p.drops = q.drops /\ p.found = q.found
    BY <1>1, <1>3 DEF Request
  <2>2. p.found = {}
    BY <1>1, <2>1 DEF RequestOK
  <2>3. p = done
    BY <1>4
  <2> HIDE DEF p
  <2>4. RequestOK(p) /\ Wrote(p)
    BY <1>1, <2>1, <2>2 DEF RequestOK, Wrote
  <2>5. Due(p) = Due(q)
    BY <2>1, DueIs
  <2> QED BY <1>1, <1>2, <2>1, <2>3, <2>4, <2>5
<1>5. CASE rest = <<"user">>
  <2> DEFINE p == [q EXCEPT !.todo = rest]
  <2>1. /\ p \in Request /\ p.pc = "write" /\ p.drops = q.drops /\ p.found = q.found
        /\ p.op = q.op /\ p.todo = <<"user">>
    BY <1>1, <1>3, <1>5 DEF Request
  <2>2. p = done
    BY <1>5
  <2> HIDE DEF p
  <2>3. Due(p) = Due(q)
    BY <2>1, DueIs
  <2>4. RequestOK(p) /\ Wrote(p)
    BY <1>1, <1>2, <1>5, <2>1, <2>3 DEF RequestOK, Wrote
  <2> QED BY <1>1, <1>2, <2>1, <2>2, <2>3, <2>4
<1> QED BY <1>2, <1>4, <1>5

LEMMA WriteNextOK ==
    ASSUME IInv, NEW r \in Requests, WriteNext(r)
    PROVE  IInv'
<1> DEFINE q == requests[r]
           d == Head(q.todo)
           rest == Tail(q.todo)
           done == IF rest # <<>> THEN [q EXCEPT !.todo = rest]
                   ELSE [q EXCEPT !.todo = rest, !.op = None, !.pc = "drop"]
<1>1. At(r, "write") /\ UNCHANGED up
  BY DEF WriteNext
<1>2. /\ q \in Request /\ d \in Docs /\ q.op \in Writers
      /\ Promised(q.op) \subseteq Due(q)
      /\ d = "user" => q.op \in Saving
      /\ done \in Request /\ RequestOK(done) /\ Wrote(done) /\ Due(done) = Due(q)
  BY <1>1, WriteSlot
<1>3. CASE /\ docs' = [docs EXCEPT ![d] = IF q.op \in Deleting THEN "deleted" ELSE "live"]
           /\ AgeEntries(d)
           /\ requests' = [s \in Requests |-> IF s = r THEN done ELSE Aged(requests[s], d)]
           /\ excused' = excused \cup Uncovered(q.op, d)
  <2> HIDE DEF done, d
  <2>1. docs' \in [Docs -> {"absent", "live", "deleted"}]
    BY <1>2, <1>3, Typed
  <2>2. \A s \in Requests :
           /\ requests'[s] \in Request /\ RequestOK(requests'[s])
           /\ Wrote(requests[s]) => Wrote(requests'[s]) /\ Due(requests[s]) \subseteq Due(requests'[s])
    <3> SUFFICES ASSUME NEW s \in Requests
                 PROVE  /\ requests'[s] \in Request /\ RequestOK(requests'[s])
                        /\ Wrote(requests[s]) => /\ Wrote(requests'[s])
                                                 /\ Due(requests[s]) \subseteq Due(requests'[s])
      OBVIOUS
    <3>1. CASE s = r
      BY <1>2, <1>3, <3>1
    <3>2. CASE s # r
      <4>1. requests[s] \in Request /\ RequestOK(requests[s]) /\ requests'[s] = Aged(requests[s], d)
        BY <1>3, <3>2 DEF IInv, TypeOK
      <4> QED BY <1>2, <4>1, AgedIs, AgedOK
    <3> QED BY <3>1, <3>2
  <2>3. requests' \in [Requests -> Request] /\ requests'[r] = done
    BY <1>3, <2>2
  <2>4. Uncovered(q.op, d) \in SUBSET Keys
    BY DEF Uncovered
  <2>5. \A k \in Keys \ Uncovered(q.op, d) : d \in Copied(k) => k \in Due(done)
    BY <1>2 DEF Uncovered
  <2>6. \A k \in Keys \ Uncovered(q.op, d) : d \in Copied(k) =>
           \E s \in Requests : Wrote(requests'[s]) /\ k \in Due(requests'[s])
    BY <1>2, <2>3, <2>5
  <2>7. up' \in BOOLEAN
    BY <1>1, Typed
  <2> QED BY <1>2, <1>3, <2>1, <2>2, <2>3, <2>4, <2>6, <2>7, DocWritten
<1>4. CASE Become(r, done) /\ UNCHANGED <<docs, entries, excused>>
  BY <1>1, <1>2, <1>4, KeepEntries
<1>5. CASE ~Possible(q.op, d) /\ Finish(r) /\ UNCHANGED <<docs, entries, excused>>
  <2>1. d # "user"
    BY <1>2, <1>5 DEF Possible, Saving
  <2>2. ~Wrote(q)
    BY <1>1, <2>1 DEF Wrote, At
  <2> QED BY <1>1, <1>5, <2>2, IdleOK, KeepEntries DEF Finish
<1> QED BY <1>3, <1>4, <1>5 DEF WriteNext

-----------------------------------------------------------------------------
\* The environment.
LEMMA EnvironmentOK ==
    ASSUME IInv, \/ \E k \in Keys : Expire(k)
                 \/ Disconnect \/ Connect \/ UNCHANGED vars
    PROVE  IInv'
<1>1. UNCHANGED <<docs, requests>>
  BY DEF Expire, Disconnect, Connect, vars
<1>2. /\ entries' \in [Keys -> Copies] /\ excused' \subseteq Keys /\ up' \in BOOLEAN
      /\ \A k \in Keys : entries'[k] = None \/ (entries'[k] = entries[k] /\ (k \in excused => k \in excused'))
  <2>1. CASE UNCHANGED <<entries, excused>> /\ up' \in BOOLEAN
    BY <2>1, Typed
  <2>2. CASE \E k \in Keys : Expire(k)
    BY <2>2, Typed, CopiesAre DEF Expire
  <2> QED BY <2>1, <2>2, Typed DEF Disconnect, Connect, vars
<1>3. TypeOK'
  BY <1>1, <1>2 DEF IInv, TypeOK, Copies
<1>4. StaleExplained'
  BY <1>1, <1>2 DEF IInv, StaleExplained, Stale
<1>5. \A r \in Requests : RequestOK(requests'[r])
  BY <1>1 DEF IInv
<1> QED BY <1>3, <1>4, <1>5 DEF IInv

LEMMA FailOK ==
    ASSUME IInv, NEW r \in Requests, Fail(r)
    PROVE  IInv'
<1>1. /\ excused' = excused \cup Due(requests[r]) /\ Become(r, Idle)
      /\ UNCHANGED <<docs, entries, up>>
  BY DEF Fail, Finish
<1>2. Due(requests[r]) \subseteq Keys
  <2>1. /\ requests[r].found \subseteq Keys /\ requests[r].drops \in Seq(Keys \cup Prefixes)
    BY DEF IInv, TypeOK, Request
  <2>2. \A t \in Range(requests[r].drops) : t \in Keys \cup Prefixes
    BY <2>1 DEF Range
  <2> QED BY <2>1, <2>2, DropKeysIs DEF Due
<1>3. \A k \in Keys : Stale(k)' /\ k \notin excused' => OtherDue(r, k)
  BY <1>1 DEF IInv, StaleExplained, OtherDue, Stale
<1> QED BY <1>1, <1>2, <1>3, Typed, IdleOK, SetRequest

-----------------------------------------------------------------------------
LEMMA StepOK == IInv /\ [Next]_vars => IInv'
<1> SUFFICES ASSUME IInv, [Next]_vars PROVE IInv'
  OBVIOUS
<1>1. ASSUME NEW r \in Requests, Read(r) PROVE IInv'
  BY <1>1, ReadersOK, ReadNextOK, SetEntryOK DEF Read
<1>2. ASSUME NEW r \in Requests, Write(r) PROVE IInv'
  BY <1>2, BeginnersOK, WriteNextOK, DropKeyOK, ListKeysOfPrefixOK, DropFoundOK DEF Write
<1> QED BY <1>1, <1>2, FailOK, OtherWriteOK, EnvironmentOK DEF Next

\* The invariant, with the types of documents, entries and requests.
THEOREM Invariance == Spec => []IInv
BY InitIInv, StepOK, PTL DEF Spec

\* CacheManager and its users: an entry that differs from the database has one of the reasons
\* that StaleExplained lists.
THEOREM StaleOnlyAsExplained == Spec => []StaleExplained
<1>1. IInv => StaleExplained
  BY DEF IInv
<1> QED BY <1>1, Invariance, PTL
=============================================================================
