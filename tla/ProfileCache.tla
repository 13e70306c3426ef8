----------------------------- MODULE ProfileCache -----------------------------
(***************************************************************************)
(* The read-through caches of LawyerService and CategoryService: one       *)
(* lawyer with its user, one category, and the Redis keys that hold them.  *)
(* Different lawyers and categories share no key but those of the lists,   *)
(* and a lawyer and a category share none, so a behaviour is about one     *)
(* subject.                                                                *)
(*                                                                         *)
(* A copy of a document is known by whether the document was written after *)
(* the copy was read.  One action is one awaited call, of MongoDB or of    *)
(* Redis; requests interleave and may die between two calls, entries       *)
(* expire at any time and Redis may be out of reach, in which case         *)
(* CacheManager answers null and drops nothing.  A search bypasses the     *)
(* cache and is left out, as is what reads a document back to answer it.   *)
(***************************************************************************)
EXTENDS Sequences, Functions

CONSTANTS
    Requests,       \* requests being served at the same time
    None,           \* null
    RequestsFail,   \* whether a request may die between two calls
    RedisFails      \* whether Redis may be out of reach

ASSUME SwitchAssumption == RequestsFail \in BOOLEAN /\ RedisFails \in BOOLEAN

VARIABLES
    docs,       \* whether each document exists
    entries,    \* what Redis holds under each key: the documents its copy is old in
    up,         \* CacheManager.isConnected
    requests,   \* what each request in flight has read and does next
    excused     \* history: keys whose entry may be old (see StaleExplained)

vars == <<docs, entries, up, requests, excused>>

(***************************************************************************)
(* Documents and keys.  "profile" is lawyer:profile:<user>, "byId" is      *)
(* lawyer:<id>, "name" is category:name:<NAME>; "lawyers", "categories"    *)
(* and "sub" are the entries of lists, dropped by prefix.                  *)
(***************************************************************************)
Docs == {"lawyer", "user", "category"}
LawyerKeys == {"profile", "byId", "lawyers"}
CategoryKeys == {"category", "name", "categories", "sub"}
Keys == LawyerKeys \cup CategoryKeys
ListKeys == {"lawyers", "categories", "sub"}

\* What an entry is made of: a lawyer is populated with its user.
Sources(k) == IF k \in LawyerKeys THEN <<"lawyer", "user">> ELSE <<"category">>
Copied(k) == IF k \in LawyerKeys THEN {"lawyer", "user"} ELSE {"category"}

Live(d) == docs[d] = "live"

Prefixes == {"lawyers:list", "categories*"}
DropKeys(t) ==
    CASE t = "lawyers:list" -> {"lawyers"}
      [] t = "categories*" -> {"categories", "sub"}
      [] OTHER -> {t}

\* Mutant: invalidateCache called without the user's id.
InvalidateCacheNoUser == <<"byId", "lawyers:list">>

\* LawyerService.invalidateCache
InvalidateCache == <<"byId", "profile", "lawyers:list">>

\* An entry that differs from the database.
Stale(k) == entries[k] \notin {None, {}}

(***************************************************************************)
(* Requests.  A reader fills key from the documents left in todo, and old  *)
(* are those written since it read them; a writer writes the documents in  *)
(* todo and then drops what is left in drops; found are the keys that KEYS *)
(* listed and DEL is about to remove.                                      *)
(***************************************************************************)
Writers == {"updateProfile", "updateById", "deleteById", "verifyLawyer",
            "createCategory", "updateCategory", "deleteCategory", "seedCategories"}

ASSUME NoneAssumption == None \notin Docs \cup Keys \cup Writers

Request == [pc: {"idle", "read", "set", "write", "drop", "del"}, key: Keys \cup {None},
            op: Writers \cup {None}, todo: Seq(Docs), old: SUBSET Docs,
            drops: Seq(Keys \cup Prefixes), found: SUBSET Keys]

Idle == [pc |-> "idle", key |-> None, op |-> None, todo |-> <<>>, old |-> {},
         drops |-> <<>>, found |-> {}]

At(r, step) == requests[r].pc = step
Become(r, state) == requests' = [requests EXCEPT ![r] = state]
Finish(r) == Become(r, Idle)

\* The documents that a reader has read.
Held(q) == IF q.pc \in {"read", "set"} THEN Copied(q.key) \ Range(q.todo) ELSE {}

\* The keys that a request is still going to drop.
Due(q) == q.found \cup UNION {DropKeys(t) : t \in Range(q.drops)}

TypeOK ==
    /\ docs \in [Docs -> {"absent", "live", "deleted"}]
    /\ entries \in [Keys -> (SUBSET Docs) \cup {None}]
    /\ up \in BOOLEAN
    /\ requests \in [Requests -> Request]
    /\ excused \subseteq Keys

\* A behaviour is about a lawyer, or about a category that is or is not there yet.
Init ==
    /\ \/ docs = [lawyer |-> "live", user |-> "live", category |-> "absent"]
       \/ \E st \in {"absent", "live"} :
             docs = [lawyer |-> "absent", user |-> "absent", category |-> st]
    /\ entries = [k \in Keys |-> None]
    /\ up = TRUE
    /\ requests = [r \in Requests |-> Idle]
    /\ excused = {}

AboutLawyer == docs["user"] # "absent"

(***************************************************************************)
(* Reading: get the entry, else find, populate and set it.                 *)
(***************************************************************************)
\* CacheManager.get: a hit is the answer, a miss or no Redis leads to the database.
Look(r, k) ==
    /\ At(r, "idle")
    /\ ~up \/ entries[k] = None
    /\ Become(r, [Idle EXCEPT !.pc = "read", !.key = k, !.todo = Sources(k)])
    /\ UNCHANGED <<docs, entries, up, excused>>

GetProfile(r) == AboutLawyer /\ Look(r, "profile")
GetLawyer(r) == AboutLawyer /\ Look(r, "byId")
GetLawyers(r) == AboutLawyer /\ Look(r, "lawyers")
GetCategory(r) == ~AboutLawyer /\ Look(r, "category")
GetByName(r) == ~AboutLawyer /\ Look(r, "name")
GetCategories(r) == ~AboutLawyer /\ Look(r, "categories")
GetSubCategories(r) == ~AboutLawyer /\ Look(r, "sub")

\* find and populate; a document that is not there ends the request, but not in a list.
ReadNext(r) ==
    LET q == requests[r]
        d == Head(q.todo)
        rest == Tail(q.todo)
    IN
    /\ At(r, "read")
    /\ \/ /\ Live(d) \/ q.key \in ListKeys
          /\ Become(r, [q EXCEPT !.todo = rest, !.pc = IF rest = <<>> THEN "set" ELSE "read"])
       \/ ~Live(d) /\ q.key \notin ListKeys /\ Finish(r)
    /\ UNCHANGED <<docs, entries, up, excused>>

\* CacheManager.set: what is set is old if a document was written since it was read.
SetEntry(r) ==
    LET k == requests[r].key
        old == requests[r].old
    IN
    /\ At(r, "set")
    /\ entries' = IF up THEN [entries EXCEPT ![k] = old] ELSE entries
    /\ excused' = IF ~up THEN excused ELSE IF old = {} THEN excused \ {k} ELSE excused \cup {k}
    /\ Finish(r)
    /\ UNCHANGED <<docs, up>>

(***************************************************************************)
(* Writing: the documents first, then the entries.                         *)
(***************************************************************************)
\* What each writer is to invalidate.
Promised(op) ==
    CASE op = "updateProfile" -> {"profile"}
      [] op \in {"updateById", "deleteById", "verifyLawyer"} -> LawyerKeys
      [] op \in {"updateCategory", "deleteCategory"} -> {"category", "categories", "sub"}
      [] op \in {"createCategory", "seedCategories"} -> {"categories", "sub"}
      [] OTHER -> {}

Begin(r, op, todo, drops) ==
    /\ At(r, "idle")
    /\ Become(r, [Idle EXCEPT !.pc = "write", !.op = op, !.todo = todo, !.drops = drops])
    /\ UNCHANGED <<docs, entries, up, excused>>

\* An update saves the lawyer and, when it names fields of the user, updates the user.
Fields == {<<"lawyer">>, <<"lawyer", "user">>}

UpdateProfile(r) == \E f \in Fields : Live("lawyer") /\ Begin(r, "updateProfile", f, <<"profile">>)
UpdateById(r) == \E f \in Fields : Live("lawyer") /\ Begin(r, "updateById", f, InvalidateCache)
DeleteById(r) == Live("lawyer") /\ Begin(r, "deleteById", <<"lawyer">>, InvalidateCache)
VerifyLawyer(r) ==
    Live("lawyer") /\ Begin(r, "verifyLawyer", <<"lawyer", "user">>, InvalidateCache)

CreateCategory(r) ==
    ~AboutLawyer /\ Begin(r, "createCategory", <<"category">>, <<"categories*">>)
UpdateCategory(r) ==
    ~AboutLawyer /\ Begin(r, "updateCategory", <<"category">>, <<"categories*", "category">>)
DeleteCategory(r) ==
    ~AboutLawyer /\ Begin(r, "deleteCategory", <<"category">>, <<"categories*", "category">>)
SeedCategories(r) ==
    ~AboutLawyer /\ Begin(r, "seedCategories", <<"category">>, <<"categories*">>)

\* Whether a write finds what it needs: save() and the findByIdAnd... of a category need the
\* document, create needs a free name, the rest succeeds anyway.  A category once deleted is
\* not seeded again here: it would be another document.
Creating == {"createCategory", "seedCategories"}
Deleting == {"deleteById", "deleteCategory"}
Saving == {"updateProfile", "updateById", "verifyLawyer"}
Possible(op, d) ==
    CASE op \in Saving -> Live(d) \/ d = "user"
      [] op \in {"updateCategory", "deleteCategory"} -> Live(d)
      [] op = "createCategory" -> docs[d] = "absent"
      [] op = "seedCategories" -> docs[d] # "deleted"
      [] OTHER -> TRUE

\* save() writes the paths that were modified, if any, and is_verified is no path of
\* lawyerSchema; an update by id of a document that is gone writes nothing.
MayKeep(op, d) == (op \in Saving /\ d = "lawyer") \/ ~Live(d)
MayChange(op, d) == Live(d) /\ ~(op = "verifyLawyer" /\ d = "lawyer")

\* A write makes every copy of the document old: in entries, and in readers under way.
AgeEntries(d) ==
    entries' = [k \in Keys |->
        IF entries[k] # None /\ d \in Copied(k) THEN entries[k] \cup {d} ELSE entries[k]]

Aged(q, d) == IF d \in Held(q) THEN [q EXCEPT !.old = @ \cup {d}] ELSE q

\* Keys filled from a document that op writes without promising to drop them.
Uncovered(op, d) == {k \in Keys \ Promised(op) : d \in Copied(k)}

WriteNext(r) ==
    LET q == requests[r]
        d == Head(q.todo)
        rest == Tail(q.todo)
        done == IF rest # <<>> THEN [q EXCEPT !.todo = rest]
                ELSE [q EXCEPT !.todo = rest, !.op = None, !.pc = "drop"]
    IN
    /\ At(r, "write")
    /\ \/ /\ Possible(q.op, d) /\ (MayChange(q.op, d) \/ q.op \in Creating)
          /\ docs' = [docs EXCEPT ![d] = IF q.op \in Deleting THEN "deleted" ELSE "live"]
          /\ AgeEntries(d)
          /\ requests' = [s \in Requests |-> IF s = r THEN done ELSE Aged(requests[s], d)]
          /\ excused' = excused \cup Uncovered(q.op, d)
       \/ /\ Possible(q.op, d) /\ MayKeep(q.op, d) /\ q.op \notin Creating
          /\ Become(r, done)
          /\ UNCHANGED <<docs, entries, excused>>
       \/ /\ ~Possible(q.op, d)
          /\ Finish(r)
          /\ UNCHANGED <<docs, entries, excused>>
    /\ UNCHANGED up

\* The writes that invalidate nothing: UsersService.updateUser, and the counters of a lawyer
\* that offers and reviews increment.
OtherWrite ==
    \E d \in {"lawyer", "user"} :
        /\ Live(d)
        /\ AgeEntries(d)
        /\ requests' = [s \in Requests |-> Aged(requests[s], d)]
        /\ excused' = excused \cup Uncovered(None, d)
        /\ UNCHANGED <<docs, up>>

\* Mutant: the first drop is returned, and what follows it is never reached.
AfterDropReturns(q, rest) == Idle

\* What follows a drop: the next one, or the end.
AfterDrop(q, rest) ==
    IF rest = <<>> THEN Idle ELSE [q EXCEPT !.pc = "drop", !.drops = rest, !.found = {}]

\* CacheManager.del; without Redis nothing is dropped and no error is raised.
DropKey(r) ==
    LET q == requests[r]
        k == Head(q.drops)
    IN
    /\ At(r, "drop") /\ k \in Keys
    /\ entries' = IF up THEN [entries EXCEPT ![k] = None] ELSE entries
    /\ excused' = IF up THEN excused \ {k} ELSE excused \cup {k}
    /\ Become(r, AfterDrop(q, Tail(q.drops)))
    /\ UNCHANGED <<docs, up>>

\* CacheManager.delPattern: KEYS first, then DEL of what it listed.
ListKeysOfPrefix(r) ==
    LET q == requests[r]
        rest == Tail(q.drops)
        listed == {k \in DropKeys(Head(q.drops)) : entries[k] # None}
    IN
    /\ At(r, "drop") /\ Head(q.drops) \in Prefixes
    /\ \/ /\ up /\ listed # {}
          /\ Become(r, [q EXCEPT !.pc = "del", !.drops = rest, !.found = listed])
          /\ excused' = excused
       \/ /\ up /\ listed = {}
          /\ Become(r, AfterDrop(q, rest))
          /\ excused' = excused
       \/ /\ ~up
          /\ Become(r, AfterDrop(q, rest))
          /\ excused' = excused \cup DropKeys(Head(q.drops))
    /\ UNCHANGED <<docs, entries, up>>

DropFound(r) ==
    LET q == requests[r] IN
    /\ At(r, "del")
    /\ entries' = IF up THEN [k \in Keys |-> IF k \in q.found THEN None ELSE entries[k]]
                        ELSE entries
    /\ excused' = IF up THEN excused \ q.found ELSE excused \cup q.found
    /\ Become(r, AfterDrop(q, q.drops))
    /\ UNCHANGED <<docs, up>>

(***************************************************************************)
(* The environment.                                                        *)
(***************************************************************************)
\* setex: every entry has a time to live; a restart of Redis loses entries, too.
Expire(k) ==
    /\ entries[k] # None
    /\ entries' = [entries EXCEPT ![k] = None]
    /\ excused' = excused \ {k}
    /\ UNCHANGED <<docs, up, requests>>

\* The events error and connect of the Redis client.
Disconnect == RedisFails /\ up /\ up' = FALSE /\ UNCHANGED <<docs, entries, requests, excused>>
Connect == ~up /\ up' = TRUE /\ UNCHANGED <<docs, entries, requests, excused>>

\* The process exits, or a call throws: what was to be dropped is not.
Fail(r) ==
    /\ RequestsFail
    /\ ~At(r, "idle")
    /\ excused' = excused \cup Due(requests[r])
    /\ Finish(r)
    /\ UNCHANGED <<docs, entries, up>>

Read(r) ==
    \/ GetProfile(r) \/ GetLawyer(r) \/ GetLawyers(r) \/ GetCategory(r)
    \/ GetByName(r) \/ GetCategories(r) \/ GetSubCategories(r)
    \/ ReadNext(r) \/ SetEntry(r)

Write(r) ==
    \/ UpdateProfile(r) \/ UpdateById(r) \/ DeleteById(r) \/ VerifyLawyer(r)
    \/ CreateCategory(r) \/ UpdateCategory(r) \/ DeleteCategory(r) \/ SeedCategories(r)
    \/ WriteNext(r) \/ DropKey(r) \/ ListKeysOfPrefix(r) \/ DropFound(r)

Next ==
    \/ \E r \in Requests : Read(r) \/ Write(r) \/ Fail(r)
    \/ \E k \in Keys : Expire(k)
    \/ OtherWrite \/ Disconnect \/ Connect

Spec == Init /\ [][Next]_vars

(***************************************************************************)
(* Properties.                                                             *)
(***************************************************************************)
\* A writer that has written, and has yet to write the user or to drop entries.
Wrote(q) == q.pc \in {"drop", "del"} \/ (q.pc = "write" /\ Head(q.todo) = "user")

\* An entry that differs from the database has one of these reasons: a writer has written and
\* not come to drop it yet; a reader set it from what it had read before the last write; a
\* writer that does not invalidate it changed the document; the writer died, or Redis was out
\* of reach, before the entry was dropped.
StaleExplained ==
    \A k \in Keys : Stale(k) =>
        k \in excused \/ \E r \in Requests : Wrote(requests[r]) /\ k \in Due(requests[r])

\* What is left of the writes of op.
Left(op) ==
    IF op \in {"updateProfile", "updateById", "verifyLawyer"}
    THEN {<<"lawyer">>, <<"lawyer", "user">>, <<"user">>}
    ELSE IF op = "deleteById" THEN {<<"lawyer">>} ELSE {<<"category">>}

\* What a request is about at each step: a reader knows its key and is due to drop nothing, a
\* writer that has not finished writing is due to drop what it promised.
RequestOK(q) ==
    /\ q.pc = "idle" => q = Idle
    /\ q.pc \in {"read", "set"} => q.key \in Keys /\ q.drops = <<>> /\ q.found = {}
    /\ q.pc = "read" => q.todo # <<>>
    /\ q.pc = "write" => /\ q.op \in Writers /\ q.todo \in Left(q.op)
                         /\ q.drops # <<>> /\ q.found = {} /\ Promised(q.op) \subseteq Due(q)
    /\ q.pc = "drop" => q.drops # <<>> /\ q.found = {}

\* The inductive invariant.
IInv == TypeOK /\ StaleExplained /\ \A r \in Requests : RequestOK(requests[r])
=============================================================================
