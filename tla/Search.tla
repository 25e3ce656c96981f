------------------------------- MODULE Search -------------------------------
(***************************************************************************)
(* SearchService: answers about prestataires, kept in Redis for a while.   *)
(* invalidateSearchCache has no caller; only time removes an entry.        *)
(***************************************************************************)
EXTENDS Users

CONSTANTS
    Ttl,            \* ticks an entry of each query lives: CACHE_TTL
    Lookups,        \* requests of SearchService
    MaxTook         \* bound: the ticks that pass during one lookup

\* The searches, getPopularCategories and getSuggestions: one query of each
\* kind stands for all, since each has a key of its own.
Queries == {"search", "categories", "suggestions"}

ASSUME SearchAssumption == Ttl \in [Queries -> Nat \ {0}] /\ MaxTook \in Nat

VARIABLES
    cache,      \* cache[q]: the entry of query q
    lookup,     \* lookup[l]: a lookup in progress
    ago         \* history: ticks since a prestataire was last to be listed

searchVars == <<cache, lookup, ago>>

\* The ticks left, 0 when there is no entry, and the prestataires of the
\* answer.  took (history): the ticks its lookup had taken when it stored it.
Entry == [left: Nat, ids: SUBSET Ids, took: Nat]

NoEntry == [left |-> 0, ids |-> {}, took |-> 0]

LookupRequest == [pc: {"idle", "read", "store"}, query: Queries \cup {NoOne},
                  reads: 0..3, found: SUBSET Ids, took: Nat]

IdleLookup == [pc |-> "idle", query |-> NoOne, reads |-> 0, found |-> {}, took |-> 0]

SearchTypeOK ==
    /\ cache \in [Queries -> Entry]
    /\ lookup \in [Lookups -> LookupRequest]
    /\ ago \in [Queries -> [Ids -> Nat]]
    /\ \A l \in Lookups : lookup[l].pc # "idle" => lookup[l].query \in Queries

\* Whom query q lists: active prestataires, a search only those with a
\* complete profile.  That their user may be suspended is not looked at.
Listed(q) ==
    {i \in kept \cap Ids : /\ HasRole(i, "PRESTATAIRE")
                           /\ row[i]["status"] = ACTIVE
                           /\ q = "search" => row[i]["profileCompleted"] = 1}

\* A search counts and then reads; the suggestions are names, categories and
\* cities.
Reads(q) == IF q = "search" THEN 2 ELSE IF q = "categories" THEN 1 ELSE 3

\* Longer than a lookup and the life of its entry together.
LongAgo(q) == Ttl[q] + MaxTook + 1

SearchInit ==
    /\ cache = [q \in Queries |-> NoEntry]
    /\ lookup = [l \in Lookups |-> IdleLookup]
    /\ ago = [q \in Queries |-> [i \in Ids |-> IF i \in Listed(q) THEN 0 ELSE LongAgo(q)]]

\* n ticks have passed; more than LongAgo need not be counted.
Aged(n) ==
    ago' = [q \in Queries |-> [i \in Ids |->
               IF i \in Listed(q)' THEN 0
               ELSE IF ago[q][i] + n > LongAgo(q) THEN LongAgo(q) ELSE ago[q][i] + n]]

-----------------------------------------------------------------------------
\* The entry is missing; an answer from the cache changes nothing.
LookupMiss(l, q) ==
    /\ lookup[l].pc = "idle"
    /\ cache[q].left = 0
    /\ lookup' = [lookup EXCEPT ![l] = [pc |-> "read", query |-> q,
                                        reads |-> Reads(q), found |-> {}, took |-> 0]]
    /\ UNCHANGED cache

\* Mutant: pending prestataires are not filtered out.
LookupReadAll(l) ==
    /\ lookup[l].pc = "read"
    /\ lookup' = [lookup EXCEPT ![l] =
           [lookup[l] EXCEPT !.pc = "store", !.reads = 0, !.found = kept \cap Ids]]
    /\ UNCHANGED cache

\* One SELECT; of a search, only the last gives prestataires.
LookupRead(l) ==
    LET m == lookup[l]
        gives == IF m.query = "search" /\ m.reads > 1 THEN {} ELSE Listed(m.query)
    IN  /\ m.pc = "read"
        /\ lookup' = [lookup EXCEPT ![l] =
               [m EXCEPT !.pc = IF m.reads > 1 THEN "read" ELSE "store",
                         !.reads = IF m.reads > 1 THEN m.reads - 1 ELSE 0,
                         !.found = m.found \cup gives]]
        /\ UNCHANGED cache

\* setex, and the answer
LookupStore(l) ==
    /\ lookup[l].pc = "store"
    /\ cache' = [cache EXCEPT ![lookup[l].query] =
                    [left |-> Ttl[lookup[l].query], ids |-> lookup[l].found,
                     took |-> lookup[l].took]]
    /\ lookup' = [lookup EXCEPT ![l] = IdleLookup]

LookupFail(l) ==
    /\ lookup[l].pc # "idle"
    /\ lookup' = [lookup EXCEPT ![l] = IdleLookup]
    /\ UNCHANGED cache

\* Time passes, also for the lookups in progress: Redis and the database may
\* let them wait.
Tick ==
    /\ \A l \in Lookups : lookup[l].pc # "idle" => lookup[l].took < MaxTook
    /\ lookup' = [l \in Lookups |-> IF lookup[l].pc = "idle" THEN lookup[l]
                                   ELSE [lookup[l] EXCEPT !.took = lookup[l].took + 1]]
    /\ cache' = [q \in Queries |-> IF cache[q].left > 1
                                   THEN [cache[q] EXCEPT !.left = cache[q].left - 1]
                                   ELSE NoEntry]

LookupStep(l) == LookupRead(l) \/ LookupStore(l) \/ LookupFail(l)

-----------------------------------------------------------------------------
(* Properties *)

\* Nothing invalidates an entry, and a slow lookup may store an answer older
\* than the life it gives it.  Still the answer is no older than that life and
\* the time its own lookup took together: it lists nobody who was not to be
\* listed at some moment since, be there rejections, incomplete profiles or
\* deleted accounts meanwhile.  (A comment on invalidateSearchCache says that it
\* is called when a profile changes, which would give a fresher answer.)
AnswersAreRecent ==
    \A q \in Queries : cache[q].left > 0 =>
        \A i \in cache[q].ids : ago[q][i] < Ttl[q] + cache[q].took
=============================================================================
