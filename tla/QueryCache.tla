----------------------------- MODULE QueryCache -----------------------------
(***************************************************************************)
(* CacheService (app/cache/cache_service.py) for one database connection:  *)
(* the Redis tier (a vector index, an entry per key, a hash of counters)   *)
(* and the PostgreSQL tier (the table query_cache), and the calls that run *)
(* on them at the same time: store, lookup with the background task that   *)
(* counts the hit or the miss, and invalidate of one key or of all.        *)
(*                                                                         *)
(* One action is one command to Redis or one statement to PostgreSQL, with *)
(* the code that runs up to the next one.  A command that was applied but  *)
(* whose reply was lost is its action followed by the failure of the next  *)
(* one.  hit_count is left out: nothing here depends on it.                *)
(*                                                                         *)
(* The table query_cache has no variable, because it never has a row.  The *)
(* only statement that adds one writes :columns::jsonb in a text(), which  *)
(* SQLAlchemy takes for no parameter, so PostgreSQL refuses it every time. *)
(* A SELECT or UPDATE that fails does what one does that finds no row.     *)
(***************************************************************************)
EXTENDS Naturals, Sequences, FiniteSets

CONSTANTS Stores, Lookups, Admins,  \* calls of store, lookup and invalidate
          Keys,                     \* cache keys, one per normalised question
          KeyOf,                    \* the key each call is about
          Similar,                  \* pairs of keys above the threshold
          MaxIndex,                 \* 5000 in the code
          MaxMishaps,               \* a bound on what goes wrong outside the process
          NULL

Tasks == Stores \cup Lookups \cup Admins

ASSUME CacheAssumption ==
    /\ KeyOf \in [Tasks -> Keys]
    /\ Similar \subseteq Keys \X Keys
    /\ MaxIndex \in Nat \ {0}
    /\ MaxMishaps \in Nat
    /\ IsFiniteSet(Stores) /\ IsFiniteSet(Lookups)
    /\ NULL \notin Stores \cup Keys
    /\ Stores \cap Lookups = {} /\ Stores \cap Admins = {} /\ Lookups \cap Admins = {}

VARIABLES
    client,   \* _redis_client and _redis_available
    \* Redis
    index,    \* the keys of the vector index, oldest first
    entry,    \* entry[k]: the store whose result is kept under k, or NULL
    metrics,  \* the counters of the connection
    \* local to one call
    pc,
    redis,    \* redis[t]: did _get_redis return a client?
    copy,     \* copy[t]: the index as it was read
    found,    \* found[t]: the key of the best match, or NULL
    seen,     \* seen[t]: the entry as the hit counter read it, or NULL
    answer,   \* answer[t]: the result lookup t returned, or NULL
    \* history, read by the properties only
    stored,   \* the stores that saved an entry
    before,   \* before[t]: the calls that were over when t began
    mishaps   \* how often something went wrong

tiers   == <<index, entry, metrics>>
locals  == <<redis, copy, found, seen, answer>>
history == <<stored, before, mishaps>>
vars    == <<client, index, entry, metrics,
             pc, redis, copy, found, seen, answer, stored, before, mishaps>>

\* "half" is a counter that stopped between its two increments, "cut" any other
\* call that was cut off.
Over == {"done", "cut", "half", "invalidated", "flushed", "flush_failed"}

Running(t) == pc[t] \notin Over \cup {"client"}

NoCounts == [hits |-> 0, misses |-> 0, total |-> 0]

Init ==
    /\ client = "none"
    /\ index = <<>>
    /\ entry = [k \in Keys |-> NULL]
    /\ metrics = NoCounts
    /\ pc = [t \in Tasks |-> "client"]
    /\ redis = [t \in Tasks |-> FALSE]
    /\ copy = [t \in Tasks |-> <<>>]
    /\ found = [t \in Tasks |-> NULL]
    /\ seen = [t \in Tasks |-> NULL]
    /\ answer = [l \in Lookups |-> NULL]
    /\ stored = {}
    /\ before = [t \in Tasks |-> {}]
    /\ mishaps = 0

Goto(t, l) == pc' = [pc EXCEPT ![t] = l]

Mishap == mishaps < MaxMishaps /\ mishaps' = mishaps + 1

-----------------------------------------------------------------------------
(* _get_redis, the first thing every call does.                            *)

\* Where a call goes once it has a client, or has none.
Enter(t, up) ==
    /\ redis' = [redis EXCEPT ![t] = up]
    /\ \/ t \in Stores  /\ Goto(t, IF up THEN "save_entry" ELSE "insert")
       \/ t \in Lookups /\ Goto(t, IF up THEN "read_index" ELSE "read_rows")
       \/ t \in Admins  /\ Goto(t, IF up THEN "drop_entry" ELSE "deactivate")
       \/ t \in Admins  /\ Goto(t, IF up THEN "drop_index" ELSE "deactivate_all")

Begin(t) == before' = [before EXCEPT ![t] = {o \in Tasks : pc[o] \in Over}]

\* The first caller creates the client and pings.
OpenClient(t) ==
    /\ pc[t] = "client" /\ client = "none"
    /\ client' = "pinging"
    /\ Begin(t)
    /\ Goto(t, "ping")
    /\ UNCHANGED <<tiers, locals, stored, mishaps>>

\* A caller that finds a client takes it, unless it is not known to be available.
UseClient(t) ==
    /\ pc[t] = "client" /\ client # "none"
    /\ Begin(t)
    /\ Enter(t, client = "ready")
    /\ UNCHANGED <<client, tiers, copy, found, seen, answer, stored, mishaps>>

Ping(t) ==
    /\ pc[t] = "ping"
    /\ \/ client' = "ready" /\ Enter(t, TRUE) /\ UNCHANGED mishaps
       \/ client' = "none" /\ Enter(t, FALSE) /\ Mishap
    /\ UNCHANGED <<tiers, copy, found, seen, answer, stored, before>>

-----------------------------------------------------------------------------
(* store                                                                   *)

\* Mutant: the entry holds its own key instead of the result.
SaveEntryNowhere(t) ==
    /\ pc[t] = "save_entry"
    /\ entry' = [entry EXCEPT ![KeyOf[t]] = KeyOf[t]]
    /\ stored' = stored \cup {t}
    /\ Goto(t, "load_index")
    /\ UNCHANGED <<client, index, metrics, locals, before, mishaps>>

SaveEntry(t) ==
    /\ pc[t] = "save_entry"
    /\ entry' = [entry EXCEPT ![KeyOf[t]] = t]
    /\ stored' = stored \cup {t}
    /\ Goto(t, "load_index")
    /\ UNCHANGED <<client, index, metrics, locals, before, mishaps>>

\* store and invalidate read the index to write it back.
LoadIndex(t) ==
    /\ pc[t] = "load_index"
    /\ copy' = [copy EXCEPT ![t] = index]
    /\ Goto(t, IF t \in Stores THEN "save_index" ELSE "trim_index")
    /\ UNCHANGED <<client, tiers, redis, found, seen, answer, history>>

Distinct(s) == \A i, j \in DOMAIN s : s[i] = s[j] => i = j

\* The index without k.  It lists a key once at most, so one place is enough.
Without(s, k) ==
    IF \E i \in DOMAIN s : s[i] = k
    THEN LET p == CHOOSE i \in DOMAIN s : s[i] = k
         IN [i \in 1 .. Len(s) - 1 |-> IF i < p THEN s[i] ELSE s[i + 1]]
    ELSE s

\* Mutant: the oldest MaxIndex keys.
PruneNewest(s) == IF Len(s) > MaxIndex THEN SubSeq(s, 1, MaxIndex) ELSE s

\* The newest MaxIndex keys.
Prune(s) == IF Len(s) > MaxIndex THEN SubSeq(s, Len(s) - MaxIndex + 1, Len(s)) ELSE s

SaveIndex(t) ==
    /\ pc[t] = "save_index"
    /\ index' = Prune(Append(Without(copy[t], KeyOf[t]), KeyOf[t]))
    /\ Goto(t, "insert")
    /\ UNCHANGED <<client, entry, metrics, locals, history>>

\* The INSERT is refused and the error swallowed.
Insert(t) ==
    /\ pc[t] = "insert"
    /\ Goto(t, "done")
    /\ UNCHANGED <<client, tiers, locals, history>>

-----------------------------------------------------------------------------
(* lookup                                                                  *)

\* Mutant: the best match is taken whether it is above the threshold or not.
SearchAnything(t, C) ==
    \/ \E k \in C : /\ found' = [found EXCEPT ![t] = k]
                    /\ Goto(t, "read_entry")
    \/ /\ C = {}
       /\ Goto(t, "count_miss")
       /\ UNCHANGED found

\* The best match among the candidates C, if one is above the threshold; which
\* of several is the best is left to the embeddings.
Search(t, C) ==
    LET good == {k \in C : <<KeyOf[t], k>> \in Similar} IN
    \/ \E k \in good : /\ found' = [found EXCEPT ![t] = k]
                       /\ Goto(t, "read_entry")
    \/ /\ good = {}
       /\ Goto(t, "count_miss")
       /\ UNCHANGED found

\* An empty index sends the lookup to PostgreSQL.
ReadIndex(t) ==
    /\ pc[t] = "read_index"
    /\ IF index = <<>>
       THEN Goto(t, "read_rows") /\ UNCHANGED found
       ELSE Search(t, {index[i] : i \in DOMAIN index})
    /\ UNCHANGED <<client, tiers, redis, copy, seen, answer, history>>

\* No rows, no candidates: a miss, counted if there is a client.
ReadRows(t) ==
    /\ pc[t] = "read_rows"
    /\ Goto(t, IF redis[t] THEN "count_miss" ELSE "done")
    /\ UNCHANGED <<client, tiers, locals, history>>

ReadEntry(t) ==
    /\ pc[t] = "read_entry"
    /\ IF entry[found[t]] # NULL
       THEN /\ answer' = [answer EXCEPT ![t] = entry[found[t]]]
            /\ Goto(t, "count_hit")
       ELSE /\ Goto(t, "read_row")
            /\ UNCHANGED answer
    /\ UNCHANGED <<client, tiers, redis, copy, found, seen, history>>

\* Mutant: a match with no entry is added to the total only.
ReadRowCounted(t) ==
    /\ pc[t] = "read_row"
    /\ Goto(t, "total_miss")
    /\ UNCHANGED <<client, tiers, locals, history>>

\* A match with no entry has no row either, and is counted neither as a hit nor
\* as a miss.
ReadRow(t) ==
    /\ pc[t] = "read_row"
    /\ Goto(t, "done")
    /\ UNCHANGED <<client, tiers, locals, history>>

-----------------------------------------------------------------------------
(* _record_hit and _record_miss: background tasks that a lookup leaves     *)
(* behind.                                                                 *)

Count(t, stage, field, next) ==
    /\ pc[t] = stage
    /\ metrics' = [metrics EXCEPT ![field] = @ + 1]
    /\ Goto(t, next)
    /\ UNCHANGED <<client, index, entry, locals, history>>

CountHit(t)       == Count(t, "count_hit", "hits", "total_hit")
CountHitTotal(t)  == Count(t, "total_hit", "total", "load_entry")
CountMiss(t)      == Count(t, "count_miss", "misses", "total_miss")
CountMissTotal(t) == Count(t, "total_miss", "total", "done")

\* The entry is read, its time to live asked for, and the entry written back.
LoadEntry(t) ==
    /\ pc[t] = "load_entry"
    /\ seen' = [seen EXCEPT ![t] = entry[found[t]]]
    /\ Goto(t, IF entry[found[t]] = NULL THEN "done" ELSE "ask_ttl")
    /\ UNCHANGED <<client, tiers, redis, copy, found, answer, history>>

AskTtl(t) ==
    /\ pc[t] = "ask_ttl"
    /\ Goto(t, IF entry[found[t]] = NULL THEN "done" ELSE "rewrite")
    /\ UNCHANGED <<client, tiers, locals, history>>

Rewrite(t) ==
    /\ pc[t] = "rewrite"
    /\ entry' = [entry EXCEPT ![found[t]] = seen[t]]
    /\ Goto(t, "done")
    /\ UNCHANGED <<client, index, metrics, locals, history>>

-----------------------------------------------------------------------------
(* invalidate, of one key and of the connection                            *)

\* Mutant: the key is deleted without the prefix of the entries.
DropBareKey(t) ==
    /\ pc[t] = "drop_entry"
    /\ Goto(t, "load_index")
    /\ UNCHANGED <<client, tiers, locals, history>>

DropEntry(t) ==
    /\ pc[t] = "drop_entry"
    /\ entry' = [entry EXCEPT ![KeyOf[t]] = NULL]
    /\ Goto(t, "load_index")
    /\ UNCHANGED <<client, index, metrics, locals, history>>

TrimIndex(t) ==
    /\ pc[t] = "trim_index"
    /\ index' = Without(copy[t], KeyOf[t])
    /\ Goto(t, "deactivate_last")
    /\ UNCHANGED <<client, entry, metrics, locals, history>>

\* The UPDATE finds no row.  "invalidated" only if the Redis commands went through.
Deactivate(t) ==
    /\ pc[t] \in {"deactivate", "deactivate_last"}
    /\ Goto(t, IF pc[t] = "deactivate_last" THEN "invalidated" ELSE "done")
    /\ UNCHANGED <<client, tiers, locals, history>>

\* Mutant: a flush drops the counters only.
DropNoIndex(t) ==
    /\ pc[t] = "drop_index"
    /\ Goto(t, "drop_metrics")
    /\ UNCHANGED <<client, tiers, locals, history>>

DropIndex(t) ==
    /\ pc[t] = "drop_index"
    /\ index' = <<>>
    /\ Goto(t, "drop_metrics")
    /\ UNCHANGED <<client, entry, metrics, locals, history>>

DropMetrics(t) ==
    /\ pc[t] = "drop_metrics"
    /\ metrics' = NoCounts
    /\ Goto(t, "deactivate_all_last")
    /\ UNCHANGED <<client, index, entry, locals, history>>

\* The entries of the connection stay in Redis, where no index leads to them.
DeactivateAll(t) ==
    /\ pc[t] \in {"deactivate_all", "deactivate_all_last"}
    /\ Goto(t, IF pc[t] = "deactivate_all_last" THEN "flushed" ELSE "flush_failed")
    /\ UNCHANGED <<client, tiers, locals, history>>

-----------------------------------------------------------------------------
(* Failures.  Every exception is swallowed and the call goes on with the   *)
(* next tier.                                                              *)

RedisFails(t) ==
    /\ \/ pc[t] \in {"save_entry", "save_index"} /\ Goto(t, "insert")
       \/ pc[t] = "load_index" /\ Goto(t, IF t \in Stores THEN "insert" ELSE "deactivate")
       \/ pc[t] = "read_index" /\ Goto(t, "read_rows")
       \/ pc[t] = "read_entry" /\ Goto(t, "read_row")
       \/ pc[t] \in {"count_hit", "count_miss", "load_entry", "ask_ttl", "rewrite"}
          /\ Goto(t, "done")
       \/ pc[t] \in {"total_hit", "total_miss"} /\ Goto(t, "half")
       \/ pc[t] \in {"drop_entry", "trim_index"} /\ Goto(t, "deactivate")
       \/ pc[t] \in {"drop_index", "drop_metrics"} /\ Goto(t, "deactivate_all")
    /\ Mishap
    /\ UNCHANGED <<client, tiers, locals, stored, before>>

\* Where a call is left that goes no further.
Stopped(t) == CASE pc[t] \in {"total_hit", "total_miss"} -> "half"
                [] pc[t] \in {"drop_index", "drop_metrics", "deactivate_all",
                              "deactivate_all_last"}     -> "flush_failed"
                [] OTHER                                 -> "cut"

\* The client of the request leaves: CancelledError is no Exception, so nothing
\* of _get_redis is undone.  A background task is dropped the same way: nothing
\* keeps a reference to it.
Abandon(t) ==
    /\ Running(t)
    /\ Goto(t, Stopped(t))
    /\ Mishap
    /\ UNCHANGED <<client, tiers, locals, stored, before>>

\* The process restarts.
Restart ==
    /\ \E t \in Tasks : Running(t)
    /\ client' = "none"
    /\ pc' = [t \in Tasks |-> IF Running(t) THEN Stopped(t) ELSE pc[t]]
    /\ Mishap
    /\ UNCHANGED <<tiers, locals, stored, before>>

\* A key of Redis reaches the end of its time to live.
ExpireIndex ==
    /\ index # <<>>
    /\ index' = <<>>
    /\ Mishap
    /\ UNCHANGED <<client, entry, metrics, pc, locals, stored, before>>

ExpireEntry(k) ==
    /\ entry[k] # NULL
    /\ entry' = [entry EXCEPT ![k] = NULL]
    /\ Mishap
    /\ UNCHANGED <<client, index, metrics, pc, locals, stored, before>>

-----------------------------------------------------------------------------
Step(t) ==
    \/ OpenClient(t) \/ UseClient(t) \/ Ping(t)
    \/ SaveEntry(t) \/ LoadIndex(t) \/ SaveIndex(t) \/ Insert(t)
    \/ ReadIndex(t) \/ ReadRows(t) \/ ReadEntry(t) \/ ReadRow(t)
    \/ CountHit(t) \/ CountHitTotal(t) \/ CountMiss(t) \/ CountMissTotal(t)
    \/ LoadEntry(t) \/ AskTtl(t) \/ Rewrite(t)
    \/ DropEntry(t) \/ TrimIndex(t) \/ Deactivate(t)
    \/ DropIndex(t) \/ DropMetrics(t) \/ DeactivateAll(t)
    \/ RedisFails(t) \/ Abandon(t)

Next == \/ \E t \in Tasks : Step(t)
        \/ Restart
        \/ ExpireIndex
        \/ \E k \in Keys : ExpireEntry(k)

Spec == Init /\ [][Next]_vars

-----------------------------------------------------------------------------
(* Properties.                                                             *)

Labels == {"client", "ping", "save_entry", "load_index", "save_index", "insert",
           "read_index", "read_rows", "read_entry", "read_row",
           "count_hit", "total_hit", "count_miss", "total_miss",
           "load_entry", "ask_ttl", "rewrite", "drop_entry", "trim_index",
           "deactivate", "deactivate_last", "drop_index", "drop_metrics",
           "deactivate_all", "deactivate_all_last"} \cup Over

TypeOK ==
    /\ client \in {"none", "pinging", "ready"}
    /\ index \in Seq(Keys) /\ Distinct(index)
    /\ entry \in [Keys -> Stores \cup {NULL}]
    /\ metrics \in [{"hits", "misses", "total"} -> Nat]
    /\ pc \in [Tasks -> Labels]
    /\ redis \in [Tasks -> BOOLEAN]
    /\ copy \in [Tasks -> Seq(Keys)] /\ \A t \in Tasks : Distinct(copy[t])
    /\ found \in [Tasks -> Keys \cup {NULL}]
    /\ seen \in [Tasks -> Stores \cup {NULL}]
    /\ answer \in [Lookups -> Stores \cup {NULL}]
    /\ stored \in SUBSET Stores
    /\ before \in [Tasks -> SUBSET Tasks]
    /\ mishaps \in 0..MaxMishaps

\* The keys that were stored after s, which the index lists behind the key of s.
LaterKeys(s) == {KeyOf[o] : o \in {p \in Stores : s \in before[p]}} \ {KeyOf[s]}

\* A result that a store saved in Redis is found by every lookup of its question
\* that begins later, as long as no other store overlapped that one, nothing was
\* invalidated or went wrong, and fewer than MaxIndex other keys were stored
\* since.  Stores that overlap may drop each other's key from the index, and
\* nothing else leads to an entry.
QuietStoresAreFound ==
    \A l \in Lookups, s \in Stores :
        ( /\ s \in before[l] /\ redis[s] /\ KeyOf[l] = KeyOf[s]
          /\ <<KeyOf[s], KeyOf[s]>> \in Similar
          /\ \A o \in Stores \ {s} : o \in before[s] \/ s \in before[o] \/ pc[o] = "client"
          /\ \A a \in Admins : pc[a] = "client"
          /\ mishaps = 0 /\ Cardinality(LaterKeys(s)) < MaxIndex
          /\ pc[l] \in Over ) => answer[l] # NULL

\* What is missing in the total is the counters that are, or stopped, between
\* their two increments, no more and no less, until the connection is flushed.
CountsAddUp ==
    (\A t \in Admins : pc[t] \notin {"deactivate_all_last", "flushed", "flush_failed"}) =>
        metrics.hits + metrics.misses =
            metrics.total
            + Cardinality({t \in Lookups : pc[t] \in {"total_hit", "total_miss", "half"}})

\* A result that was stored before its key was invalidated is not served to a
\* lookup that begins after that, unless another store of the key overlapped the
\* invalidation or came later, or a lookup that overlapped it had a hit on the
\* key to count, which may write the entry back.
InvalidatedIsGone ==
    \A l \in Lookups, i \in Admins, s \in Stores :
        ( /\ answer[l] = s /\ i \in before[l] /\ s \in before[i]
          /\ pc[i] = "invalidated" /\ KeyOf[i] = KeyOf[s] ) =>
            \E o \in Tasks \ before[i] :
                \/ o \in Stores /\ KeyOf[o] = KeyOf[s] /\ pc[o] # "client"
                \/ o \in Lookups /\ found[o] = KeyOf[s] /\ i \notin before[o]

Overlap(o, f) == o # f /\ o \notin before[f] /\ f \notin before[o] /\ pc[o] # "client"

\* "Invalidate (soft-delete) ALL cache entries for the specified connection"
\* (api/v1/cache.py:117): a lookup that begins after a flush that went through
\* gets no result of a store that was over before the flush began, although the
\* entries are still there.  A store or an invalidation that overlapped the flush
\* may write the old index back, and a hit that was being counted the old entry.
FlushedIsGone ==
    \A l \in Lookups, f \in Admins, s \in Stores :
        ( /\ answer[l] = s /\ f \in before[l] /\ s \in before[f] /\ pc[f] = "flushed" ) =>
            \E o \in Tasks : /\ Overlap(o, f)
                             /\ o \in Lookups => found[o] = KeyOf[s]

R == INSTANCE ResultCache

\* A lookup returns the result of a store for a similar question, or nothing.
ServesStoredResults == R!ResultSpec

\* "Atomically increment hit count and metrics" (cache_service.py:249), and
\* "Fraction of queries served from cache [0.0, 1.0]" (api/v1/cache.py:91):
\* what get_metrics reads and divides.
HitRateIsAFraction == metrics.total > 0 => metrics.hits <= metrics.total

\* "optional - gracefully degrades to PG-only mode" (cache_service.py:74), and
\* "Fallback tier: PostgreSQL (persistent, survives restarts)" (:425): a lookup
\* without a Redis client finds what a store of the same question kept.
FallbackFinds ==
    \A l \in Lookups, s \in Stores :
        ( /\ s \in before[l] /\ pc[s] = "done" /\ KeyOf[l] = KeyOf[s]
          /\ <<KeyOf[s], KeyOf[s]>> \in Similar
          /\ pc[l] = "done" /\ ~redis[l]
          /\ \A a \in Admins : pc[a] = "client" ) => answer[l] # NULL
=============================================================================
