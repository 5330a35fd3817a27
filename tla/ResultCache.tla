----------------------------- MODULE ResultCache -----------------------------
(***************************************************************************)
(* What the query cache of one database connection promises: a lookup is   *)
(* answered with nothing, or with the result of a store for a question     *)
(* similar enough to its own.  Which of the stored results it gets, and    *)
(* whether it gets one at all, is left open: results expire, are replaced  *)
(* and are invalidated.                                                    *)
(***************************************************************************)
CONSTANTS Stores, Lookups,  \* the calls of CacheService.store and .lookup
          KeyOf,            \* the cache key of the question of each call
          Similar,          \* pairs of keys above the similarity threshold
          NULL

VARIABLES stored,           \* the calls of store that wrote to a tier
          answer            \* the stored result each lookup returned, or NULL

resultVars == <<stored, answer>>

ResultInit == /\ stored = {}
              /\ answer = [l \in Lookups |-> NULL]

Keep(s) == /\ stored' = stored \cup {s}
           /\ UNCHANGED answer

Serve(l) == /\ answer[l] = NULL
            /\ \E s \in stored : /\ <<KeyOf[l], KeyOf[s]>> \in Similar
                                 /\ answer' = [answer EXCEPT ![l] = s]
            /\ UNCHANGED stored

ResultNext == \/ \E s \in Stores : Keep(s)
              \/ \E l \in Lookups : Serve(l)

ResultSpec == ResultInit /\ [][ResultNext]_resultVars
=============================================================================
