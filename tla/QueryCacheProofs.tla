-------------------------- MODULE QueryCacheProofs --------------------------
(***************************************************************************)
(* Theorems about QueryCache, for any number of calls and keys, any index  *)
(* bound and any number of mishaps.                                        *)
(***************************************************************************)
EXTENDS QueryCache, FiniteSetTheorems, TLAPS

-----------------------------------------------------------------------------
(* The inductive invariant behind ServesStoredResults.                     *)

\* The types of the variables the argument is about.
ServeType ==
    /\ entry \in [Keys -> Stores \cup {NULL}]
    /\ pc \in [Tasks -> Labels]
    /\ found \in [Tasks -> Keys \cup {NULL}]
    /\ seen \in [Tasks -> Stores \cup {NULL}]
    /\ answer \in [Lookups -> Stores \cup {NULL}]
    /\ stored \in SUBSET Stores

\* What is kept under a key is the result of a store of that key.
TiersOk == \A k \in Keys : entry[k] # NULL => entry[k] \in stored /\ KeyOf[entry[k]] = k

StoreStages == {"save_entry", "save_index", "insert"}

SearchStages == {"read_index", "read_rows"}

MatchStages == {"read_entry", "read_row", "count_hit", "total_hit",
                "load_entry", "ask_ttl", "rewrite"}

MissStages == {"count_miss", "total_miss"}

FlushStages == {"drop_index", "drop_metrics", "deactivate_all", "deactivate_all_last"}

\* A lookup at one of these has not been answered.
AskStages == {"client", "ping", "read_entry", "read_row"} \cup SearchStages

\* What a call knows, by where it is.
CallOk(t) ==
    /\ pc[t] \in StoreStages => t \in Stores
    /\ pc[t] \in SearchStages \cup MatchStages \cup MissStages => t \in Lookups
    /\ pc[t] \in FlushStages => t \in Admins
    /\ pc[t] \in MatchStages => found[t] \in Keys /\ <<KeyOf[t], found[t]>> \in Similar
    /\ pc[t] \in {"ask_ttl", "rewrite"} => seen[t] \in stored /\ KeyOf[seen[t]] = found[t]
    /\ t \in Lookups /\ pc[t] \in AskStages => answer[t] = NULL

ServeInv == ServeType /\ TiersOk /\ \A t \in Tasks : CallOk(t)

LEMMA ServeInit == Init => ServeInv
BY CacheAssumption
   DEF Init, ServeInv, ServeType, TiersOk, CallOk, Labels, Over, Tasks, StoreStages,
       SearchStages, MatchStages, MissStages, FlushStages

\* A match is a key of the threshold relation.
LEMMA SearchFacts ==
    ASSUME NEW t \in Tasks, NEW C, ServeType, Search(t, C)
    PROVE  /\ found' \in [Tasks -> Keys \cup {NULL}]
           /\ pc' \in [Tasks -> Labels]
           /\ pc'[t] = "read_entry" =>
                 found'[t] \in Keys /\ <<KeyOf[t], found'[t]>> \in Similar
           /\ pc'[t] \in {"read_entry", "count_miss"}
           /\ \A o \in Tasks : o # t => pc'[o] = pc[o] /\ found'[o] = found[o]
<1> DEFINE good == {k \in C : <<KeyOf[t], k>> \in Similar}
<1>0. good \subseteq Keys
  BY CacheAssumption DEF Tasks
<1> USE DEF ServeType, Goto, Labels, Over
<1>1. ASSUME NEW k \in good, found' = [found EXCEPT ![t] = k],
             Goto(t, "read_entry")
      PROVE  /\ found' \in [Tasks -> Keys \cup {NULL}]
             /\ pc' \in [Tasks -> Labels]
             /\ found'[t] \in Keys /\ <<KeyOf[t], found'[t]>> \in Similar
             /\ pc'[t] = "read_entry"
             /\ \A o \in Tasks : o # t => pc'[o] = pc[o] /\ found'[o] = found[o]
  BY <1>0, <1>1
<1>2. CASE Goto(t, "count_miss") /\ UNCHANGED found
  BY <1>2
<1>. QED  BY <1>1, <1>2 DEF Search

-----------------------------------------------------------------------------
(* What a step of one call does.                                           *)

\* It leaves the local state of the others alone and forgets no store.
LEMMA OtherCalls ==
    ASSUME NEW t \in Tasks, ServeInv, Step(t), NEW o \in Tasks, o # t
    PROVE  /\ pc'[o] = pc[o] /\ found'[o] = found[o] /\ seen'[o] = seen[o]
           /\ o \in Lookups => answer'[o] = answer[o]
           /\ stored \subseteq stored'
<1> USE DEF ServeInv, ServeType, Goto, tiers, locals, history
<1>1. CASE OpenClient(t)  BY <1>1 DEF OpenClient, Begin
<1>2. CASE UseClient(t)  BY <1>2 DEF UseClient, Begin, Enter
<1>3. CASE Ping(t)  BY <1>3 DEF Ping, Enter
<1>4. CASE SaveEntry(t)  BY <1>4 DEF SaveEntry
<1>5. CASE LoadIndex(t)  BY <1>5 DEF LoadIndex
<1>6. CASE SaveIndex(t)  BY <1>6 DEF SaveIndex
<1>7. CASE Insert(t)  BY <1>7 DEF Insert
<1>8. CASE ReadIndex(t)  BY <1>8, SearchFacts DEF ReadIndex
<1>9. CASE ReadRows(t)  BY <1>9 DEF ReadRows
<1>10. CASE ReadEntry(t)  BY <1>10 DEF ReadEntry
<1>11. CASE ReadRow(t)  BY <1>11 DEF ReadRow
<1>12. CASE CountHit(t)  BY <1>12 DEF CountHit, Count
<1>13. CASE CountHitTotal(t)  BY <1>13 DEF CountHitTotal, Count
<1>14. CASE CountMiss(t)  BY <1>14 DEF CountMiss, Count
<1>15. CASE CountMissTotal(t)  BY <1>15 DEF CountMissTotal, Count
<1>16. CASE LoadEntry(t)  BY <1>16 DEF LoadEntry
<1>17. CASE AskTtl(t)  BY <1>17 DEF AskTtl
<1>18. CASE Rewrite(t)  BY <1>18 DEF Rewrite
<1>19. CASE DropEntry(t)  BY <1>19 DEF DropEntry
<1>20. CASE TrimIndex(t)  BY <1>20 DEF TrimIndex
<1>21. CASE Deactivate(t)  BY <1>21 DEF Deactivate
<1>22. CASE DropIndex(t)  BY <1>22 DEF DropIndex
<1>23. CASE DropMetrics(t)  BY <1>23 DEF DropMetrics
<1>24. CASE DeactivateAll(t)  BY <1>24 DEF DeactivateAll
<1>25. CASE RedisFails(t)  BY <1>25 DEF RedisFails, Mishap
<1>26. CASE Abandon(t)  BY <1>26 DEF Abandon, Mishap, Running, Stopped, Over
<1>. QED
  BY <1>1, <1>2, <1>3, <1>4, <1>5, <1>6, <1>7, <1>8, <1>9, <1>10, <1>11,
     <1>12, <1>13, <1>14, <1>15, <1>16, <1>17, <1>18, <1>19, <1>20, <1>21,
     <1>22, <1>23, <1>24, <1>25, <1>26 DEF Step

\* Types.
LEMMA ServeTypeStep ==
    ASSUME NEW t \in Tasks, ServeInv, Step(t)
    PROVE  ServeType'
<1> USE CacheAssumption DEF ServeInv, ServeType, Goto, tiers, locals, history, Labels, Over, Tasks
<1>0. CallOk(t)
  OBVIOUS
<1>1. CASE OpenClient(t)  BY <1>1 DEF OpenClient, Begin
<1>2. CASE UseClient(t)  BY <1>2 DEF UseClient, Begin, Enter
<1>3. CASE Ping(t)  BY <1>3 DEF Ping, Enter
<1>4. CASE SaveEntry(t)  BY <1>4, <1>0 DEF SaveEntry, CallOk, StoreStages
<1>5. CASE LoadIndex(t)  BY <1>5 DEF LoadIndex
<1>6. CASE SaveIndex(t)  BY <1>6 DEF SaveIndex
<1>7. CASE Insert(t)  BY <1>7, <1>0 DEF Insert, CallOk, StoreStages
<1>8. CASE ReadIndex(t)  BY <1>8, SearchFacts DEF ReadIndex
<1>9. CASE ReadRows(t)  BY <1>9 DEF ReadRows
<1>10. CASE ReadEntry(t)  BY <1>10, <1>0 DEF ReadEntry, CallOk, MatchStages
<1>11. CASE ReadRow(t)  BY <1>11, <1>0 DEF ReadRow, CallOk, MatchStages
<1>12. CASE CountHit(t)  BY <1>12 DEF CountHit, Count
<1>13. CASE CountHitTotal(t)  BY <1>13 DEF CountHitTotal, Count
<1>14. CASE CountMiss(t)  BY <1>14 DEF CountMiss, Count
<1>15. CASE CountMissTotal(t)  BY <1>15 DEF CountMissTotal, Count
<1>16. CASE LoadEntry(t)  BY <1>16, <1>0 DEF LoadEntry, CallOk, MatchStages
<1>17. CASE AskTtl(t)  BY <1>17 DEF AskTtl
<1>18. CASE Rewrite(t)  BY <1>18, <1>0 DEF Rewrite, CallOk, MatchStages
<1>19. CASE DropEntry(t)  BY <1>19 DEF DropEntry
<1>20. CASE TrimIndex(t)  BY <1>20 DEF TrimIndex
<1>21. CASE Deactivate(t)  BY <1>21 DEF Deactivate
<1>22. CASE DropIndex(t)  BY <1>22 DEF DropIndex
<1>23. CASE DropMetrics(t)  BY <1>23 DEF DropMetrics
<1>24. CASE DeactivateAll(t)  BY <1>24 DEF DeactivateAll
<1>25. CASE RedisFails(t)  BY <1>25 DEF RedisFails, Mishap
<1>26. CASE Abandon(t)  BY <1>26 DEF Abandon, Mishap, Running, Stopped, Over
<1>. QED
  BY <1>1, <1>2, <1>3, <1>4, <1>5, <1>6, <1>7, <1>8, <1>9, <1>10, <1>11,
     <1>12, <1>13, <1>14, <1>15, <1>16, <1>17, <1>18, <1>19, <1>20, <1>21,
     <1>22, <1>23, <1>24, <1>25, <1>26 DEF Step

\* The tiers.
LEMMA TiersStep ==
    ASSUME NEW t \in Tasks, ServeInv, Step(t)
    PROVE  TiersOk'
<1> USE CacheAssumption DEF ServeInv, ServeType, TiersOk, tiers, locals, history, Tasks
<1>0. CallOk(t)
  OBVIOUS
<1>1. CASE OpenClient(t)  BY <1>1 DEF OpenClient, Begin
<1>2. CASE UseClient(t)  BY <1>2 DEF UseClient, Begin, Enter
<1>3. CASE Ping(t)  BY <1>3 DEF Ping, Enter
<1>4. CASE SaveEntry(t)  BY <1>4, <1>0 DEF SaveEntry, CallOk, StoreStages
<1>5. CASE LoadIndex(t)  BY <1>5 DEF LoadIndex
<1>6. CASE SaveIndex(t)  BY <1>6 DEF SaveIndex
<1>7. CASE Insert(t)  BY <1>7, <1>0 DEF Insert, CallOk, StoreStages
<1>8. CASE ReadIndex(t)  BY <1>8 DEF ReadIndex
<1>9. CASE ReadRows(t)  BY <1>9 DEF ReadRows
<1>10. CASE ReadEntry(t)  BY <1>10, <1>0 DEF ReadEntry
<1>11. CASE ReadRow(t)  BY <1>11, <1>0 DEF ReadRow
<1>12. CASE CountHit(t)  BY <1>12 DEF CountHit, Count
<1>13. CASE CountHitTotal(t)  BY <1>13 DEF CountHitTotal, Count
<1>14. CASE CountMiss(t)  BY <1>14 DEF CountMiss, Count
<1>15. CASE CountMissTotal(t)  BY <1>15 DEF CountMissTotal, Count
<1>16. CASE LoadEntry(t)  BY <1>16, <1>0 DEF LoadEntry
<1>17. CASE AskTtl(t)  BY <1>17 DEF AskTtl
<1>18. CASE Rewrite(t)  BY <1>18, <1>0 DEF Rewrite, CallOk, MatchStages
<1>19. CASE DropEntry(t)  BY <1>19 DEF DropEntry
<1>20. CASE TrimIndex(t)  BY <1>20 DEF TrimIndex
<1>21. CASE Deactivate(t)  BY <1>21 DEF Deactivate
<1>22. CASE DropIndex(t)  BY <1>22 DEF DropIndex
<1>23. CASE DropMetrics(t)  BY <1>23 DEF DropMetrics
<1>24. CASE DeactivateAll(t)  BY <1>24 DEF DeactivateAll
<1>25. CASE RedisFails(t)  BY <1>25 DEF RedisFails, Mishap
<1>26. CASE Abandon(t)  BY <1>26 DEF Abandon, Mishap, Running, Stopped, Over
<1>. QED
  BY <1>1, <1>2, <1>3, <1>4, <1>5, <1>6, <1>7, <1>8, <1>9, <1>10, <1>11,
     <1>12, <1>13, <1>14, <1>15, <1>16, <1>17, <1>18, <1>19, <1>20, <1>21,
     <1>22, <1>23, <1>24, <1>25, <1>26 DEF Step

\* The call itself.
LEMMA CallStep ==
    ASSUME NEW t \in Tasks, ServeInv, Step(t)
    PROVE  CallOk(t)'
<1> USE CacheAssumption
    DEF ServeInv, ServeType, TiersOk, CallOk, Goto, tiers, locals, history, Tasks,
        StoreStages, SearchStages, MatchStages, MissStages, FlushStages,
       AskStages
<1>1. CASE OpenClient(t)  BY <1>1 DEF OpenClient, Begin
<1>2. CASE UseClient(t)  BY <1>2 DEF UseClient, Begin, Enter
<1>3. CASE Ping(t)  BY <1>3 DEF Ping, Enter
<1>4. CASE SaveEntry(t)  BY <1>4 DEF SaveEntry
<1>5. CASE LoadIndex(t)  BY <1>5 DEF LoadIndex
<1>6. CASE SaveIndex(t)  BY <1>6 DEF SaveIndex
<1>7. CASE Insert(t)  BY <1>7 DEF Insert
<1>8. CASE ReadIndex(t)
  <2>1. CASE index = <<>>
    BY <1>8, <2>1 DEF ReadIndex
  <2>2. CASE index # <<>>
    <3>1. Search(t, {index[i] : i \in DOMAIN index})
      BY <1>8, <2>2 DEF ReadIndex
    <3>. QED  BY <1>8, <3>1, SearchFacts DEF ReadIndex
  <2>. QED  BY <2>1, <2>2
<1>9. CASE ReadRows(t)  BY <1>9 DEF ReadRows
<1>10. CASE ReadEntry(t)  BY <1>10 DEF ReadEntry
<1>11. CASE ReadRow(t)  BY <1>11 DEF ReadRow
<1>12. CASE CountHit(t)  BY <1>12 DEF CountHit, Count
<1>13. CASE CountHitTotal(t)  BY <1>13 DEF CountHitTotal, Count
<1>14. CASE CountMiss(t)  BY <1>14 DEF CountMiss, Count
<1>15. CASE CountMissTotal(t)  BY <1>15 DEF CountMissTotal, Count
<1>16. CASE LoadEntry(t)  BY <1>16 DEF LoadEntry
<1>17. CASE AskTtl(t)  BY <1>17 DEF AskTtl
<1>18. CASE Rewrite(t)  BY <1>18 DEF Rewrite
<1>19. CASE DropEntry(t)  BY <1>19 DEF DropEntry
<1>20. CASE TrimIndex(t)  BY <1>20 DEF TrimIndex
<1>21. CASE Deactivate(t)  BY <1>21 DEF Deactivate
<1>22. CASE DropIndex(t)  BY <1>22 DEF DropIndex
<1>23. CASE DropMetrics(t)  BY <1>23 DEF DropMetrics
<1>24. CASE DeactivateAll(t)  BY <1>24 DEF DeactivateAll
<1>25. CASE RedisFails(t)  BY <1>25 DEF RedisFails, Mishap
<1>26. CASE Abandon(t)  BY <1>26 DEF Abandon, Mishap, Running, Stopped, Over
<1>. QED
  BY <1>1, <1>2, <1>3, <1>4, <1>5, <1>6, <1>7, <1>8, <1>9, <1>10, <1>11,
     <1>12, <1>13, <1>14, <1>15, <1>16, <1>17, <1>18, <1>19, <1>20, <1>21,
     <1>22, <1>23, <1>24, <1>25, <1>26 DEF Step

LEMMA ServeStep ==
    ASSUME NEW t \in Tasks, ServeInv, Step(t)
    PROVE  ServeInv'
<1>1. ASSUME NEW o \in Tasks, o # t PROVE CallOk(o)'
  <2>1. CallOk(o)
    BY DEF ServeInv
  <2>. QED  BY <1>1, <2>1, OtherCalls DEF CallOk
<1>2. \A o \in Tasks : CallOk(o)'
  BY <1>1, CallStep
<1>. QED  BY <1>2, ServeTypeStep, TiersStep DEF ServeInv

\* Restarts and expiry.
LEMMA ServeWorld ==
    ASSUME ServeInv,
           Restart \/ ExpireIndex \/ \E k \in Keys : ExpireEntry(k)
    PROVE  ServeInv' /\ UNCHANGED <<stored, answer>>
<1> USE DEF ServeInv, ServeType, TiersOk, tiers, locals
<1>1. CASE Restart
  <2> USE <1>1 DEF Restart, Mishap
  <2>1. \A t \in Tasks : pc'[t] = IF Running(t) THEN Stopped(t) ELSE pc[t]
    OBVIOUS
  <2>2. \A t \in Tasks : Stopped(t) \in {"half", "flush_failed", "cut"}
    BY DEF Stopped
  <2>3. pc' \in [Tasks -> Labels]
    BY <2>2 DEF Labels, Over
  <2>4. ASSUME NEW t \in Tasks PROVE CallOk(t)'
    BY <2>1, <2>2, CallOk(t) DEF CallOk, StoreStages, SearchStages, MatchStages, MissStages, FlushStages,
       AskStages
  <2>. QED  BY <2>3, <2>4
<1>2. CASE ExpireIndex
  BY <1>2 DEF ExpireIndex, CallOk, Mishap
<1>3. ASSUME NEW k \in Keys, ExpireEntry(k) PROVE ServeInv' /\ UNCHANGED <<stored, answer>>
  BY <1>3 DEF ExpireEntry, CallOk, Mishap
<1>. QED  BY <1>1, <1>2, <1>3

LEMMA ServeNext == ServeInv /\ [Next]_vars => ServeInv'
<1> SUFFICES ASSUME ServeInv, [Next]_vars PROVE ServeInv'
  OBVIOUS
<1>1. CASE UNCHANGED vars
  BY <1>1 DEF vars, ServeInv, ServeType, TiersOk, CallOk
<1>. QED  BY <1>1, ServeStep, ServeWorld DEF Next

-----------------------------------------------------------------------------
(* The refinement.                                                         *)

LEMMA ServeRefines ==
    ASSUME NEW t \in Tasks, ServeInv, Step(t)
    PROVE  [R!ResultNext]_R!resultVars
<1> USE DEF tiers, locals, history, R!ResultNext, R!resultVars
<1>1. CASE OpenClient(t)  BY <1>1 DEF OpenClient
<1>2. CASE UseClient(t)  BY <1>2 DEF UseClient
<1>3. CASE Ping(t)  BY <1>3 DEF Ping
<1>4. CASE SaveEntry(t)
  <2>1. t \in Stores
    BY <1>4 DEF SaveEntry, ServeInv, CallOk, StoreStages
  <2>. QED  BY <1>4, <2>1 DEF SaveEntry, R!Keep
<1>5. CASE LoadIndex(t)  BY <1>5 DEF LoadIndex
<1>6. CASE SaveIndex(t)  BY <1>6 DEF SaveIndex
<1>7. CASE Insert(t)  BY <1>7 DEF Insert
<1>8. CASE ReadIndex(t)  BY <1>8 DEF ReadIndex
<1>9. CASE ReadRows(t)  BY <1>9 DEF ReadRows
<1>10. CASE ReadEntry(t)
  <2>1. /\ t \in Lookups /\ found[t] \in Keys /\ answer[t] = NULL
        /\ <<KeyOf[t], found[t]>> \in Similar
    BY <1>10 DEF ReadEntry, ServeInv, CallOk, MatchStages, AskStages
  <2>2. CASE entry[found[t]] # NULL
    <3>1. entry[found[t]] \in stored /\ KeyOf[entry[found[t]]] = found[t]
      BY <2>1, <2>2 DEF ServeInv, TiersOk
    <3>2. R!Serve(t)
      BY <1>10, <2>1, <2>2, <3>1 DEF ReadEntry, R!Serve
    <3>. QED  BY <2>1, <3>2
  <2>. QED  BY <1>10, <2>2 DEF ReadEntry
<1>11. CASE ReadRow(t)  BY <1>11 DEF ReadRow
<1>12. CASE CountHit(t)  BY <1>12 DEF CountHit, Count
<1>13. CASE CountHitTotal(t)  BY <1>13 DEF CountHitTotal, Count
<1>14. CASE CountMiss(t)  BY <1>14 DEF CountMiss, Count
<1>15. CASE CountMissTotal(t)  BY <1>15 DEF CountMissTotal, Count
<1>16. CASE LoadEntry(t)  BY <1>16 DEF LoadEntry
<1>17. CASE AskTtl(t)  BY <1>17 DEF AskTtl
<1>18. CASE Rewrite(t)  BY <1>18 DEF Rewrite
<1>19. CASE DropEntry(t)  BY <1>19 DEF DropEntry
<1>20. CASE TrimIndex(t)  BY <1>20 DEF TrimIndex
<1>21. CASE Deactivate(t)  BY <1>21 DEF Deactivate
<1>22. CASE DropIndex(t)  BY <1>22 DEF DropIndex
<1>23. CASE DropMetrics(t)  BY <1>23 DEF DropMetrics
<1>24. CASE DeactivateAll(t)  BY <1>24 DEF DeactivateAll
<1>25. CASE RedisFails(t)  BY <1>25 DEF RedisFails
<1>26. CASE Abandon(t)  BY <1>26 DEF Abandon
<1>. QED
  BY <1>1, <1>2, <1>3, <1>4, <1>5, <1>6, <1>7, <1>8, <1>9, <1>10, <1>11,
     <1>12, <1>13, <1>14, <1>15, <1>16, <1>17, <1>18, <1>19, <1>20, <1>21,
     <1>22, <1>23, <1>24, <1>25, <1>26 DEF Step

\* A lookup returns the result of a store for a similar question, or nothing,
\* whatever stores, invalidations, counters, failures and restarts do to the two
\* tiers meanwhile: every step of the cache is a step of ResultCache or leaves
\* what it keeps and serves as it was.
THEOREM ServeTheorem == Spec => ServesStoredResults
<1>1. Init => R!ResultInit
  BY DEF Init, R!ResultInit
<1>2. ServeInv /\ [Next]_vars => [R!ResultNext]_R!resultVars
  <2> SUFFICES ASSUME ServeInv, [Next]_vars PROVE [R!ResultNext]_R!resultVars
    OBVIOUS
  <2>1. CASE UNCHANGED vars
    BY <2>1 DEF vars, R!resultVars
  <2>. QED  BY <2>1, ServeRefines, ServeWorld DEF Next, R!resultVars
<1>. QED  BY <1>1, <1>2, ServeInit, ServeNext, PTL DEF Spec, ServesStoredResults, R!ResultSpec

-----------------------------------------------------------------------------
(* The counters.                                                           *)

Between == {"total_hit", "total_miss", "half"}

\* The counters that are, or stopped, between their two increments.
Halves == {t \in Lookups : pc[t] \in Between}

Unflushed == \A t \in Admins : pc[t] \notin {"deactivate_all_last", "flushed", "flush_failed"}

MetricsType == metrics \in [{"hits", "misses", "total"} -> Nat]

LEMMA HalvesFinite == IsFiniteSet(Halves)
BY CacheAssumption, FS_Subset DEF Halves

\* A step that neither counts nor moves a call into or out of the counting
\* stages.
LEMMA NoCounting ==
    ASSUME ServeInv, UNCHANGED metrics,
           \A t \in Lookups : pc'[t] \in Between <=> pc[t] \in Between
    PROVE  UNCHANGED <<metrics, Halves>>
BY DEF Halves

\* The first increment.
LEMMA CountFirst ==
    ASSUME NEW t \in Lookups, ServeInv, MetricsType, pc[t] \notin Between,
           NEW field \in {"hits", "misses"}, NEW next \in Between,
           metrics' = [metrics EXCEPT ![field] = @ + 1], Goto(t, next)
    PROVE  /\ MetricsType'
           /\ metrics'.hits + metrics'.misses = metrics.hits + metrics.misses + 1
           /\ metrics'.total = metrics.total
           /\ Cardinality(Halves') = Cardinality(Halves) + 1
<1>1. Halves' = Halves \cup {t} /\ t \notin Halves
  BY DEF Halves, Goto, ServeInv, ServeType, Tasks
<1>2. Cardinality(Halves') = Cardinality(Halves) + 1
  BY <1>1, HalvesFinite, FS_AddElement
<1>3. /\ MetricsType' /\ metrics'.total = metrics.total
      /\ metrics'.hits + metrics'.misses = metrics.hits + metrics.misses + 1
  BY DEF MetricsType
<1>. QED  BY <1>2, <1>3

\* The second increment.
LEMMA CountSecond ==
    ASSUME NEW t \in Lookups, ServeInv, MetricsType, pc[t] \in Between,
           NEW next, next \notin Between,
           metrics' = [metrics EXCEPT !["total"] = @ + 1], Goto(t, next)
    PROVE  /\ MetricsType'
           /\ metrics'.hits + metrics'.misses = metrics.hits + metrics.misses
           /\ metrics'.total = metrics.total + 1
           /\ Cardinality(Halves) = Cardinality(Halves') + 1
<1>1. Halves = Halves' \cup {t} /\ t \notin Halves'
  BY DEF Halves, Goto, ServeInv, ServeType, Tasks
<1>2. IsFiniteSet(Halves')
  BY <1>1, HalvesFinite, FS_Subset
<1>3. Cardinality(Halves) = Cardinality(Halves') + 1
  BY <1>1, <1>2, FS_AddElement
<1>4. /\ MetricsType' /\ metrics'.total = metrics.total + 1
      /\ metrics'.hits + metrics'.misses = metrics.hits + metrics.misses
  BY DEF MetricsType
<1>. QED  BY <1>3, <1>4

CountInv == /\ ServeInv
            /\ MetricsType
            /\ CountsAddUp

\* What each step means to the counters.
Quiet == UNCHANGED metrics /\ \A t \in Lookups : pc'[t] \in Between <=> pc[t] \in Between

LEMMA QuietStep ==
    ASSUME NEW t \in Tasks, ServeInv, Step(t),
           ~CountHit(t), ~CountHitTotal(t), ~CountMiss(t), ~CountMissTotal(t), ~DropMetrics(t)
    PROVE  Quiet
<1>0. \A o \in Lookups : o # t => pc'[o] = pc[o]
  BY OtherCalls DEF Tasks
<1>a. Lookups \subseteq Tasks
  BY DEF Tasks
<1> USE DEF ServeInv, ServeType, CallOk, Goto, tiers, locals, history, Between, Quiet
<1> SUFFICES UNCHANGED metrics /\ (pc'[t] \in Between <=> pc[t] \in Between)
  BY <1>0
<1>1. CASE OpenClient(t)  BY <1>1 DEF OpenClient, Begin
<1>2. CASE UseClient(t)  BY <1>2 DEF UseClient, Begin, Enter
<1>3. CASE Ping(t)  BY <1>3 DEF Ping, Enter
<1>4. CASE SaveEntry(t)  BY <1>4 DEF SaveEntry
<1>5. CASE LoadIndex(t)  BY <1>5 DEF LoadIndex
<1>6. CASE SaveIndex(t)  BY <1>6 DEF SaveIndex
<1>7. CASE Insert(t)  BY <1>7 DEF Insert
<1>8. CASE ReadIndex(t)
  <2>1. CASE index = <<>>
    BY <1>8, <2>1 DEF ReadIndex
  <2>2. CASE index # <<>>
    <3>1. Search(t, {index[i] : i \in DOMAIN index})
      BY <1>8, <2>2 DEF ReadIndex
    <3>. QED  BY <1>8, <3>1, SearchFacts DEF ReadIndex
  <2>. QED  BY <2>1, <2>2
<1>9. CASE ReadRows(t)  BY <1>9 DEF ReadRows
<1>10. CASE ReadEntry(t)  BY <1>10 DEF ReadEntry
<1>11. CASE ReadRow(t)  BY <1>11 DEF ReadRow
<1>12. CASE CountHit(t)  BY <1>12
<1>13. CASE CountHitTotal(t)  BY <1>13
<1>14. CASE CountMiss(t)  BY <1>14
<1>15. CASE CountMissTotal(t)  BY <1>15
<1>16. CASE LoadEntry(t)  BY <1>16 DEF LoadEntry
<1>17. CASE AskTtl(t)  BY <1>17 DEF AskTtl
<1>18. CASE Rewrite(t)  BY <1>18 DEF Rewrite
<1>19. CASE DropEntry(t)  BY <1>19 DEF DropEntry
<1>20. CASE TrimIndex(t)  BY <1>20 DEF TrimIndex
<1>21. CASE Deactivate(t)  BY <1>21 DEF Deactivate
<1>22. CASE DropIndex(t)  BY <1>22 DEF DropIndex
<1>23. CASE DropMetrics(t)  BY <1>23
<1>24. CASE DeactivateAll(t)  BY <1>24 DEF DeactivateAll
<1>25. CASE RedisFails(t)  BY <1>25 DEF RedisFails, Mishap
<1>26. CASE Abandon(t)  BY <1>26 DEF Abandon, Mishap, Running, Stopped, Over
<1>. QED
  BY <1>1, <1>2, <1>3, <1>4, <1>5, <1>6, <1>7, <1>8, <1>9, <1>10, <1>11,
     <1>12, <1>13, <1>14, <1>15, <1>16, <1>17, <1>18, <1>19, <1>20, <1>21,
     <1>22, <1>23, <1>24, <1>25, <1>26 DEF Step

\* A flush that has come as far as the counters is not undone.
LEMMA UnflushedBefore ==
    ASSUME NEW t \in Tasks, ServeInv, Step(t), Unflushed'
    PROVE  Unflushed
<1> SUFFICES ASSUME NEW a \in Admins,
                    pc[a] \in {"deactivate_all_last", "flushed", "flush_failed"}
             PROVE  pc'[a] \in {"deactivate_all_last", "flushed", "flush_failed"}
  BY DEF Unflushed
<1>0. CASE a # t
  BY <1>0, OtherCalls DEF Tasks
<1> SUFFICES ASSUME a = t
             PROVE  pc'[t] \in {"deactivate_all_last", "flushed", "flush_failed"}
  BY <1>0
<1> USE DEF ServeInv, ServeType, Goto, tiers, locals, history
<1>1. CASE OpenClient(t)  BY <1>1 DEF OpenClient, Begin
<1>2. CASE UseClient(t)  BY <1>2 DEF UseClient, Begin, Enter
<1>3. CASE Ping(t)  BY <1>3 DEF Ping, Enter
<1>4. CASE SaveEntry(t)  BY <1>4 DEF SaveEntry
<1>5. CASE LoadIndex(t)  BY <1>5 DEF LoadIndex
<1>6. CASE SaveIndex(t)  BY <1>6 DEF SaveIndex
<1>7. CASE Insert(t)  BY <1>7 DEF Insert
<1>8. CASE ReadIndex(t)  BY <1>8 DEF ReadIndex, Search
<1>9. CASE ReadRows(t)  BY <1>9 DEF ReadRows
<1>10. CASE ReadEntry(t)  BY <1>10 DEF ReadEntry
<1>11. CASE ReadRow(t)  BY <1>11 DEF ReadRow
<1>12. CASE CountHit(t)  BY <1>12 DEF CountHit, Count
<1>13. CASE CountHitTotal(t)  BY <1>13 DEF CountHitTotal, Count
<1>14. CASE CountMiss(t)  BY <1>14 DEF CountMiss, Count
<1>15. CASE CountMissTotal(t)  BY <1>15 DEF CountMissTotal, Count
<1>16. CASE LoadEntry(t)  BY <1>16 DEF LoadEntry
<1>17. CASE AskTtl(t)  BY <1>17 DEF AskTtl
<1>18. CASE Rewrite(t)  BY <1>18 DEF Rewrite
<1>19. CASE DropEntry(t)  BY <1>19 DEF DropEntry
<1>20. CASE TrimIndex(t)  BY <1>20 DEF TrimIndex
<1>21. CASE Deactivate(t)  BY <1>21 DEF Deactivate
<1>22. CASE DropIndex(t)  BY <1>22 DEF DropIndex
<1>23. CASE DropMetrics(t)  BY <1>23 DEF DropMetrics
<1>24. CASE DeactivateAll(t)  BY <1>24 DEF DeactivateAll
<1>25. CASE RedisFails(t)  BY <1>25 DEF RedisFails, Mishap
<1>26. CASE Abandon(t)  BY <1>26 DEF Abandon, Mishap, Running, Stopped, Over
<1>. QED
  BY <1>1, <1>2, <1>3, <1>4, <1>5, <1>6, <1>7, <1>8, <1>9, <1>10, <1>11,
     <1>12, <1>13, <1>14, <1>15, <1>16, <1>17, <1>18, <1>19, <1>20, <1>21,
     <1>22, <1>23, <1>24, <1>25, <1>26 DEF Step

LEMMA CountStep ==
    ASSUME NEW t \in Tasks, CountInv, Step(t)
    PROVE  CountInv'
<1>0. ServeInv' /\ ServeInv /\ MetricsType /\ CallOk(t)
  BY ServeStep DEF CountInv, ServeInv
<1>1. CASE Quiet
  <2>1. UNCHANGED <<metrics, Halves>>
    BY <1>0, <1>1, NoCounting DEF Quiet
  <2>2. Unflushed' => Unflushed
    BY <1>0, UnflushedBefore
  <2>. QED  BY <1>0, <2>1, <2>2
            DEF CountInv, CountsAddUp, MetricsType, Halves, Between, Unflushed
<1>2. ASSUME NEW field \in {"hits", "misses"}, NEW next \in Between, t \in Lookups,
             pc[t] \notin Between, metrics' = [metrics EXCEPT ![field] = @ + 1], Goto(t, next)
      PROVE  CountInv'
  <2>1. /\ MetricsType' /\ metrics'.total = metrics.total
        /\ metrics'.hits + metrics'.misses = metrics.hits + metrics.misses + 1
        /\ Cardinality(Halves') = Cardinality(Halves) + 1
    BY <1>0, <1>2, CountFirst
  <2>2. Unflushed' => Unflushed
    BY <1>0, UnflushedBefore
  <2>3. Cardinality(Halves) \in Nat
    BY HalvesFinite, FS_CardinalityType
  <2>4. CountsAddUp'
    BY <2>1, <2>2, <2>3, <1>0
       DEF CountInv, CountsAddUp, MetricsType, Halves, Between, Unflushed
  <2>. QED  BY <1>0, <2>1, <2>4 DEF CountInv
<1>3. ASSUME NEW next, next \notin Between, t \in Lookups,
             pc[t] \in Between, metrics' = [metrics EXCEPT !["total"] = @ + 1], Goto(t, next)
      PROVE  CountInv'
  <2>1. /\ MetricsType' /\ metrics'.total = metrics.total + 1
        /\ metrics'.hits + metrics'.misses = metrics.hits + metrics.misses
        /\ Cardinality(Halves) = Cardinality(Halves') + 1
    BY <1>0, <1>3, CountSecond
  <2>2. Unflushed' => Unflushed
    BY <1>0, UnflushedBefore
  <2>3. Cardinality(Halves) \in Nat /\ Cardinality(Halves') \in Nat
    <3>1. Halves' \subseteq Lookups
      BY DEF Halves
    <3>. QED  BY <3>1, CacheAssumption, HalvesFinite, FS_CardinalityType, FS_Subset
  <2>4. CountsAddUp'
    BY <2>1, <2>2, <2>3, <1>0
       DEF CountInv, CountsAddUp, MetricsType, Halves, Between, Unflushed
  <2>. QED  BY <1>0, <2>1, <2>4 DEF CountInv
<1>4. CASE CountHit(t)
  BY <1>0, <1>2, <1>4 DEF CountHit, Count, Between, CallOk, MatchStages
<1>5. CASE CountHitTotal(t)
  BY <1>0, <1>3, <1>5 DEF CountHitTotal, Count, Between, CallOk, MatchStages
<1>6. CASE CountMiss(t)
  BY <1>0, <1>2, <1>6 DEF CountMiss, Count, Between, CallOk, MissStages
<1>7. CASE CountMissTotal(t)
  BY <1>0, <1>3, <1>7 DEF CountMissTotal, Count, Between, CallOk, MissStages
<1>8. CASE DropMetrics(t)
  <2>1. t \in Admins
    BY <1>0, <1>8 DEF DropMetrics, CallOk, FlushStages
  <2>2. pc'[t] = "deactivate_all_last"
    BY <1>0, <1>8 DEF DropMetrics, Goto, ServeInv, ServeType
  <2>3. MetricsType'
    BY <1>8 DEF DropMetrics, MetricsType, NoCounts
  <2>. QED  BY <1>0, <2>1, <2>2, <2>3 DEF CountInv, CountsAddUp
<1>. QED  BY <1>0, <1>1, <1>4, <1>5, <1>6, <1>7, <1>8, QuietStep

LEMMA CountWorld ==
    ASSUME CountInv,
           Restart \/ ExpireIndex \/ \E k \in Keys : ExpireEntry(k)
    PROVE  CountInv'
<1>0. ServeInv' /\ ServeInv /\ MetricsType
  BY ServeWorld DEF CountInv
<1>1. Quiet /\ (Unflushed' => Unflushed)
  <2> USE <1>0 DEF Quiet, Between, Unflushed, tiers
  <2>1. CASE Restart
    <3>1. \A t \in Tasks : pc'[t] = IF Running(t) THEN Stopped(t) ELSE pc[t]
      BY <2>1 DEF Restart
    <3>2. \A t \in Tasks : Stopped(t) \in {"half", "flush_failed", "cut"}
      BY DEF Stopped
    <3>3. \A t \in Tasks : Running(t) /\ pc[t] = "deactivate_all_last"
                             => Stopped(t) = "flush_failed"
      BY DEF Stopped
    <3>4. \A t \in Tasks : Running(t) =>
             (Stopped(t) = "half" <=> pc[t] \in {"total_hit", "total_miss"})
      BY DEF Stopped
    <3>5. \A t \in Tasks : ~Running(t) => pc'[t] = pc[t]
      BY <3>1
    <3>6. \A t \in Tasks : pc[t] \in {"half", "flushed", "flush_failed"} => ~Running(t)
      BY DEF Running, Over
    <3>7. UNCHANGED metrics
      BY <2>1 DEF Restart
    <3>. QED  BY <3>1, <3>2, <3>3, <3>4, <3>5, <3>6, <3>7 DEF Tasks
  <2>2. CASE ExpireIndex  BY <2>2 DEF ExpireIndex
  <2>3. ASSUME NEW k \in Keys, ExpireEntry(k)
        PROVE  Quiet /\ (Unflushed' => Unflushed)
    BY <2>3 DEF ExpireEntry
  <2>. QED  BY <2>1, <2>2, <2>3
<1>2. UNCHANGED <<metrics, Halves>>
  BY <1>0, <1>1, NoCounting DEF Quiet
<1>. QED  BY <1>0, <1>1, <1>2
          DEF CountInv, CountsAddUp, MetricsType, Halves, Between, Unflushed

\* Every query counted is counted once, as a hit or as a miss, but for the
\* counters that are or were stopped between the two increments, until the
\* counters of the connection are dropped.
THEOREM CountsTheorem == Spec => []CountsAddUp
<1>1. Init => CountInv
  <2> SUFFICES ASSUME Init PROVE MetricsType /\ CountsAddUp
    BY ServeInit DEF CountInv
  <2>1. Halves = {}
    BY DEF Init, Halves, Between, Tasks
  <2>2. metrics.hits = 0 /\ metrics.misses = 0 /\ metrics.total = 0 /\ MetricsType
    BY DEF Init, NoCounts, MetricsType
  <2>. QED  BY <2>1, <2>2, FS_EmptySet DEF CountsAddUp, Halves, Between
<1>2. CountInv /\ [Next]_vars => CountInv'
  <2> SUFFICES ASSUME CountInv, [Next]_vars PROVE CountInv'
    OBVIOUS
  <2>1. CASE UNCHANGED vars
    <3>1. ServeInv'
      BY <2>1, ServeNext DEF CountInv
    <3>. QED  BY <2>1, <3>1 DEF vars, CountInv, MetricsType, CountsAddUp
  <2>. QED  BY <2>1, CountStep, CountWorld DEF Next
<1>. QED  BY <1>1, <1>2, PTL DEF Spec, CountInv
=============================================================================
