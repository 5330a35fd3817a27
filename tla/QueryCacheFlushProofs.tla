----------------------- MODULE QueryCacheFlushProofs -----------------------
(***************************************************************************)
(* What a flush of the connection leaves behind: the entries are still in  *)
(* Redis, and nothing leads to them.  For any number of calls and keys,    *)
(* any index bound and any number of mishaps.                              *)
(***************************************************************************)
EXTENDS QueryCacheIndexProofs

\* A call that overlapped flush f may bring key k back.
Exempt(f, k) == \E o \in Tasks : Overlap(o, f) /\ (o \in Lookups => found[o] = k)

\* A flush is here once it has dropped the index.
Dropped == {"drop_metrics", "deactivate_all_last", "flushed"}

\* The results that flush f has to remove.
Old(f) == before[f] \cap Stores

Saving == {"save_index", "trim_index"}

\* Call t has key k at hand: in its copy of the index, as the key it stores, or
\* as its match.
Leads(t, k) ==
    \/ pc[t] \in Saving /\ Lists(copy[t], k)
    \/ t \in Stores /\ pc[t] \in {"load_index", "save_index"} /\ KeyOf[t] = k
    \/ t \in Lookups /\ found[t] = k

\* The index or a call that began after flush f leads to key k.
Reached(f, k) == Lists(index, k) \/ \E t \in Tasks : f \in before[t] /\ Leads(t, k)

\* A key that can be reached has no old result, and no lookup that began after
\* the flush has one of the key in its hands.
FlushOk(f, k) ==
    pc[f] \in Dropped =>
        /\ Reached(f, k) => entry[k] \notin Old(f)
        /\ \A l \in Lookups : f \in before[l] /\ found[l] = k =>
               /\ answer[l] \notin Old(f)
               /\ pc[l] \in {"ask_ttl", "rewrite"} => seen[l] \notin Old(f)

FlushInv == CacheInv /\ \A f \in Admins, k \in Keys : Exempt(f, k) \/ FlushOk(f, k)

-----------------------------------------------------------------------------
(* What a step of a call may change.                                       *)

\* The ways to the labels that FlushOk names.
LEMMA FlushMoves ==
    ASSUME NEW t \in Tasks, CacheInv, Step(t)
    PROVE  /\ pc'[t] \in Dropped => \/ pc[t] \in Dropped
                                    \/ pc[t] = "drop_index" /\ index' = <<>>
           /\ pc'[t] \in Saving => pc[t] = "load_index" /\ copy'[t] = index
           /\ pc'[t] \in {"load_index", "save_index"} /\ t \in Stores =>
                 \/ pc[t] = "load_index"
                 \/ pc[t] = "save_entry" /\ entry' = [entry EXCEPT ![KeyOf[t]] = t]
           /\ pc'[t] \in {"ask_ttl", "rewrite"} =>
                 /\ UNCHANGED <<found, answer>>
                 /\ \/ pc[t] = "load_entry" /\ seen'[t] = entry[found[t]]
                    \/ pc[t] = "ask_ttl" /\ UNCHANGED seen
<1>0. /\ CallOk(t) /\ OwnerOk(t) /\ ServeInv /\ pc \in [Tasks -> Labels]
      /\ copy \in [Tasks -> Seq(Keys)] /\ seen \in [Tasks -> Stores \cup {NULL}]
      /\ Stores \cap Admins = {} /\ Stores \cap Lookups = {} /\ Lookups \cap Admins = {}
  BY CacheAssumption DEF CacheInv, ServeInv, TypeOK
<1> USE DEF Dropped, Saving, Goto, OwnerOk, CallOk, Trimming, StoreStages, FlushStages,
            SearchStages, Over, locals, tiers
<1>1. CASE OpenClient(t)  BY <1>1, <1>0 DEF OpenClient, Begin
<1>2. CASE UseClient(t)  BY <1>2, <1>0 DEF UseClient, Begin, Enter
<1>3. CASE Ping(t)  BY <1>3, <1>0 DEF Ping, Enter, Mishap
<1>4. CASE SaveEntry(t)  BY <1>4, <1>0 DEF SaveEntry
<1>5. CASE LoadIndex(t)  BY <1>5, <1>0 DEF LoadIndex
<1>6. CASE SaveIndex(t)  BY <1>6, <1>0 DEF SaveIndex
<1>7. CASE Insert(t)  BY <1>7, <1>0 DEF Insert
<1>8. CASE ReadIndex(t)
  BY <1>8, <1>0, SearchMoves
<1>9. CASE ReadRows(t)
  BY <1>9, <1>0, SearchMoves
<1>10. CASE ReadEntry(t)  BY <1>10, <1>0 DEF ReadEntry
<1>11. CASE ReadRow(t)  BY <1>11, <1>0 DEF ReadRow
<1>12. CASE CountHit(t)  BY <1>12, <1>0 DEF CountHit, Count
<1>13. CASE CountHitTotal(t)  BY <1>13, <1>0 DEF CountHitTotal, Count
<1>14. CASE CountMiss(t)  BY <1>14, <1>0 DEF CountMiss, Count
<1>15. CASE CountMissTotal(t)  BY <1>15, <1>0 DEF CountMissTotal, Count
<1>16. CASE LoadEntry(t)  BY <1>16, <1>0 DEF LoadEntry
<1>17. CASE AskTtl(t)  BY <1>17, <1>0 DEF AskTtl
<1>18. CASE Rewrite(t)  BY <1>18, <1>0 DEF Rewrite
<1>19. CASE DropEntry(t)  BY <1>19, <1>0 DEF DropEntry
<1>20. CASE TrimIndex(t)  BY <1>20, <1>0 DEF TrimIndex
<1>21. CASE Deactivate(t)  BY <1>21, <1>0 DEF Deactivate
<1>22. CASE DropIndex(t)  BY <1>22, <1>0 DEF DropIndex
<1>23. CASE DropMetrics(t)  BY <1>23, <1>0 DEF DropMetrics
<1>24. CASE DeactivateAll(t)  BY <1>24, <1>0 DEF DeactivateAll
<1>25. CASE RedisFails(t)  BY <1>25, <1>0 DEF RedisFails, Mishap
<1>26. CASE Abandon(t)  BY <1>26, <1>0 DEF Abandon, Mishap, Running, Stopped
<1>. QED
  BY <1>1, <1>2, <1>3, <1>4, <1>5, <1>6, <1>7, <1>8, <1>9, <1>10, <1>11,
     <1>12, <1>13, <1>14, <1>15, <1>16, <1>17, <1>18, <1>19, <1>20, <1>21,
     <1>22, <1>23, <1>24, <1>25, <1>26 DEF Step

\* A match is listed in the index, and there is none before the search.
LEMMA MatchIsListed ==
    ASSUME NEW t \in Tasks, CacheInv, Step(t), found'[t] # found[t]
    PROVE  /\ pc[t] \in SearchStages /\ t \in Lookups /\ UNCHANGED answer
           /\ pc'[t] \notin {"ask_ttl", "rewrite"}
           /\ Lists(index, found'[t])
<1>0. /\ ServeInv /\ index \in Seq(Keys) /\ pc \in [Tasks -> Labels]
      /\ found \in [Tasks -> Keys \cup {NULL}]
  BY DEF CacheInv, TypeOK
<1>1. pc[t] \in SearchStages /\ UNCHANGED answer /\ t \in Lookups
  BY FoundChanges
<1>2. pc'[t] \notin {"ask_ttl", "rewrite"}
  BY <1>1, FlushMoves DEF SearchStages
<1>3. ReadIndex(t)
  BY <1>0, <1>1 DEF Step, OpenClient, UseClient, Ping, SaveEntry, LoadIndex, SaveIndex, Insert,
       ReadRows, ReadEntry, ReadRow, CountHit, CountHitTotal, CountMiss, CountMissTotal,
       Count, LoadEntry, AskTtl, Rewrite, DropEntry, TrimIndex, Deactivate, DropIndex,
       DropMetrics, DeactivateAll, RedisFails, Abandon, locals
<1>4. Lists(index, found'[t])
  <2>1. PICK k \in {index[i] : i \in DOMAIN index} : found' = [found EXCEPT ![t] = k]
    BY <1>3 DEF ReadIndex, Search
  <2>. QED  BY <1>0, <2>1 DEF Lists
<1>. QED  BY <1>1, <1>2, <1>4

\* A call that has not begun finds, copies and saves nothing when it begins.
LEMMA FirstStep ==
    ASSUME NEW t \in Tasks, CacheInv, Step(t), pc[t] = "client", NEW k \in Keys
    PROVE  ~Leads(t, k)' /\ found'[t] = NULL
<1>1. PastOk(t) /\ NULL \notin Keys
  BY CacheAssumption DEF CacheInv
<1>2. found'[t] = NULL
  BY <1>1, FoundChanges DEF PastOk, SearchStages
<1>. QED  BY <1>1, <1>2, FlushMoves DEF Leads

\* A call comes to a key through the index, or stores it.
LEMMA LeadsChanges ==
    ASSUME NEW t \in Tasks, CacheInv, Step(t), NEW k \in Keys, Leads(t, k)'
    PROVE  \/ Leads(t, k)
           \/ Lists(index, k)
           \/ pc[t] = "save_entry" /\ KeyOf[t] = k /\ entry' = [entry EXCEPT ![k] = t]
BY FlushMoves, MatchIsListed DEF Leads

\* The index comes to list a key by the call that saves it.
LEMMA ListedBySaving ==
    ASSUME NEW t \in Tasks, CacheInv, Step(t), NEW k \in Keys, Lists(index', k)
    PROVE  \/ Lists(index, k)
           \/ Leads(t, k) /\ t \notin Lookups /\ pc[t] \in Saving
<1>0. /\ copy[t] \in Seq(Keys) /\ Distinct(copy[t]) /\ KeyOf[t] \in Keys
      /\ CallOk(t) /\ OwnerOk(t)
      /\ Stores \cap Admins = {} /\ Stores \cap Lookups = {} /\ Lookups \cap Admins = {}
  BY CacheAssumption DEF CacheInv, TypeOK, ServeInv
<1>1. CASE SaveIndex(t)
  <2>1. pc[t] = "save_index" /\ t \in Stores
    BY <1>0, <1>1 DEF SaveIndex, CallOk, StoreStages
  <2>2. Lists(copy[t], k) \/ KeyOf[t] = k
    <3>1. index' = Prune(Append(Without(copy[t], KeyOf[t]), KeyOf[t]))
      BY <1>1 DEF SaveIndex
    <3>2. \A x : Lists(index', x) => Lists(copy[t], x) \/ x = KeyOf[t]
      BY <1>0, <3>1, SavedIndex
    <3>. QED  BY <3>2
  <2>. QED  BY <1>0, <2>1, <2>2 DEF Leads, Saving
<1>2. CASE TrimIndex(t)
  <2>1. pc[t] = "trim_index" /\ t \in Admins
    BY <1>0, <1>2 DEF TrimIndex, OwnerOk, Trimming
  <2>2. Lists(copy[t], k)
    BY <1>0, <1>2, WithoutFacts DEF TrimIndex
  <2>. QED  BY <1>0, <2>1, <2>2 DEF Leads, Saving
<1>3. CASE DropIndex(t)
  BY <1>3 DEF DropIndex, Lists
<1>. QED  BY <1>1, <1>2, <1>3, IndexChanges

\* A call that overlapped a flush did so for good.
LEMMA ExemptStays ==
    ASSUME NEW t \in Tasks, CacheInv, Step(t), NEW f \in Admins, pc[f] # "client",
           NEW k \in Keys, Exempt(f, k)
    PROVE  Exempt(f, k)'
<1>0. f \in Tasks /\ ServeInv /\ NULL \notin Keys
  BY CacheAssumption DEF Tasks, CacheInv
<1>1. before'[f] = before[f]
  BY <1>0, BeforeChanges, OtherLocals
<1>2. PICK o \in Tasks : Overlap(o, f) /\ (o \in Lookups => found[o] = k)
  BY DEF Exempt
<1>3. before'[o] = before[o] /\ pc'[o] # "client"
  BY <1>0, <1>2, BeforeChanges, OtherLocals, OtherCalls, NotBack DEF Overlap
<1>4. o \in Lookups => found'[o] = k
  <2>1. CASE o # t
    BY <1>0, <1>2, <2>1, OtherCalls
  <2>2. CASE o = t /\ o \in Lookups
    <3>1. pc[t] \notin SearchStages
      BY <1>0, <1>2, <2>2 DEF CacheInv, PastOk
    <3>. QED  BY <1>2, <2>2, <3>1, FoundChanges
  <2>. QED  BY <2>1, <2>2
<1>. QED  BY <1>1, <1>2, <1>3, <1>4 DEF Exempt, Overlap

-----------------------------------------------------------------------------
(* FlushInv is an invariant.                                               *)

\* The flush has just dropped the index, and nobody has begun after it.
LEMMA FlushBegins ==
    ASSUME NEW f \in Admins, CacheInv, Step(f), pc[f] \notin Dropped, NEW k \in Keys
    PROVE  FlushOk(f, k)'
<1>0. f \in Tasks /\ CacheInv'
  BY CacheStep DEF Tasks
<1>1. SUFFICES ASSUME pc'[f] \in Dropped PROVE FlushOk(f, k)'
  BY DEF FlushOk
<1>2. pc[f] = "drop_index" /\ index' = <<>>
  BY <1>0, <1>1, FlushMoves
<1>3. \A t \in Tasks : f \notin before[t]
  BY <1>2 DEF CacheInv, PastOk, Over
<1>4. UNCHANGED before
  BY <1>0, <1>2, BeforeChanges
<1>5. ~Lists(index', k)
  BY <1>2 DEF Lists
<1>. QED  BY <1>3, <1>4, <1>5 DEF FlushOk, Reached, Tasks

LEMMA FlushStep ==
    ASSUME NEW t \in Tasks, FlushInv, Step(t), NEW f \in Admins, NEW k \in Keys,
           pc'[f] \in Dropped, ~Exempt(f, k)'
    PROVE  FlushOk(f, k)'
<1>0. /\ CacheInv /\ CacheInv' /\ ServeInv /\ f \in Tasks /\ pc[t] \notin Over
      /\ f \notin Stores /\ f \notin Lookups
      /\ KeyOf[t] \in Keys /\ NULL \notin Keys /\ NULL \notin Stores
      /\ CallOk(t) /\ PastOk(t) /\ PastOk(f) /\ OwnerOk(t)
      /\ entry \in [Keys -> Stores \cup {NULL}]
      /\ found \in [Tasks -> Keys \cup {NULL}]
      /\ seen \in [Tasks -> Stores \cup {NULL}]
      /\ answer \in [Lookups -> Stores \cup {NULL}]
  BY CacheStep, NotOver, CacheAssumption DEF FlushInv, Tasks, CacheInv, TypeOK, ServeInv
<1>1. CASE pc[f] \notin Dropped
  <2>1. f = t
    BY <1>0, <1>1, OtherCalls
  <2>. QED  BY <1>0, <1>1, <2>1, FlushBegins
<1>2. CASE pc[f] \in Dropped
  <2>1. pc[f] # "client" /\ pc[f] \notin Saving \cup {"load_index", "save_entry"}
    BY <1>2 DEF Dropped, Saving
  <2>2. ~Exempt(f, k) /\ FlushOk(f, k)
    BY <1>0, <2>1, ExemptStays DEF FlushInv
  <2>3. before'[f] = before[f] /\ Old(f)' = Old(f)
    BY <1>0, <2>1, BeforeChanges, OtherLocals DEF Old
  <2>4. t \notin before[f] /\ t \notin Old(f) /\ NULL \notin Old(f)
    BY <1>0 DEF PastOk, Old
  <2>5. t = f \/ f \in before'[t] \/ (t \in Lookups /\ found'[t] # k)
    <3>1. pc'[t] # "client"
      BY <1>0, NotBack
    <3>. QED  BY <2>3, <2>4, <3>1 DEF Exempt, Overlap
  <2>6. pc[t] # "client" => before'[t] = before[t]
    BY BeforeChanges
  <2>7. entry[k] \notin Old(f) => entry'[k] \notin Old(f)
    <3>1. SUFFICES ASSUME entry[k] \notin Old(f) PROVE entry'[k] \notin Old(f)
      OBVIOUS
    <3>2. CASE pc[t] = "save_entry" /\ entry' = [entry EXCEPT ![KeyOf[t]] = t]
      BY <1>0, <2>4, <3>1, <3>2
    <3>3. CASE pc[t] = "rewrite" /\ entry' = [entry EXCEPT ![found[t]] = seen[t]]
      <4>1. t \in Lookups
        BY <1>0, <3>3 DEF CallOk, MatchStages
      <4>2. ASSUME found[t] = k PROVE seen[t] \notin Old(f)
        <5>1. found'[t] = k /\ f \in before[t]
          BY <1>0, <2>5, <2>6, <3>3, <4>1, <4>2, FoundChanges DEF SearchStages
        <5>. QED  BY <1>2, <2>2, <3>3, <4>1, <4>2, <5>1 DEF FlushOk
      <4>. QED  BY <1>0, <3>1, <3>3, <4>2
    <3>4. CASE pc[t] = "drop_entry" /\ entry' = [entry EXCEPT ![KeyOf[t]] = NULL]
      BY <1>0, <2>4, <3>1, <3>4
    <3>. QED  BY <3>1, <3>2, <3>3, <3>4, EntryChanges
  <2>8. Reached(f, k)' => Reached(f, k) \/ entry'[k] \notin Old(f)
    <3>1. CASE Lists(index', k)
      <4>1. CASE Leads(t, k) /\ t \notin Lookups /\ pc[t] \in Saving
        <5>1. t # f /\ pc[t] # "client"
          BY <2>1, <4>1 DEF Saving
        <5>2. f \in before[t]
          BY <2>5, <2>6, <4>1, <5>1
        <5>. QED  BY <4>1, <5>2 DEF Reached
      <4>. QED  BY <1>0, <3>1, <4>1, ListedBySaving DEF Reached
    <3>2. ASSUME NEW o \in Tasks, f \in before'[o], Leads(o, k)'
          PROVE  Reached(f, k) \/ entry'[k] \notin Old(f)
      <4>1. CASE o # t
        <5>1. /\ pc'[o] = pc[o] /\ found'[o] = found[o] /\ copy'[o] = copy[o]
              /\ before'[o] = before[o]
          BY <1>0, <4>1, OtherCalls, OtherLocals
        <5>2. f \in before[o] /\ Leads(o, k)
          BY <3>2, <5>1 DEF Leads
        <5>. QED  BY <5>2 DEF Reached
      <4>2. CASE o = t
        <5>1. pc[t] # "client"
          BY <1>0, <3>2, <4>2, FirstStep
        <5>2. f \in before[t]
          BY <2>6, <3>2, <4>2, <5>1
        <5>3. CASE Leads(t, k) \/ Lists(index, k)
          BY <5>2, <5>3 DEF Reached
        <5>4. CASE entry' = [entry EXCEPT ![k] = t]
          BY <1>0, <2>4, <5>4
        <5>. QED  BY <1>0, <3>2, <4>2, <5>3, <5>4, LeadsChanges
      <4>. QED  BY <4>1, <4>2
    <3>. QED  BY <3>1, <3>2 DEF Reached
  <2>9. Reached(f, k)' => entry'[k] \notin Old(f)'
    BY <1>2, <2>2, <2>3, <2>7, <2>8 DEF FlushOk
  <2>10. ASSUME NEW l \in Lookups, f \in before'[l], found'[l] = k
         PROVE  /\ answer'[l] \notin Old(f)
                /\ pc'[l] \in {"ask_ttl", "rewrite"} => seen'[l] \notin Old(f)
    <3>0. l \in Tasks
      BY DEF Tasks
    <3>1. CASE l # t
      <4>1. /\ pc'[l] = pc[l] /\ found'[l] = found[l] /\ before'[l] = before[l]
            /\ seen'[l] = seen[l] /\ answer'[l] = answer[l]
        BY <1>0, <3>0, <3>1, OtherCalls, OtherLocals
      <4>. QED  BY <1>2, <2>2, <2>10, <4>1 DEF FlushOk
    <3>2. CASE l = t /\ found'[t] # found[t]
      <4>1. answer[t] = NULL
        BY <1>0, <3>0, <3>2, MatchIsListed DEF CallOk, AskStages
      <4>. QED  BY <1>0, <2>4, <3>2, <4>1, MatchIsListed
    <3>3. CASE l = t /\ found'[t] = found[t]
      <4>1. pc[t] # "client"
        BY <1>0, <2>10, <3>3, FirstStep
      <4>2. f \in before[t] /\ found[t] = k
        BY <2>6, <2>10, <3>3, <4>1
      <4>3. entry[k] \notin Old(f)
        BY <1>2, <2>2, <3>3, <4>2 DEF FlushOk, Reached, Leads
      <4>4. /\ answer[t] \notin Old(f)
            /\ pc[t] \in {"ask_ttl", "rewrite"} => seen[t] \notin Old(f)
        BY <1>2, <2>2, <3>3, <4>2 DEF FlushOk
      <4>5. answer'[t] \notin Old(f)
        BY <1>0, <3>3, <4>2, <4>3, <4>4, AnswerChanges
      <4>6. pc'[t] \in {"ask_ttl", "rewrite"} => seen'[t] \notin Old(f)
        BY <1>0, <4>2, <4>3, <4>4, FlushMoves
      <4>. QED  BY <3>3, <4>5, <4>6
    <3>. QED  BY <3>1, <3>2, <3>3
  <2>. QED  BY <2>3, <2>9, <2>10 DEF FlushOk
<1>. QED  BY <1>1, <1>2

LEMMA FlushWorld ==
    ASSUME FlushInv, World, NEW f \in Admins, NEW k \in Keys, ~Exempt(f, k)'
    PROVE  FlushOk(f, k)'
<1>0. CacheInv /\ f \in Tasks /\ Lookups \subseteq Tasks /\ NULL \notin Stores
  BY CacheAssumption DEF FlushInv, Tasks
<1>1. \A o \in Tasks : pc[o] # "client" => pc'[o] # "client"
  BY <1>0, WorldChanges DEF Running
<1>2. Exempt(f, k) => Exempt(f, k)'
  BY <1>0, <1>1, WorldChanges DEF Exempt, Overlap
<1>3. FlushOk(f, k)
  BY <1>2 DEF FlushInv
<1>4. \A t \in Tasks : pc'[t] \in Dropped \cup Saving \cup {"load_index", "ask_ttl", "rewrite"}
                           => pc'[t] = pc[t]
  BY <1>0, WorldChanges DEF Dropped, Saving
<1>5. \A t \in Tasks : Leads(t, k)' => Leads(t, k)
  BY <1>0, <1>4, WorldChanges DEF Leads, Saving
<1>6. Reached(f, k)' => Reached(f, k)
  BY <1>0, <1>5, WorldChanges DEF Reached, Lists
<1>7. Old(f)' = Old(f) /\ NULL \notin Old(f)
  BY <1>0, WorldChanges DEF Old
<1>8. entry'[k] \in {entry[k], NULL}
  BY <1>0, WorldChanges
<1>9. UNCHANGED <<found, seen, answer, before>>
  BY <1>0, WorldChanges
<1>. QED  BY <1>0, <1>3, <1>4, <1>6, <1>7, <1>8, <1>9 DEF FlushOk

\* After a flush that went through nothing leads to a result that was stored
\* before it, although its entry is still kept: a lookup that begins after the
\* flush is served such a result only if a store or an invalidation overlapped the
\* flush, or a lookup that found the same key.
THEOREM FlushedTheorem == Spec => []FlushedIsGone
<1>1. Init => FlushInv
  BY CacheInit DEF Init, FlushInv, FlushOk, Dropped, Tasks
<1>2. FlushInv /\ [Next]_vars => FlushInv'
  <2> SUFFICES ASSUME FlushInv, [Next]_vars PROVE FlushInv'
    OBVIOUS
  <2>1. CacheInv'
    BY CacheNext DEF FlushInv
  <2>2. ASSUME NEW f \in Admins, NEW k \in Keys PROVE Exempt(f, k)' \/ FlushOk(f, k)'
    <3>1. CASE UNCHANGED vars
      <4>1. Exempt(f, k) \/ FlushOk(f, k)
        BY DEF FlushInv
      <4>. QED
        BY <3>1, <4>1 DEF vars, Exempt, Overlap, FlushOk, Reached, Leads, Old
    <3>2. ASSUME NEW t \in Tasks, Step(t), ~Exempt(f, k)' PROVE FlushOk(f, k)'
      <4>1. CASE pc'[f] \in Dropped
        BY <3>2, <4>1, FlushStep
      <4>2. CASE pc'[f] \notin Dropped
        BY <4>2 DEF FlushOk
      <4>. QED  BY <4>1, <4>2
    <3>. QED  BY <3>1, <3>2, FlushWorld DEF Next, World
  <2>. QED  BY <2>1, <2>2 DEF FlushInv
<1>3. FlushInv => FlushedIsGone
  <2> SUFFICES ASSUME FlushInv, NEW l \in Lookups, NEW f \in Admins, NEW s \in Stores,
                      answer[l] = s, f \in before[l], s \in before[f], pc[f] = "flushed"
               PROVE  Exempt(f, KeyOf[s])
    BY DEF FlushedIsGone, Exempt
  <2>1. KeyOf[s] \in Keys /\ answer[l] # NULL
    BY CacheAssumption DEF Tasks
  <2>2. found[l] = KeyOf[s]
    BY <2>1 DEF FlushInv, CacheInv, AnswerOk
  <2>3. ~FlushOk(f, KeyOf[s])
    BY <2>2 DEF FlushOk, Dropped, Old
  <2>. QED  BY <2>1, <2>3 DEF FlushInv
<1>. QED  BY <1>1, <1>2, <1>3, PTL DEF Spec
=============================================================================
