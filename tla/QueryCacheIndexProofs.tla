----------------------- MODULE QueryCacheIndexProofs -----------------------
(***************************************************************************)
(* What the query cache does with a key: once it is invalidated its        *)
(* results are gone, and until then a result that was stored undisturbed   *)
(* is found.  For any number of calls and keys, any index bound and any    *)
(* number of mishaps.                                                      *)
(***************************************************************************)
EXTENDS QueryCacheProofs, SequenceTheorems

Lists(s, k) == \E i \in DOMAIN s : s[i] = k

Trimming == {"trim_index", "deactivate_last"}

\* Labels only a store, or only the invalidation of one key, comes to.
OwnerOk(t) ==
    /\ pc[t] = "load_index" => t \in Stores \cup Admins
    /\ pc[t] \in Trimming \cup {"drop_entry", "deactivate", "invalidated"} => t \in Admins

\* What was over when a call began is over, and a call that has not begun, or
\* has not searched yet, has found nothing.  Only a call with a client is at the
\* index.
PastOk(t) ==
    /\ \A o \in before[t] : pc[o] \in Over
    /\ pc[t] = "client" => before[t] = {}
    /\ pc[t] \in {"client", "ping"} \cup SearchStages => found[t] = NULL
    /\ pc[t] \in {"client", "ping"} => ~redis[t]
    /\ pc[t] = "read_index" => redis[t]

HitStages == {"count_hit", "total_hit", "load_entry", "ask_ttl", "rewrite"}

\* An answer is a result of the key that was found, and a hit has one.
AnswerOk(l) ==
    /\ answer[l] # NULL => found[l] = KeyOf[answer[l]]
    /\ pc[l] \in HitStages => answer[l] # NULL

CacheInv ==
    /\ TypeOK /\ ServeInv
    /\ \A t \in Tasks : OwnerOk(t) /\ PastOk(t)
    /\ \A l \in Lookups : AnswerOk(l)

-----------------------------------------------------------------------------
(* Invalidation.                                                           *)

\* A call that may bring the key of invalidation i back.
Revives(o, i) ==
    /\ o \notin before[i]
    /\ \/ o \in Stores /\ KeyOf[o] = KeyOf[i] /\ pc[o] # "client"
       \/ o \in Lookups /\ found[o] = KeyOf[i] /\ i \notin before[o]

Revived(i) == \E o \in Tasks : Revives(o, i)

\* From the moment its entry was dropped, the key has none, and who began later
\* gets nothing.
GoneOk(i) ==
    /\ pc[i] \in Trimming \cup {"load_index", "invalidated"} => entry[KeyOf[i]] = NULL
    /\ pc[i] = "invalidated" =>
           \A l \in Lookups : i \in before[l] /\ found[l] = KeyOf[i] => answer[l] = NULL

GoneInv == CacheInv /\ \A i \in Admins : Revived(i) \/ GoneOk(i)

-----------------------------------------------------------------------------
(* Undisturbed stores.                                                     *)

\* Nothing was invalidated and nothing went wrong.
Calm == mishaps = 0 /\ \A a \in Admins : pc[a] = "client"

\* No other store overlapped s.
Alone(s) == \A o \in Stores \ {s} : o \in before[s] \/ s \in before[o] \/ pc[o] = "client"

\* While it is calm, whoever had a client leaves one to the next, what the index
\* or a copy of it lists has an entry, and so has a match.
CalmOk ==
    /\ \A t \in Tasks : redis[t] => client = "ready"
    /\ \A s \in Stores : pc[s] \in {"load_index", "save_index"} => entry[KeyOf[s]] # NULL
    /\ \A k \in Keys : Lists(index, k) => entry[k] # NULL
    /\ \A t \in Tasks, k \in Keys : Lists(copy[t], k) => entry[k] # NULL
    /\ \A l \in Lookups : pc[l] = "read_entry" => entry[found[l]] # NULL

\* The keys that are listed behind k.
Behind(q, k) == {q[j] : j \in {n \in DOMAIN q : \E i \in DOMAIN q : i < n /\ q[i] = k}}

\* q lists the key of s, and only keys of K behind it.
Keeps(q, s, K) == Lists(q, KeyOf[s]) /\ Behind(q, KeyOf[s]) \subseteq K

HasRoom(s) == Cardinality(LaterKeys(s)) < MaxIndex

\* The key of a store that was alone stays in the index, and in the copies that
\* are taken of it later, until MaxIndex other keys were stored.
ListedOk ==
    \A s \in Stores : Alone(s) /\ HasRoom(s) /\ redis[s] /\ pc[s] \in Over \cup {"insert"} =>
        /\ Keeps(index, s, LaterKeys(s))
        /\ \A o \in Stores : s \in before[o] /\ pc[o] = "save_index"
                                 => Keeps(copy[o], s, LaterKeys(s))

\* A lookup that began after it has an answer or is about to get one.
FoundOk ==
    \A l \in Lookups, s \in Stores :
        ( /\ s \in before[l] /\ redis[s] /\ KeyOf[l] = KeyOf[s]
          /\ <<KeyOf[s], KeyOf[s]>> \in Similar
          /\ Alone(s) /\ HasRoom(s) ) =>
            answer[l] # NULL \/ pc[l] \in {"read_index", "read_entry"}

CalmInv == CacheInv /\ (Calm => CalmOk /\ ListedOk /\ FoundOk)

-----------------------------------------------------------------------------
(* The operators on the index.                                             *)

\* Without takes k out and keeps the rest, each key once.
LEMMA WithoutFacts ==
    ASSUME NEW s \in Seq(Keys), Distinct(s), NEW k
    PROVE  /\ Without(s, k) \in Seq(Keys) /\ Distinct(Without(s, k))
           /\ \A x : Lists(Without(s, k), x) <=> Lists(s, x) /\ x # k
           /\ \A i, j \in DOMAIN Without(s, k) : i < j =>
                 \E m, n \in DOMAIN s : /\ m < n
                                        /\ Without(s, k)[i] = s[m] /\ Without(s, k)[j] = s[n]
<1>1. CASE ~ Lists(s, k)
  BY <1>1 DEF Without, Lists
<1>2. CASE Lists(s, k)
  <2> DEFINE p == CHOOSE i \in DOMAIN s : s[i] = k
             w == [i \in 1 .. Len(s) - 1 |-> IF i < p THEN s[i] ELSE s[i + 1]]
  <2>1. p \in 1 .. Len(s) /\ s[p] = k /\ DOMAIN s = 1 .. Len(s) /\ Len(s) \in Nat
    BY <1>2 DEF Lists
  <2>2. Without(s, k) = w
    BY <1>2 DEF Without, Lists
  <2> HIDE DEF p
  <2>3. \A i \in 1 .. Len(s) - 1 : /\ i < p => w[i] = s[i] /\ i \in 1 .. Len(s)
                                   /\ i >= p => w[i] = s[i + 1] /\ i + 1 \in 1 .. Len(s)
    BY <2>1
  <2>4. w \in [1 .. Len(s) - 1 -> Keys] /\ DOMAIN w = 1 .. Len(s) - 1
    BY <2>1, <2>3, ElementOfSeq
  <2>5. w \in Seq(Keys)
    BY <2>1, <2>4
  <2>6. \A i, j \in 1 .. Len(s) : s[i] = s[j] => i = j
    BY <2>1 DEF Distinct
  <2>7. Distinct(w)
    BY <2>1, <2>3, <2>4, <2>6 DEF Distinct
  <2>8. ASSUME NEW i \in DOMAIN w PROVE w[i] # k /\ \E j \in DOMAIN s : w[i] = s[j]
    BY <2>1, <2>3, <2>4, <2>6
  <2>9. ASSUME NEW j \in DOMAIN s, s[j] # k PROVE \E i \in DOMAIN w : w[i] = s[j]
    <3>1. CASE j < p  BY <2>1, <2>3, <2>4, <3>1
    <3>2. CASE j > p
      <4>1. j - 1 \in 1 .. Len(s) - 1 /\ j - 1 >= p
        BY <2>1, <3>2
      <4>2. w[j - 1] = s[j]
        BY <4>1, <2>1
      <4>. QED  BY <4>1, <4>2, <2>4
    <3>. QED  BY <2>1, <2>9, <3>1, <3>2
  <2>10. ASSUME NEW i \in DOMAIN w, NEW j \in DOMAIN w, i < j
         PROVE  \E m, n \in DOMAIN s : m < n /\ w[i] = s[m] /\ w[j] = s[n]
    <3>1. CASE j < p
      <4>1. i \in DOMAIN s /\ j \in DOMAIN s /\ w[i] = s[i] /\ w[j] = s[j]
        BY <2>1, <2>3, <2>4, <2>10, <3>1
      <4>. QED  BY <2>10, <4>1
    <3>2. CASE i < p /\ j >= p
      <4>1. i \in DOMAIN s /\ j + 1 \in DOMAIN s /\ i < j + 1
        BY <2>1, <2>3, <2>4, <2>10, <3>2
      <4>. QED  BY <2>3, <2>4, <3>2, <4>1
    <3>3. CASE i >= p
      <4>1. i + 1 \in DOMAIN s /\ j + 1 \in DOMAIN s /\ i + 1 < j + 1 /\ j >= p
        BY <2>1, <2>3, <2>4, <2>10, <3>3
      <4>. QED  BY <2>3, <2>4, <3>3, <4>1
    <3>. QED  BY <2>1, <2>4, <3>1, <3>2, <3>3
  <2> HIDE DEF w
  <2>. QED  BY <2>2, <2>5, <2>7, <2>8, <2>9, <2>10 DEF Lists
<1>. QED  BY <1>1, <1>2

\* Prune forgets keys from the front and adds none.
LEMMA PruneFacts ==
    ASSUME NEW s \in Seq(Keys), Distinct(s), Len(s) > 0
    PROVE  /\ Prune(s) \in Seq(Keys) /\ Distinct(Prune(s))
           /\ \E d \in Nat : /\ Len(s) <= d + MaxIndex
                             /\ DOMAIN Prune(s) = 1 .. Len(s) - d
                             /\ \A i \in 1 .. Len(s) - d : Prune(s)[i] = s[d + i]
                             /\ d > 0 => Len(s) = d + MaxIndex
<1>1. Len(s) \in Nat /\ MaxIndex \in Nat \ {0} /\ DOMAIN s = 1 .. Len(s)
  BY CacheAssumption
<1>2. CASE Len(s) <= MaxIndex
  <2>1. Prune(s) = s
    BY <1>1, <1>2 DEF Prune
  <2>2. /\ 0 \in Nat /\ Len(s) <= 0 + MaxIndex /\ DOMAIN s = 1 .. Len(s) - 0
        /\ \A i \in 1 .. Len(s) - 0 : s[i] = s[0 + i]
    BY <1>1, <1>2
  <2>3. \E d \in Nat : /\ Len(s) <= d + MaxIndex
                       /\ DOMAIN s = 1 .. Len(s) - d
                       /\ \A i \in 1 .. Len(s) - d : s[i] = s[d + i]
                       /\ d > 0 => Len(s) = d + MaxIndex
    <3> WITNESS 0 \in Nat
    <3>. QED  BY <2>2
  <2>. QED  BY <2>1, <2>3
<1>3. CASE Len(s) > MaxIndex
  <2> DEFINE d == Len(s) - MaxIndex
             w == SubSeq(s, d + 1, Len(s))
  <2>1. Prune(s) = w
    BY <1>3 DEF Prune
  <2>2. d \in Nat /\ d + MaxIndex = Len(s)
    BY <1>1, <1>3
  <2> HIDE DEF d
  <2>3. w \in Seq(Keys) /\ Len(w) = MaxIndex /\ \A i \in 1 .. MaxIndex : w[i] = s[d + i]
    <3>1. d + 1 \in Int /\ Len(s) \in Int
      BY <1>1, <2>2
    <3>2. d + 1 <= Len(s) /\ Len(s) - (d + 1) + 1 = MaxIndex
      <4>1. \A x, m, n \in Nat : m # 0 /\ x + m = n => x + 1 <= n /\ n - (x + 1) + 1 = m
        OBVIOUS
      <4>. QED  BY <1>1, <2>2, <4>1
    <3>3. \A i \in d + 1 .. Len(s) : s[i] \in Keys
      BY <1>1, <2>2
    <3>4. /\ w \in Seq(Keys)
          /\ Len(w) = IF d + 1 <= Len(s) THEN Len(s) - (d + 1) + 1 ELSE 0
          /\ \A i \in 1 .. Len(s) - (d + 1) + 1 : w[i] = s[d + 1 + i - 1]
      BY <3>1, <3>3, SubSeqProperties
    <3>5. \A i \in 1 .. MaxIndex : d + 1 + i - 1 = d + i
      BY <1>1, <2>2
    <3>. QED  BY <3>2, <3>4, <3>5
  <2> HIDE DEF w
  <2>4. DOMAIN w = 1 .. MaxIndex /\ \A i \in 1 .. MaxIndex : d + i \in DOMAIN s
    BY <1>1, <2>2, <2>3
  <2>5. Distinct(w)
    <3> SUFFICES ASSUME NEW i \in 1 .. MaxIndex, NEW j \in 1 .. MaxIndex, w[i] = w[j]
                 PROVE  i = j
      BY <2>4 DEF Distinct
    <3>1. s[d + i] = s[d + j]
      BY <2>3
    <3>2. d + i = d + j
      BY <2>4, <3>1 DEF Distinct
    <3>. QED  BY <2>2, <3>2
  <2>6. Len(s) <= d + MaxIndex /\ Len(s) - d = MaxIndex
    <3>1. \A x, m, n \in Nat : x + m = n => n <= x + m /\ n - x = m
      OBVIOUS
    <3>. QED  BY <1>1, <2>2, <3>1
  <2>7. \E e \in Nat : /\ Len(s) <= e + MaxIndex
                       /\ DOMAIN w = 1 .. Len(s) - e
                       /\ \A i \in 1 .. Len(s) - e : w[i] = s[e + i]
                       /\ e > 0 => Len(s) = e + MaxIndex
    <3>. d \in Nat
      BY <2>2
    <3> WITNESS d \in Nat
    <3>1. 1 .. Len(s) - d = 1 .. MaxIndex
      BY <2>6
    <3>2. DOMAIN w = 1 .. Len(s) - d /\ \A i \in 1 .. Len(s) - d : w[i] = s[d + i]
      BY <2>3, <2>4, <3>1, Zenon
    <3>3. Len(s) <= d + MaxIndex /\ (d > 0 => Len(s) = d + MaxIndex)
      BY <2>2, <2>6
    <3>. QED  BY <3>2, <3>3
  <2>. QED  BY <2>1, <2>3, <2>5, <2>7
<1>4. Len(s) <= MaxIndex \/ Len(s) > MaxIndex
  BY <1>1
<1>. QED  BY <1>2, <1>3, <1>4, Zenon

\* A key with fewer than MaxIndex keys behind it is not forgotten.
LEMMA PruneKeeps ==
    ASSUME NEW s \in Seq(Keys), Distinct(s), NEW k, Lists(s, k),
           NEW L, IsFiniteSet(L), Cardinality(L) < MaxIndex, Behind(s, k) \subseteq L
    PROVE  Lists(Prune(s), k) /\ Behind(Prune(s), k) \subseteq L
<1>1. /\ Len(s) \in Nat /\ DOMAIN s = 1 .. Len(s) /\ MaxIndex \in Nat /\ Cardinality(L) \in Nat
  BY CacheAssumption, FS_CardinalityType
<1>2. PICK p \in 1 .. Len(s) : s[p] = k
  BY <1>1 DEF Lists
<1>3. Len(s) > 0
  BY <1>1, <1>2
<1>4. PICK d \in Nat : /\ Len(s) <= d + MaxIndex
                       /\ DOMAIN Prune(s) = 1 .. Len(s) - d
                       /\ \A i \in 1 .. Len(s) - d : Prune(s)[i] = s[d + i]
                       /\ d > 0 => Len(s) = d + MaxIndex
  BY <1>3, PruneFacts
<1>5. Len(s) - p <= Cardinality(L)
  <2> DEFINE f == [i \in p + 1 .. Len(s) |-> s[i]]
  <2>1. \A i \in p + 1 .. Len(s) : i \in DOMAIN s /\ p < i
    BY <1>1
  <2>2. f \in [p + 1 .. Len(s) -> L]
    BY <1>1, <1>2, <2>1 DEF Behind
  <2>3. \A i, j \in p + 1 .. Len(s) : f[i] = f[j] => i = j
    BY <2>1 DEF Distinct
  <2> HIDE DEF f
  <2>4. f \in Injection(p + 1 .. Len(s), L)
    BY <2>2, <2>3 DEF Injection, IsInjective
  <2>5. Cardinality(p + 1 .. Len(s)) <= Cardinality(L)
    BY <2>4, FS_Injection
  <2>6. Cardinality(p + 1 .. Len(s)) = IF p + 1 > Len(s) THEN 0 ELSE Len(s) - (p + 1) + 1
    <3>1. p + 1 \in Int /\ Len(s) \in Int
      BY <1>1
    <3>. QED  BY <3>1, FS_Interval
  <2>. QED  BY <1>1, <2>5, <2>6
<1>6. d < p
  <2>1. \A n, q, e, m, c \in Nat :
            n - q <= c /\ c < m /\ q > 0 /\ (e > 0 => n = e + m) => e < q
    OBVIOUS
  <2>2. p \in Nat /\ p > 0
    BY <1>1
  <2>3. d > 0 => Len(s) = d + MaxIndex
    BY <1>4, Zenon
  <2>. QED  BY <1>1, <1>5, <2>1, <2>2, <2>3
<1>7. p - d \in 1 .. Len(s) - d /\ Prune(s)[p - d] = k
  <2>1. p - d \in 1 .. Len(s) - d /\ d + (p - d) = p
    BY <1>1, <1>6
  <2>. QED  BY <1>2, <1>4, <2>1
<1>8. ASSUME NEW i \in 1 .. Len(s) - d, NEW j \in 1 .. Len(s) - d, i < j, Prune(s)[i] = k
      PROVE  Prune(s)[j] \in L
  <2>1. d + i \in DOMAIN s /\ d + j \in DOMAIN s /\ d + i < d + j
    BY <1>1, <1>8
  <2>2. s[d + i] = k /\ Prune(s)[j] = s[d + j]
    BY <1>4, <1>8
  <2>. QED  BY <2>1, <2>2 DEF Behind
<1>. QED  BY <1>4, <1>7, <1>8 DEF Lists, Behind

\* What a store saves for an index it has read.
LEMMA SavedIndex ==
    ASSUME NEW s \in Seq(Keys), Distinct(s), NEW k \in Keys
    PROVE  LET a == Append(Without(s, k), k) IN
           /\ a \in Seq(Keys) /\ Distinct(a)
           /\ Prune(a) \in Seq(Keys) /\ Distinct(Prune(a))
           /\ \A x : Lists(a, x) <=> Lists(s, x) \/ x = k
           /\ \A x : Lists(Prune(a), x) => Lists(s, x) \/ x = k
           /\ Lists(Prune(a), k)
           /\ Behind(a, k) = {}
           /\ \A x : x # k => Behind(a, x) \subseteq Behind(s, x) \cup {k}
<1> DEFINE w == Without(s, k)
           a == Append(w, k)
<1>1. /\ w \in Seq(Keys) /\ Distinct(w)
      /\ \A x : Lists(w, x) <=> Lists(s, x) /\ x # k
      /\ \A i, j \in DOMAIN w : i < j =>
            \E m, n \in DOMAIN s : m < n /\ w[i] = s[m] /\ w[j] = s[n]
  BY WithoutFacts
<1> HIDE DEF w
<1>2. /\ a \in Seq(Keys) /\ Len(a) = Len(w) + 1 /\ Len(w) \in Nat
      /\ \A i \in 1 .. Len(w) : a[i] = w[i]
      /\ a[Len(a)] = k
      /\ DOMAIN w = 1 .. Len(w)
  BY <1>1, AppendProperties
<1> HIDE DEF a
<1>3. DOMAIN a = 1 .. Len(a)
  BY <1>2
<1>4. \A i \in 1 .. Len(w) : w[i] # k
  BY <1>1, <1>2 DEF Lists
<1>5. Distinct(a)
  BY <1>1, <1>2, <1>3, <1>4 DEF Distinct
<1>6. \A x : Lists(a, x) <=> Lists(s, x) \/ x = k
  <2>1. ASSUME NEW x, Lists(a, x) PROVE Lists(w, x) \/ x = k
    <3>1. PICK i \in 1 .. Len(a) : a[i] = x
      BY <1>3, <2>1 DEF Lists
    <3>2. i \in 1 .. Len(w) \/ i = Len(a)
      BY <1>2, <3>1
    <3>. QED  BY <1>2, <3>1, <3>2 DEF Lists
  <2>2. ASSUME NEW x, Lists(w, x) PROVE Lists(a, x)
    <3>1. PICK i \in 1 .. Len(w) : w[i] = x
      BY <1>2, <2>2 DEF Lists
    <3>2. i \in 1 .. Len(a) /\ a[i] = x
      BY <1>2, <3>1
    <3>. QED  BY <1>3, <3>2 DEF Lists
  <2>3. Lists(a, k)
    <3>1. Len(a) \in 1 .. Len(a)
      BY <1>2
    <3>. QED  BY <1>2, <1>3, <3>1 DEF Lists
  <2>. QED  BY <1>1, <2>1, <2>2, <2>3
<1>7. Len(a) > 0 /\ Len(a) \in DOMAIN a
  BY <1>2, <1>3
<1>8. Prune(a) \in Seq(Keys) /\ Distinct(Prune(a))
  BY <1>2, <1>5, <1>7, PruneFacts
<1>9. \A x : Lists(Prune(a), x) => Lists(a, x)
  <2>1. PICK d \in Nat : /\ DOMAIN Prune(a) = 1 .. Len(a) - d
                         /\ \A i \in 1 .. Len(a) - d : Prune(a)[i] = a[d + i]
    BY <1>2, <1>5, <1>7, PruneFacts
  <2>2. \A i \in 1 .. Len(a) - d : d + i \in DOMAIN a
    BY <1>2, <1>3
  <2>. QED  BY <2>1, <2>2 DEF Lists
<1>10. Behind(a, k) = {}
  BY <1>2, <1>3, <1>4 DEF Behind
<1>11. Lists(Prune(a), k)
  <2>1. IsFiniteSet({}) /\ Cardinality({}) < MaxIndex
    BY CacheAssumption, FS_EmptySet
  <2>. QED  BY <1>2, <1>5, <1>6, <1>10, <2>1, PruneKeeps
<1>12. ASSUME NEW x, x # k PROVE Behind(a, x) \subseteq Behind(s, x) \cup {k}
  <2> SUFFICES ASSUME NEW i \in DOMAIN a, NEW j \in DOMAIN a, i < j, a[i] = x, j # Len(a)
               PROVE  a[j] \in Behind(s, x)
    BY <1>2 DEF Behind
  <2>1. i \in DOMAIN w /\ j \in DOMAIN w
    BY <1>2, <1>3
  <2>2. PICK m \in DOMAIN s, n \in DOMAIN s : m < n /\ w[i] = s[m] /\ w[j] = s[n]
    BY <1>1, <2>1
  <2>3. a[i] = w[i] /\ a[j] = w[j]
    BY <1>2, <2>1
  <2>. QED  BY <2>2, <2>3 DEF Behind
<1>. QED  BY <1>2, <1>5, <1>6, <1>8, <1>9, <1>10, <1>11, <1>12 DEF a, w

-----------------------------------------------------------------------------
(* What a step of a call may change.                                       *)

\* A call that takes a step is not over.
LEMMA NotOver ==
    ASSUME NEW t \in Tasks, Step(t)
    PROVE  pc[t] \notin Over
BY DEF Step, OpenClient, UseClient, Ping, SaveEntry, LoadIndex, SaveIndex, Insert, ReadIndex,
       ReadRows, Search, ReadEntry, ReadRow, CountHit, CountHitTotal, CountMiss, CountMissTotal,
       Count, LoadEntry, AskTtl, Rewrite, DropEntry, TrimIndex, Deactivate, DropIndex,
       DropMetrics, DeactivateAll, RedisFails, Abandon,
       Running, Over

\* The index is written by stores, by invalidations, and copied by both.
LEMMA IndexChanges ==
    ASSUME NEW t \in Tasks, Step(t), ~SaveIndex(t), ~TrimIndex(t), ~DropIndex(t)
    PROVE  UNCHANGED index
BY DEF Step, OpenClient, UseClient, Ping, SaveEntry, LoadIndex, SaveIndex, Insert, ReadIndex,
       ReadRows, Search, ReadEntry, ReadRow, CountHit, CountHitTotal, CountMiss, CountMissTotal,
       Count, LoadEntry, AskTtl, Rewrite, DropEntry, TrimIndex, Deactivate, DropIndex,
       DropMetrics, DeactivateAll, RedisFails, Abandon,
       tiers

LEMMA CopyChanges ==
    ASSUME NEW t \in Tasks, Step(t)
    PROVE  \/ UNCHANGED copy
           \/ pc[t] = "load_index" /\ UNCHANGED index /\ copy' = [copy EXCEPT ![t] = index]
BY DEF Step, OpenClient, UseClient, Ping, SaveEntry, LoadIndex, SaveIndex, Insert, ReadIndex,
       ReadRows, Search, ReadEntry, ReadRow, CountHit, CountHitTotal, CountMiss, CountMissTotal,
       Count, LoadEntry, AskTtl, Rewrite, DropEntry, TrimIndex, Deactivate, DropIndex,
       DropMetrics, DeactivateAll, RedisFails, Abandon,
       Enter, locals, tiers

\* A call remembers what was over when it began.
LEMMA BeforeChanges ==
    ASSUME NEW t \in Tasks, Step(t)
    PROVE  \/ pc[t] = "client" /\ Begin(t)
           \/ pc[t] # "client" /\ UNCHANGED before
BY DEF Step, OpenClient, UseClient, Ping, SaveEntry, LoadIndex, SaveIndex, Insert, ReadIndex,
       ReadRows, Search, ReadEntry, ReadRow, CountHit, CountHitTotal, CountMiss, CountMissTotal,
       Count, LoadEntry, AskTtl, Rewrite, DropEntry, TrimIndex, Deactivate, DropIndex,
       DropMetrics, DeactivateAll, RedisFails, Abandon,
       Running, history

\* It takes a client once.
LEMMA RedisChanges ==
    ASSUME NEW t \in Tasks, Step(t)
    PROVE  \/ UNCHANGED redis
           \/ pc[t] \in {"client", "ping"} /\ \E up \in BOOLEAN : redis' = [redis EXCEPT ![t] = up]
BY DEF Step, OpenClient, UseClient, Ping, SaveEntry, LoadIndex, SaveIndex, Insert, ReadIndex,
       ReadRows, Search, ReadEntry, ReadRow, CountHit, CountHitTotal, CountMiss, CountMissTotal,
       Count, LoadEntry, AskTtl, Rewrite, DropEntry, TrimIndex, Deactivate, DropIndex,
       DropMetrics, DeactivateAll, RedisFails, Abandon,
       Enter, locals

\* Where a search leads to.
LEMMA SearchMoves ==
    ASSUME NEW t \in Tasks, ServeInv, ReadIndex(t) \/ ReadRows(t)
    PROVE  /\ pc[t] \in SearchStages
           /\ \/ pc'[t] = "read_rows" /\ UNCHANGED found
              \/ pc'[t] \in {"read_entry", "count_miss", "done"}
           /\ UNCHANGED <<client, tiers, redis, copy, seen, answer, history>>
<1>1. ASSUME NEW C, Search(t, C)
      PROVE  pc'[t] \in {"read_entry", "count_miss"}
  BY <1>1, SearchFacts DEF ServeInv
<1>. QED  BY <1>1 DEF ReadIndex, ReadRows, Goto, ServeInv, ServeType, SearchStages, locals

\* The other local variables of the other calls.
LEMMA OtherLocals ==
    ASSUME NEW t \in Tasks, CacheInv, Step(t), NEW o \in Tasks, o # t
    PROVE  copy'[o] = copy[o] /\ before'[o] = before[o] /\ redis'[o] = redis[o]
<1>1. copy'[o] = copy[o]
  BY CopyChanges DEF CacheInv, TypeOK
<1>2. before'[o] = before[o]
  BY BeforeChanges DEF Begin, CacheInv, TypeOK
<1>3. redis'[o] = redis[o]
  BY RedisChanges DEF CacheInv, TypeOK
<1>. QED  BY <1>1, <1>2, <1>3

-----------------------------------------------------------------------------
(* CacheInv is an invariant.                                               *)

LEMMA CacheInit == Init => CacheInv
<1> SUFFICES ASSUME Init PROVE CacheInv
  OBVIOUS
<1>1. ServeInv
  BY ServeInit
<1>2. TypeOK
  BY <1>1, CacheAssumption DEF Init, TypeOK, ServeInv, ServeType, NoCounts, Distinct
<1>. QED
  BY <1>1, <1>2 DEF Init, CacheInv, OwnerOk, PastOk, AnswerOk, HitStages, Trimming, SearchStages,
                    Tasks

\* Types that ServeType does not have.
LEMMA TypeStep ==
    ASSUME NEW t \in Tasks, CacheInv, Step(t)
    PROVE  /\ client' \in {"none", "pinging", "ready"}
           /\ metrics' \in [{"hits", "misses", "total"} -> Nat]
           /\ redis' \in [Tasks -> BOOLEAN]
           /\ before' \in [Tasks -> SUBSET Tasks]
           /\ mishaps' \in 0..MaxMishaps
<1> USE DEF CacheInv, TypeOK
<1>1. client' \in {"none", "pinging", "ready"}
  BY DEF Step, OpenClient, UseClient, Ping, SaveEntry, LoadIndex, SaveIndex, Insert, ReadIndex,
       ReadRows, Search, ReadEntry, ReadRow, CountHit, CountHitTotal, CountMiss, CountMissTotal,
       Count, LoadEntry, AskTtl, Rewrite, DropEntry, TrimIndex, Deactivate, DropIndex,
       DropMetrics, DeactivateAll, RedisFails, Abandon
<1>2. metrics' \in [{"hits", "misses", "total"} -> Nat]
  <2>1. \/ UNCHANGED metrics
        \/ metrics' = NoCounts
        \/ \E field \in {"hits", "misses", "total"} :
               metrics' = [metrics EXCEPT ![field] = @ + 1]
    BY DEF Step, OpenClient, UseClient, Ping, SaveEntry, LoadIndex, SaveIndex, Insert, ReadIndex,
       ReadRows, Search, ReadEntry, ReadRow, CountHit, CountHitTotal, CountMiss, CountMissTotal,
       Count, LoadEntry, AskTtl, Rewrite, DropEntry, TrimIndex, Deactivate, DropIndex,
       DropMetrics, DeactivateAll, RedisFails, Abandon,
           tiers
  <2>2. NoCounts \in [{"hits", "misses", "total"} -> Nat]
    BY DEF NoCounts
  <2>3. ASSUME NEW field \in {"hits", "misses", "total"},
               metrics' = [metrics EXCEPT ![field] = @ + 1]
        PROVE  metrics' \in [{"hits", "misses", "total"} -> Nat]
    BY <2>3
  <2>. QED  BY <2>1, <2>2, <2>3
<1>3. redis' \in [Tasks -> BOOLEAN]
  BY RedisChanges
<1>4. before' \in [Tasks -> SUBSET Tasks]
  <2>1. {o \in Tasks : pc[o] \in Over} \in SUBSET Tasks
    OBVIOUS
  <2>. QED  BY <2>1, BeforeChanges DEF Begin
<1>5. UNCHANGED mishaps \/ Mishap
  BY DEF Step, OpenClient, UseClient, Ping, SaveEntry, LoadIndex, SaveIndex, Insert, ReadIndex,
       ReadRows, Search, ReadEntry, ReadRow, CountHit, CountHitTotal, CountMiss, CountMissTotal,
       Count, LoadEntry, AskTtl, Rewrite, DropEntry, TrimIndex, Deactivate, DropIndex,
       DropMetrics, DeactivateAll, RedisFails, Abandon,
         history
<1>6. mishaps' \in 0..MaxMishaps
  BY <1>5, CacheAssumption DEF Mishap
<1>. QED  BY <1>1, <1>2, <1>3, <1>4, <1>6

\* The index and its copies.
LEMMA IndexStep ==
    ASSUME NEW t \in Tasks, CacheInv, Step(t)
    PROVE  /\ index' \in Seq(Keys) /\ Distinct(index')
           /\ copy' \in [Tasks -> Seq(Keys)] /\ \A o \in Tasks : Distinct(copy'[o])
<1>1. /\ index \in Seq(Keys) /\ Distinct(index)
      /\ copy \in [Tasks -> Seq(Keys)] /\ \A o \in Tasks : Distinct(copy[o])
      /\ KeyOf[t] \in Keys
  BY CacheAssumption DEF CacheInv, TypeOK
<1>2. copy' \in [Tasks -> Seq(Keys)] /\ \A o \in Tasks : Distinct(copy'[o])
  BY <1>1, CopyChanges
<1>3. index' \in Seq(Keys) /\ Distinct(index')
  <2>1. CASE SaveIndex(t)
    BY <1>1, <2>1, SavedIndex DEF SaveIndex
  <2>2. CASE TrimIndex(t)
    BY <1>1, <2>2, WithoutFacts DEF TrimIndex
  <2>3. CASE DropIndex(t)
    BY <2>3 DEF DropIndex, Distinct
  <2>. QED  BY <1>1, <2>1, <2>2, <2>3, IndexChanges
<1>. QED  BY <1>2, <1>3

\* The call itself.
LEMMA OwnerStep ==
    ASSUME NEW t \in Tasks, CacheInv, Step(t)
    PROVE  OwnerOk(t)'
<1>0. CallOk(t) /\ OwnerOk(t) /\ ServeInv /\ pc \in [Tasks -> Labels]
  BY DEF CacheInv, ServeInv, TypeOK
<1> USE DEF OwnerOk, CallOk, Trimming, Goto, StoreStages, FlushStages, MissStages, MatchStages,
            SearchStages, Over
<1>1. CASE OpenClient(t)  BY <1>1, <1>0 DEF OpenClient, Begin
<1>2. CASE UseClient(t)  BY <1>2, <1>0 DEF UseClient, Begin, Enter
<1>3. CASE Ping(t)  BY <1>3, <1>0 DEF Ping, Enter, Mishap
<1>4. CASE SaveEntry(t)  BY <1>4, <1>0 DEF SaveEntry
<1>5. CASE LoadIndex(t)  BY <1>5, <1>0 DEF LoadIndex
<1>6. CASE SaveIndex(t)  BY <1>6, <1>0 DEF SaveIndex
<1>7. CASE Insert(t)  BY <1>7, <1>0 DEF Insert
<1>8. CASE ReadIndex(t)
  BY <1>8, <1>0, SearchMoves
<1>9. CASE ReadRows(t)
  BY <1>9, <1>0, SearchMoves
<1>10. CASE ReadEntry(t)  BY <1>10, <1>0 DEF ReadEntry
<1>11. CASE ReadRow(t)  BY <1>11, <1>0 DEF ReadRow
<1>12. CASE CountHit(t)  BY <1>12, <1>0 DEF CountHit, Count
<1>13. CASE CountHitTotal(t)  BY <1>13, <1>0 DEF CountHitTotal, Count
<1>14. CASE CountMiss(t)  BY <1>14, <1>0 DEF CountMiss, Count
<1>15. CASE CountMissTotal(t)  BY <1>15, <1>0 DEF CountMissTotal, Count
<1>16. CASE LoadEntry(t)  BY <1>16, <1>0 DEF LoadEntry
<1>17. CASE AskTtl(t)  BY <1>17, <1>0 DEF AskTtl
<1>18. CASE Rewrite(t)  BY <1>18, <1>0 DEF Rewrite
<1>19. CASE DropEntry(t)  BY <1>19, <1>0 DEF DropEntry
<1>20. CASE TrimIndex(t)  BY <1>20, <1>0 DEF TrimIndex
<1>21. CASE Deactivate(t)  BY <1>21, <1>0 DEF Deactivate
<1>22. CASE DropIndex(t)  BY <1>22, <1>0 DEF DropIndex
<1>23. CASE DropMetrics(t)  BY <1>23, <1>0 DEF DropMetrics
<1>24. CASE DeactivateAll(t)  BY <1>24, <1>0 DEF DeactivateAll
<1>25. CASE RedisFails(t)  BY <1>25, <1>0 DEF RedisFails, Mishap
<1>26. CASE Abandon(t)  BY <1>26, <1>0 DEF Abandon, Mishap, Running, Stopped
<1>. QED
  BY <1>1, <1>2, <1>3, <1>4, <1>5, <1>6, <1>7, <1>8, <1>9, <1>10, <1>11,
     <1>12, <1>13, <1>14, <1>15, <1>16, <1>17, <1>18, <1>19, <1>20, <1>21,
     <1>22, <1>23, <1>24, <1>25, <1>26 DEF Step

LEMMA PastStep ==
    ASSUME NEW t \in Tasks, CacheInv, Step(t)
    PROVE  PastOk(t)'
<1>0. /\ PastOk(t) /\ CallOk(t) /\ OwnerOk(t) /\ ServeInv
      /\ pc \in [Tasks -> Labels] /\ redis \in [Tasks -> BOOLEAN]
      /\ found \in [Tasks -> Keys \cup {NULL}] /\ before \in [Tasks -> SUBSET Tasks]
  BY DEF CacheInv, TypeOK, ServeInv
<1>a. \A o \in before'[t] : pc'[o] \in Over
  <2>1. \A o \in before'[t] : o \in Tasks /\ pc[o] \in Over
    BY <1>0, BeforeChanges DEF Begin, PastOk
  <2>. QED  BY <1>0, <2>1, NotOver, OtherCalls
<1>b. /\ pc'[t] # "client"
      /\ pc'[t] \in {"ping"} \cup SearchStages => found'[t] = NULL
      /\ pc'[t] = "ping" => ~redis'[t]
      /\ pc'[t] = "read_index" => redis'[t]
  <2> USE DEF PastOk, Goto, Over, CallOk, SearchStages, tiers, locals
  <2>1. CASE OpenClient(t)  BY <2>1, <1>0 DEF OpenClient, Begin
  <2>2. CASE UseClient(t)  BY <2>2, <1>0 DEF UseClient, Begin, Enter
  <2>3. CASE Ping(t)  BY <2>3, <1>0 DEF Ping, Enter, Mishap
  <2>4. CASE SaveEntry(t)  BY <2>4, <1>0 DEF SaveEntry
  <2>5. CASE LoadIndex(t)  BY <2>5, <1>0 DEF LoadIndex
  <2>6. CASE SaveIndex(t)  BY <2>6, <1>0 DEF SaveIndex
  <2>7. CASE Insert(t)  BY <2>7, <1>0 DEF Insert
  <2>8. CASE ReadIndex(t)
    BY <2>8, <1>0, SearchMoves
  <2>9. CASE ReadRows(t)
    BY <2>9, <1>0, SearchMoves
  <2>10. CASE ReadEntry(t)  BY <2>10, <1>0 DEF ReadEntry
  <2>11. CASE ReadRow(t)  BY <2>11, <1>0 DEF ReadRow
  <2>12. CASE CountHit(t)  BY <2>12, <1>0 DEF CountHit, Count
  <2>13. CASE CountHitTotal(t)  BY <2>13, <1>0 DEF CountHitTotal, Count
  <2>14. CASE CountMiss(t)  BY <2>14, <1>0 DEF CountMiss, Count
  <2>15. CASE CountMissTotal(t)  BY <2>15, <1>0 DEF CountMissTotal, Count
  <2>16. CASE LoadEntry(t)  BY <2>16, <1>0 DEF LoadEntry
  <2>17. CASE AskTtl(t)  BY <2>17, <1>0 DEF AskTtl
  <2>18. CASE Rewrite(t)  BY <2>18, <1>0 DEF Rewrite
  <2>19. CASE DropEntry(t)  BY <2>19, <1>0 DEF DropEntry
  <2>20. CASE TrimIndex(t)  BY <2>20, <1>0 DEF TrimIndex
  <2>21. CASE Deactivate(t)  BY <2>21, <1>0 DEF Deactivate
  <2>22. CASE DropIndex(t)  BY <2>22, <1>0 DEF DropIndex
  <2>23. CASE DropMetrics(t)  BY <2>23, <1>0 DEF DropMetrics
  <2>24. CASE DeactivateAll(t)  BY <2>24, <1>0 DEF DeactivateAll
  <2>25. CASE RedisFails(t)  BY <2>25, <1>0 DEF RedisFails, Mishap
  <2>26. CASE Abandon(t)  BY <2>26, <1>0 DEF Abandon, Mishap, Running, Stopped
  <2>. QED
    BY <2>1, <2>2, <2>3, <2>4, <2>5, <2>6, <2>7, <2>8, <2>9, <2>10, <2>11,
       <2>12, <2>13, <2>14, <2>15, <2>16, <2>17, <2>18, <2>19, <2>20, <2>21,
       <2>22, <2>23, <2>24, <2>25, <2>26 DEF Step
<1>. QED  BY <1>a, <1>b DEF PastOk, SearchStages

LEMMA AnswerStep ==
    ASSUME NEW t \in Lookups, CacheInv, Step(t)
    PROVE  AnswerOk(t)'
<1>a. t \in Tasks
  BY DEF Tasks
<1>0. /\ AnswerOk(t) /\ CallOk(t) /\ PastOk(t) /\ TiersOk /\ ServeInv
      /\ pc \in [Tasks -> Labels]
      /\ found \in [Tasks -> Keys \cup {NULL}] /\ answer \in [Lookups -> Stores \cup {NULL}]
  BY <1>a DEF CacheInv, TypeOK, ServeInv
<1> USE DEF AnswerOk, HitStages, CallOk, Goto, Over, MatchStages, SearchStages, AskStages, TiersOk,
            tiers, locals, history
<1>1. CASE OpenClient(t)  BY <1>1, <1>0, <1>a DEF OpenClient, Begin
<1>2. CASE UseClient(t)  BY <1>2, <1>0, <1>a DEF UseClient, Begin, Enter
<1>3. CASE Ping(t)  BY <1>3, <1>0, <1>a DEF Ping, Enter, Mishap
<1>4. CASE SaveEntry(t)  BY <1>4, <1>0, <1>a DEF SaveEntry
<1>5. CASE LoadIndex(t)  BY <1>5, <1>0, <1>a DEF LoadIndex
<1>6. CASE SaveIndex(t)  BY <1>6, <1>0, <1>a DEF SaveIndex
<1>7. CASE Insert(t)  BY <1>7, <1>0, <1>a DEF Insert
<1>8. CASE ReadIndex(t)
  BY <1>8, <1>0, <1>a, SearchMoves
<1>9. CASE ReadRows(t)
  BY <1>9, <1>0, <1>a, SearchMoves
<1>10. CASE ReadEntry(t)  BY <1>10, <1>0, <1>a DEF ReadEntry
<1>11. CASE ReadRow(t)  BY <1>11, <1>0, <1>a DEF ReadRow
<1>12. CASE CountHit(t)  BY <1>12, <1>0, <1>a DEF CountHit, Count
<1>13. CASE CountHitTotal(t)  BY <1>13, <1>0, <1>a DEF CountHitTotal, Count
<1>14. CASE CountMiss(t)  BY <1>14, <1>0, <1>a DEF CountMiss, Count
<1>15. CASE CountMissTotal(t)  BY <1>15, <1>0, <1>a DEF CountMissTotal, Count
<1>16. CASE LoadEntry(t)  BY <1>16, <1>0, <1>a DEF LoadEntry
<1>17. CASE AskTtl(t)  BY <1>17, <1>0, <1>a DEF AskTtl
<1>18. CASE Rewrite(t)  BY <1>18, <1>0, <1>a DEF Rewrite
<1>19. CASE DropEntry(t)  BY <1>19, <1>0, <1>a DEF DropEntry
<1>20. CASE TrimIndex(t)  BY <1>20, <1>0, <1>a DEF TrimIndex
<1>21. CASE Deactivate(t)  BY <1>21, <1>0, <1>a DEF Deactivate
<1>22. CASE DropIndex(t)  BY <1>22, <1>0, <1>a DEF DropIndex
<1>23. CASE DropMetrics(t)  BY <1>23, <1>0, <1>a DEF DropMetrics
<1>24. CASE DeactivateAll(t)  BY <1>24, <1>0, <1>a DEF DeactivateAll
<1>25. CASE RedisFails(t)  BY <1>25, <1>0, <1>a DEF RedisFails, Mishap
<1>26. CASE Abandon(t)  BY <1>26, <1>0, <1>a DEF Abandon, Mishap, Running, Stopped
<1>. QED
  BY <1>1, <1>2, <1>3, <1>4, <1>5, <1>6, <1>7, <1>8, <1>9, <1>10, <1>11,
     <1>12, <1>13, <1>14, <1>15, <1>16, <1>17, <1>18, <1>19, <1>20, <1>21,
     <1>22, <1>23, <1>24, <1>25, <1>26 DEF Step

LEMMA CacheStep ==
    ASSUME NEW t \in Tasks, CacheInv, Step(t)
    PROVE  CacheInv'
<1>0. ServeInv /\ ServeInv'
  BY ServeStep DEF CacheInv
<1>1. TypeOK'
  BY <1>0, TypeStep, IndexStep DEF TypeOK, ServeInv, ServeType
<1>2. ASSUME NEW o \in Tasks PROVE OwnerOk(o)' /\ PastOk(o)'
  <2>1. CASE o = t
    BY <2>1, OwnerStep, PastStep
  <2>2. CASE o # t
    <3>1. /\ pc'[o] = pc[o] /\ found'[o] = found[o]
          /\ before'[o] = before[o] /\ redis'[o] = redis[o]
      BY <1>0, <2>2, OtherCalls, OtherLocals
    <3>2. OwnerOk(o) /\ PastOk(o) /\ before[o] \subseteq Tasks
      BY DEF CacheInv, TypeOK
    <3>3. \A p \in before[o] : pc'[p] \in Over
      BY <1>0, <3>2, NotOver, OtherCalls DEF PastOk
    <3>. QED  BY <3>1, <3>2, <3>3 DEF OwnerOk, PastOk
  <2>. QED  BY <2>1, <2>2
<1>3. ASSUME NEW l \in Lookups PROVE AnswerOk(l)'
  <2>1. CASE l = t
    BY <2>1, AnswerStep
  <2>2. CASE l # t
    BY <1>0, <2>2, OtherCalls DEF CacheInv, AnswerOk, Tasks
  <2>. QED  BY <2>1, <2>2
<1>. QED  BY <1>0, <1>1, <1>2, <1>3 DEF CacheInv

\* What is not a step of a call.
World == Restart \/ ExpireIndex \/ \E k \in Keys : ExpireEntry(k)

\* A restart ends the calls that run; the rest forgets something.
LEMMA WorldChanges ==
    ASSUME CacheInv, World
    PROVE  /\ \/ UNCHANGED pc
              \/ \A t \in Tasks : \/ pc'[t] = pc[t] /\ ~Running(t)
                                  \/ /\ Running(t)
                                     /\ pc'[t] \in {"half", "flush_failed", "cut"}
           /\ pc' \in [Tasks -> Labels]
           /\ UNCHANGED <<copy, redis, found, seen, answer, stored, before, metrics>>
           /\ mishaps' \in 0..MaxMishaps /\ mishaps' # 0
           /\ client' \in {"none", "pinging", "ready"}
           /\ index' \in {index, <<>>}
           /\ \A k \in Keys : entry'[k] \in {entry[k], NULL}
<1> USE DEF CacheInv, TypeOK
<1>0. Mishap => mishaps' \in 0..MaxMishaps /\ mishaps' # 0
  BY CacheAssumption DEF Mishap
<1>1. CASE Restart
  <2>1. \A t \in Tasks : pc'[t] = IF Running(t) THEN Stopped(t) ELSE pc[t]
    BY <1>1 DEF Restart
  <2>2. \A t \in Tasks : Stopped(t) \in {"half", "flush_failed", "cut"}
    BY DEF Stopped
  <2>3. pc' \in [Tasks -> Labels]
    BY <1>1, <2>2 DEF Restart, Labels, Over
  <2>. QED  BY <1>0, <1>1, <2>1, <2>2, <2>3 DEF Restart, tiers, locals
<1>2. CASE ExpireIndex
  BY <1>0, <1>2 DEF ExpireIndex, locals
<1>3. CASE \E k \in Keys : ExpireEntry(k)
  BY <1>0, <1>3 DEF ExpireEntry, locals
<1>. QED  BY <1>1, <1>2, <1>3 DEF World

LEMMA CacheWorld ==
    ASSUME CacheInv, World
    PROVE  CacheInv'
<1>0. ServeInv'
  BY ServeWorld DEF CacheInv, World
<1>1. TypeOK'
  <2>1. index' \in Seq(Keys) /\ Distinct(index')
    <3>1. index' = index \/ index' = <<>>
      BY WorldChanges
    <3>2. index \in Seq(Keys) /\ Distinct(index)
      BY DEF CacheInv, TypeOK
    <3>3. <<>> \in Seq(Keys) /\ Distinct(<<>>)
      BY DEF Distinct
    <3>. QED  BY <3>1, <3>2, <3>3
  <2>2. /\ copy' = copy /\ redis' = redis /\ before' = before /\ metrics' = metrics
        /\ client' \in {"none", "pinging", "ready"} /\ mishaps' \in 0..MaxMishaps
    BY WorldChanges
  <2>. QED  BY <1>0, <2>1, <2>2 DEF CacheInv, TypeOK, ServeInv, ServeType
<1>3. ASSUME NEW t \in Tasks PROVE OwnerOk(t)'
  BY WorldChanges DEF CacheInv, OwnerOk, Trimming
<1>4. ASSUME NEW t \in Tasks PROVE PastOk(t)'
  <2>1. PastOk(t) /\ before[t] \subseteq Tasks
    BY DEF CacheInv, TypeOK
  <2>2. \A o \in Tasks : pc[o] \in Over => pc'[o] \in Over
    BY WorldChanges DEF Running
  <2>3. pc'[t] \in {"client", "ping"} \cup SearchStages => pc'[t] = pc[t]
    BY WorldChanges DEF SearchStages
  <2>. QED  BY <2>1, <2>2, <2>3, WorldChanges DEF PastOk
<1>5. ASSUME NEW l \in Lookups PROVE AnswerOk(l)'
  BY WorldChanges DEF CacheInv, AnswerOk, HitStages, Tasks
<1>. QED  BY <1>0, <1>1, <1>3, <1>4, <1>5 DEF CacheInv

LEMMA CacheNext == CacheInv /\ [Next]_vars => CacheInv'
<1> SUFFICES ASSUME CacheInv, [Next]_vars PROVE CacheInv'
  OBVIOUS
<1>1. CASE UNCHANGED vars
  <2>1. ServeInv'
    BY <1>1, ServeNext DEF CacheInv
  <2>. QED
    BY <1>1, <2>1 DEF vars, CacheInv, TypeOK, Distinct, OwnerOk, PastOk, AnswerOk
<1>. QED  BY <1>1, CacheStep, CacheWorld DEF Next, World

\* The strengthened invariant of stores, keys and index is inductive.
THEOREM CacheInvariant == Spec => []CacheInv
BY CacheInit, CacheNext, PTL DEF Spec

\* The variables have their types; in particular neither the index nor a copy of
\* it lists a key twice.
THEOREM CacheTypeOK == Spec => []TypeOK
BY CacheInvariant, PTL DEF CacheInv

-----------------------------------------------------------------------------
(* Who writes what an invalidation has to clear.                           *)

\* The entry of a key is saved by a store, rewritten by the counter of a hit and
\* dropped by an invalidation.
LEMMA EntryChanges ==
    ASSUME NEW t \in Tasks, Step(t)
    PROVE  \/ UNCHANGED entry
           \/ pc[t] = "save_entry" /\ entry' = [entry EXCEPT ![KeyOf[t]] = t]
           \/ pc[t] = "rewrite" /\ entry' = [entry EXCEPT ![found[t]] = seen[t]]
           \/ pc[t] = "drop_entry" /\ entry' = [entry EXCEPT ![KeyOf[t]] = NULL]
BY DEF Step, OpenClient, UseClient, Ping, SaveEntry, LoadIndex, SaveIndex, Insert, ReadIndex,
       ReadRows, Search, ReadEntry, ReadRow, CountHit, CountHitTotal, CountMiss, CountMissTotal,
       Count, LoadEntry, AskTtl, Rewrite, DropEntry, TrimIndex, Deactivate, DropIndex,
       DropMetrics, DeactivateAll, RedisFails, Abandon,
       tiers

\* An answer is an entry.
LEMMA AnswerChanges ==
    ASSUME NEW t \in Tasks, Step(t)
    PROVE  \/ UNCHANGED answer
           \/ /\ pc[t] = "read_entry" /\ entry[found[t]] # NULL
              /\ answer' = [answer EXCEPT ![t] = entry[found[t]]]
              /\ UNCHANGED found
BY DEF Step, OpenClient, UseClient, Ping, SaveEntry, LoadIndex, SaveIndex, Insert, ReadIndex,
       ReadRows, Search, ReadEntry, ReadRow, CountHit, CountHitTotal, CountMiss, CountMissTotal,
       Count, LoadEntry, AskTtl, Rewrite, DropEntry, TrimIndex, Deactivate, DropIndex,
       DropMetrics, DeactivateAll, RedisFails, Abandon,
       locals

\* Only a search finds something, and it answers nothing yet.
LEMMA FoundChanges ==
    ASSUME NEW t \in Tasks, CacheInv, Step(t)
    PROVE  \/ UNCHANGED found
           \/ pc[t] \in SearchStages /\ UNCHANGED answer /\ t \in Lookups
<1>1. pc[t] \in SearchStages => t \in Lookups
  BY DEF CacheInv, ServeInv, CallOk
<1>2. ASSUME pc[t] \notin SearchStages PROVE UNCHANGED found
  BY <1>2 DEF Step, OpenClient, UseClient, Ping, SaveEntry, LoadIndex, SaveIndex, Insert, ReadIndex,
       ReadRows, Search, ReadEntry, ReadRow, CountHit, CountHitTotal, CountMiss, CountMissTotal,
       Count, LoadEntry, AskTtl, Rewrite, DropEntry, TrimIndex, Deactivate, DropIndex,
       DropMetrics, DeactivateAll, RedisFails, Abandon,
         locals, SearchStages
<1>3. pc[t] \in SearchStages => UNCHANGED answer
  BY AnswerChanges DEF SearchStages
<1>. QED  BY <1>1, <1>2, <1>3

\* The way of an invalidation.
LEMMA InvalidationMoves ==
    ASSUME NEW t \in Admins, CacheInv, Step(t)
    PROVE  /\ pc'[t] \in Trimming \cup {"load_index", "invalidated"} =>
                 \/ pc[t] \in Trimming \cup {"load_index"}
                 \/ pc[t] = "drop_entry" /\ entry' = [entry EXCEPT ![KeyOf[t]] = NULL]
           /\ pc'[t] = "invalidated" => pc[t] = "deactivate_last"
<1>a. t \in Tasks
  BY DEF Tasks
<1>0. CallOk(t) /\ OwnerOk(t) /\ ServeInv /\ pc \in [Tasks -> Labels] /\ t \notin Stores
  BY <1>a, CacheAssumption DEF CacheInv, ServeInv, TypeOK
<1> USE DEF OwnerOk, CallOk, Trimming, Goto, StoreStages, FlushStages, MissStages, MatchStages,
            SearchStages, Over
<1>1. CASE OpenClient(t)  BY <1>1, <1>0, <1>a DEF OpenClient, Begin
<1>2. CASE UseClient(t)  BY <1>2, <1>0, <1>a DEF UseClient, Begin, Enter
<1>3. CASE Ping(t)  BY <1>3, <1>0, <1>a DEF Ping, Enter, Mishap
<1>4. CASE SaveEntry(t)  BY <1>4, <1>0, <1>a DEF SaveEntry
<1>5. CASE LoadIndex(t)  BY <1>5, <1>0, <1>a DEF LoadIndex
<1>6. CASE SaveIndex(t)  BY <1>6, <1>0, <1>a DEF SaveIndex
<1>7. CASE Insert(t)  BY <1>7, <1>0, <1>a DEF Insert
<1>8. CASE ReadIndex(t)
  BY <1>8, <1>0, <1>a, SearchMoves
<1>9. CASE ReadRows(t)
  BY <1>9, <1>0, <1>a, SearchMoves
<1>10. CASE ReadEntry(t)  BY <1>10, <1>0, <1>a DEF ReadEntry
<1>11. CASE ReadRow(t)  BY <1>11, <1>0, <1>a DEF ReadRow
<1>12. CASE CountHit(t)  BY <1>12, <1>0, <1>a DEF CountHit, Count
<1>13. CASE CountHitTotal(t)  BY <1>13, <1>0, <1>a DEF CountHitTotal, Count
<1>14. CASE CountMiss(t)  BY <1>14, <1>0, <1>a DEF CountMiss, Count
<1>15. CASE CountMissTotal(t)  BY <1>15, <1>0, <1>a DEF CountMissTotal, Count
<1>16. CASE LoadEntry(t)  BY <1>16, <1>0, <1>a DEF LoadEntry
<1>17. CASE AskTtl(t)  BY <1>17, <1>0, <1>a DEF AskTtl
<1>18. CASE Rewrite(t)  BY <1>18, <1>0, <1>a DEF Rewrite
<1>19. CASE DropEntry(t)  BY <1>19, <1>0, <1>a DEF DropEntry
<1>20. CASE TrimIndex(t)  BY <1>20, <1>0, <1>a DEF TrimIndex
<1>21. CASE Deactivate(t)  BY <1>21, <1>0, <1>a DEF Deactivate
<1>22. CASE DropIndex(t)  BY <1>22, <1>0, <1>a DEF DropIndex
<1>23. CASE DropMetrics(t)  BY <1>23, <1>0, <1>a DEF DropMetrics
<1>24. CASE DeactivateAll(t)  BY <1>24, <1>0, <1>a DEF DeactivateAll
<1>25. CASE RedisFails(t)  BY <1>25, <1>0, <1>a DEF RedisFails, Mishap
<1>26. CASE Abandon(t)  BY <1>26, <1>0, <1>a DEF Abandon, Mishap, Running, Stopped
<1>. QED
  BY <1>1, <1>2, <1>3, <1>4, <1>5, <1>6, <1>7, <1>8, <1>9, <1>10, <1>11,
     <1>12, <1>13, <1>14, <1>15, <1>16, <1>17, <1>18, <1>19, <1>20, <1>21,
     <1>22, <1>23, <1>24, <1>25, <1>26 DEF Step

\* A call that has begun does not begin again.
LEMMA NotBack ==
    ASSUME NEW t \in Tasks, CacheInv, Step(t)
    PROVE  pc'[t] # "client"
<1>0. ServeInv /\ pc \in [Tasks -> Labels] /\ CallOk(t) /\ OwnerOk(t)
  BY DEF CacheInv, TypeOK, ServeInv
<1> USE DEF Goto, Over
<1>1. CASE OpenClient(t)  BY <1>1, <1>0 DEF OpenClient, Begin
<1>2. CASE UseClient(t)  BY <1>2, <1>0 DEF UseClient, Begin, Enter
<1>3. CASE Ping(t)  BY <1>3, <1>0 DEF Ping, Enter, Mishap
<1>4. CASE SaveEntry(t)  BY <1>4, <1>0 DEF SaveEntry
<1>5. CASE LoadIndex(t)  BY <1>5, <1>0 DEF LoadIndex
<1>6. CASE SaveIndex(t)  BY <1>6, <1>0 DEF SaveIndex
<1>7. CASE Insert(t)  BY <1>7, <1>0 DEF Insert
<1>8. CASE ReadIndex(t)
  BY <1>8, <1>0, SearchMoves
<1>9. CASE ReadRows(t)
  BY <1>9, <1>0, SearchMoves
<1>10. CASE ReadEntry(t)  BY <1>10, <1>0 DEF ReadEntry
<1>11. CASE ReadRow(t)  BY <1>11, <1>0 DEF ReadRow
<1>12. CASE CountHit(t)  BY <1>12, <1>0 DEF CountHit, Count
<1>13. CASE CountHitTotal(t)  BY <1>13, <1>0 DEF CountHitTotal, Count
<1>14. CASE CountMiss(t)  BY <1>14, <1>0 DEF CountMiss, Count
<1>15. CASE CountMissTotal(t)  BY <1>15, <1>0 DEF CountMissTotal, Count
<1>16. CASE LoadEntry(t)  BY <1>16, <1>0 DEF LoadEntry
<1>17. CASE AskTtl(t)  BY <1>17, <1>0 DEF AskTtl
<1>18. CASE Rewrite(t)  BY <1>18, <1>0 DEF Rewrite
<1>19. CASE DropEntry(t)  BY <1>19, <1>0 DEF DropEntry
<1>20. CASE TrimIndex(t)  BY <1>20, <1>0 DEF TrimIndex
<1>21. CASE Deactivate(t)  BY <1>21, <1>0 DEF Deactivate
<1>22. CASE DropIndex(t)  BY <1>22, <1>0 DEF DropIndex
<1>23. CASE DropMetrics(t)  BY <1>23, <1>0 DEF DropMetrics
<1>24. CASE DeactivateAll(t)  BY <1>24, <1>0 DEF DeactivateAll
<1>25. CASE RedisFails(t)  BY <1>25, <1>0 DEF RedisFails, Mishap
<1>26. CASE Abandon(t)  BY <1>26, <1>0 DEF Abandon, Mishap, Running, Stopped
<1>. QED
  BY <1>1, <1>2, <1>3, <1>4, <1>5, <1>6, <1>7, <1>8, <1>9, <1>10, <1>11,
     <1>12, <1>13, <1>14, <1>15, <1>16, <1>17, <1>18, <1>19, <1>20, <1>21,
     <1>22, <1>23, <1>24, <1>25, <1>26 DEF Step

\* A call that revives a key keeps doing so once the invalidation has begun.
LEMMA RevivedStays ==
    ASSUME NEW t \in Tasks, CacheInv, Step(t), NEW i \in Admins, pc[i] # "client", Revived(i)
    PROVE  Revived(i)'
<1>0. i \in Tasks /\ CacheInv' /\ ServeInv /\ KeyOf[i] \in Keys /\ NULL \notin Keys
  BY CacheStep, CacheAssumption DEF Tasks, CacheInv
<1>1. before'[i] = before[i]
  BY <1>0, BeforeChanges, OtherLocals
<1>2. PICK o \in Tasks : Revives(o, i)
  BY DEF Revived
<1>3. PastOk(o) /\ PastOk(o)' /\ PastOk(t)
  BY <1>0 DEF CacheInv
<1>4. CASE o # t
  <2>1. pc'[o] = pc[o] /\ found'[o] = found[o] /\ before'[o] = before[o]
    BY <1>0, <1>4, OtherCalls, OtherLocals
  <2>. QED  BY <1>1, <1>2, <2>1 DEF Revived, Revives
<1>5. CASE o = t /\ o \in Stores /\ KeyOf[o] = KeyOf[i] /\ pc[o] # "client"
  <2>1. pc'[t] # "client"
    BY NotBack
  <2>. QED  BY <1>1, <1>2, <1>5, <2>1 DEF Revived, Revives
<1>6. CASE o = t /\ o \in Lookups /\ found[o] = KeyOf[i] /\ i \notin before[o]
  <2>1. pc[t] \notin {"client"} \cup SearchStages
    BY <1>0, <1>3, <1>6 DEF PastOk
  <2>2. found'[t] = found[t] /\ before'[t] = before[t]
    BY <2>1, FoundChanges, BeforeChanges
  <2>. QED  BY <1>1, <1>2, <1>6, <2>2 DEF Revived, Revives
<1>. QED  BY <1>2, <1>4, <1>5, <1>6 DEF Revives

LEMMA GoneStep ==
    ASSUME NEW t \in Tasks, GoneInv, Step(t), NEW i \in Admins, ~Revived(i)'
    PROVE  GoneOk(i)'
<1>0. /\ CacheInv /\ CacheInv' /\ ServeInv /\ i \in Tasks /\ pc[t] \notin Over
      /\ KeyOf[i] \in Keys /\ KeyOf[t] \in Keys /\ NULL \notin Keys
      /\ i \notin Lookups /\ i \notin Stores
      /\ CallOk(t) /\ PastOk(t) /\ PastOk(i) /\ OwnerOk(t)
      /\ entry \in [Keys -> Stores \cup {NULL}]
      /\ found \in [Tasks -> Keys \cup {NULL}]
      /\ answer \in [Lookups -> Stores \cup {NULL}]
  BY CacheStep, NotOver, CacheAssumption DEF GoneInv, Tasks, CacheInv, TypeOK, ServeInv
<1>1. CASE pc[i] = "client"
  <2>1. i # t => pc'[i] = "client"
    BY <1>0, <1>1, OtherCalls
  <2>2. pc'[i] \notin Trimming \cup {"load_index", "invalidated"}
    BY <1>0, <1>1, <2>1, InvalidationMoves DEF Trimming
  <2>. QED  BY <2>2 DEF GoneOk
<1>2. CASE pc[i] # "client"
  <2>1. ~Revived(i) /\ GoneOk(i)
    BY <1>0, <1>2, RevivedStays DEF GoneInv
  <2>2. ~Revives(t, i)
    BY <2>1 DEF Revived
  <2>3. t \notin before[i]
    BY <1>0 DEF PastOk
  <2>4. t \in Stores /\ pc[t] # "client" => KeyOf[t] # KeyOf[i]
    BY <2>2, <2>3 DEF Revives
  <2>5. t \in Lookups /\ found[t] = KeyOf[i] => i \in before[t]
    BY <2>2, <2>3 DEF Revives
  <2>6. before'[i] = before[i]
    BY <1>0, <1>2, BeforeChanges, OtherLocals
  <2>7. \A l \in Lookups : i \in before[l] => pc[i] \in Over
    BY <1>0 DEF CacheInv, PastOk, Tasks
  <2>8. ASSUME i # t, pc[i] \in Trimming \cup {"load_index", "invalidated"}
        PROVE  entry'[KeyOf[i]] = NULL
    <3>1. entry[KeyOf[i]] = NULL
      BY <2>1, <2>8 DEF GoneOk
    <3>2. CASE pc[t] = "save_entry" /\ entry' = [entry EXCEPT ![KeyOf[t]] = t]
      <4>1. KeyOf[t] # KeyOf[i]
        BY <1>0, <2>4, <3>2 DEF CallOk, StoreStages
      <4>. QED  BY <1>0, <3>1, <3>2, <4>1
    <3>3. CASE pc[t] = "rewrite" /\ entry' = [entry EXCEPT ![found[t]] = seen[t]]
      <4>1. t \in Lookups /\ answer[t] # NULL
        BY <1>0, <3>3 DEF CallOk, MatchStages, CacheInv, AnswerOk, HitStages
      <4>2. ASSUME found[t] = KeyOf[i] PROVE FALSE
        <5>1. i \in before[t] /\ pc[i] \in Over
          BY <2>5, <2>7, <4>1, <4>2
        <5>2. pc[i] = "invalidated"
          BY <2>8, <5>1 DEF Trimming, Over
        <5>. QED  BY <2>1, <4>1, <4>2, <5>1, <5>2 DEF GoneOk
      <4>. QED  BY <1>0, <3>1, <3>3, <4>2
    <3>4. CASE pc[t] = "drop_entry" /\ entry' = [entry EXCEPT ![KeyOf[t]] = NULL]
      BY <1>0, <3>1, <3>4
    <3>. QED  BY <3>1, <3>2, <3>3, <3>4, EntryChanges
  <2>9. ASSUME i # t, pc[i] = "invalidated"
        PROVE  \A l \in Lookups : i \in before'[l] /\ found'[l] = KeyOf[i] => answer'[l] = NULL
    <3>1. /\ entry[KeyOf[i]] = NULL
          /\ \A l \in Lookups : i \in before[l] /\ found[l] = KeyOf[i] => answer[l] = NULL
      BY <2>1, <2>9 DEF GoneOk
    <3>3. ASSUME NEW l \in Lookups, i \in before'[l], found'[l] = KeyOf[i]
          PROVE  answer'[l] = NULL
      <4>0. l \in Tasks
        BY DEF Tasks
      <4>1. CASE l # t
        BY <1>0, <3>1, <3>3, <4>0, <4>1, OtherCalls, OtherLocals
      <4>2. CASE l = t /\ pc[t] \in SearchStages
        <5>1. answer[t] = NULL
          BY <1>0, <4>2 DEF CallOk, AskStages
        <5>2. UNCHANGED answer
          BY <4>2, AnswerChanges DEF SearchStages
        <5>. QED  BY <4>2, <5>1, <5>2
      <4>3. CASE l = t /\ pc[t] \notin SearchStages
        <5>1. found[t] = KeyOf[i]
          BY <1>0, <3>3, <4>3, FoundChanges
        <5>2. i \in before[t]
          BY <2>5, <4>3, <5>1
        <5>3. answer[t] = NULL
          BY <3>1, <4>3, <5>1, <5>2
        <5>4. UNCHANGED answer
          BY <3>1, <5>1, AnswerChanges
        <5>. QED  BY <4>3, <5>3, <5>4
      <4>. QED  BY <4>1, <4>2, <4>3
    <3>. QED  BY <3>3
  <2>10. CASE i # t
    <3>1. pc'[i] = pc[i]
      BY <1>0, <2>10, OtherCalls
    <3>. QED  BY <2>8, <2>9, <2>10, <3>1 DEF GoneOk
  <2>11. CASE i = t
    <3>1. pc'[i] \in Trimming \cup {"load_index", "invalidated"} => entry'[KeyOf[i]] = NULL
      <4>1. CASE pc[i] \in Trimming \cup {"load_index"}
        <5>1. entry[KeyOf[i]] = NULL
          BY <2>1, <4>1 DEF GoneOk
        <5>2. UNCHANGED entry
          BY <2>11, <4>1, EntryChanges DEF Trimming
        <5>. QED  BY <5>1, <5>2
      <4>2. CASE pc[i] = "drop_entry" /\ entry' = [entry EXCEPT ![KeyOf[i]] = NULL]
        BY <1>0, <4>2
      <4>. QED  BY <1>0, <2>11, <4>1, <4>2, InvalidationMoves
    <3>2. ASSUME pc'[i] = "invalidated"
          PROVE  \A l \in Lookups : i \notin before'[l]
      <4>1. pc[i] = "deactivate_last"
        BY <1>0, <2>11, <3>2, InvalidationMoves
      <4>2. \A l \in Lookups : l \in Tasks /\ l # t
        BY <1>0, <2>11 DEF Tasks
      <4>3. \A l \in Lookups : i \notin before[l]
        BY <2>7, <4>1 DEF Over
      <4>. QED  BY <1>0, <4>1, <4>2, <4>3, OtherLocals
    <3>. QED  BY <3>1, <3>2 DEF GoneOk
  <2>. QED  BY <2>10, <2>11
<1>. QED  BY <1>1, <1>2

LEMMA GoneWorld ==
    ASSUME GoneInv, World, NEW i \in Admins, ~Revived(i)'
    PROVE  GoneOk(i)'
<1>0. CacheInv /\ i \in Tasks /\ KeyOf[i] \in Keys /\ NULL \notin Keys
  BY CacheAssumption DEF GoneInv, Tasks
<1>1. \A o \in Tasks : pc[o] # "client" => pc'[o] # "client"
  BY <1>0, WorldChanges DEF Running
<1>2. Revived(i) => Revived(i)'
  BY <1>0, <1>1, WorldChanges DEF Revived, Revives
<1>3. GoneOk(i)
  BY <1>2 DEF GoneInv
<1>4. pc'[i] \in Trimming \cup {"load_index", "invalidated"} => pc'[i] = pc[i]
  BY <1>0, WorldChanges DEF Trimming
<1>5. pc'[i] \in Trimming \cup {"load_index", "invalidated"} => entry'[KeyOf[i]] = NULL
  BY <1>0, <1>3, <1>4, WorldChanges DEF GoneOk
<1>. QED  BY <1>0, <1>3, <1>4, <1>5, WorldChanges DEF GoneOk

\* A result that was stored before its key was invalidated is not served to
\* a lookup that begins after that, unless a store of the key that
\* overlapped the invalidation or came later, or the counting of a hit that
\* overlapped it, brought the key back.
THEOREM InvalidatedTheorem == Spec => []InvalidatedIsGone
<1>1. Init => GoneInv
  BY CacheInit DEF Init, GoneInv, GoneOk, Trimming, Tasks
<1>2. GoneInv /\ [Next]_vars => GoneInv'
  <2> SUFFICES ASSUME GoneInv, [Next]_vars PROVE GoneInv'
    OBVIOUS
  <2>1. CacheInv'
    BY CacheNext DEF GoneInv
  <2>2. CASE UNCHANGED vars
    <3>1. \A i \in Admins : Revived(i)' \/ GoneOk(i)'
      BY <2>2 DEF vars, GoneInv, Revived, Revives, GoneOk
    <3>. QED  BY <2>1, <3>1 DEF GoneInv
  <2>. QED  BY <2>1, <2>2, GoneStep, GoneWorld DEF Next, World, GoneInv
<1>3. GoneInv => InvalidatedIsGone
  <2> SUFFICES ASSUME GoneInv, NEW l \in Lookups, NEW i \in Admins, NEW s \in Stores,
                      answer[l] = s, i \in before[l], pc[i] = "invalidated",
                      KeyOf[i] = KeyOf[s]
               PROVE  \E o \in Tasks : Revives(o, i)
    BY DEF InvalidatedIsGone, Revives
  <2>1. answer[l] # NULL
    BY CacheAssumption
  <2>2. found[l] = KeyOf[i]
    BY <2>1 DEF GoneInv, CacheInv, AnswerOk
  <2>3. ~GoneOk(i)
    BY <2>1, <2>2 DEF GoneOk
  <2>. QED  BY <2>3 DEF GoneInv, Revived
<1>. QED  BY <1>1, <1>2, <1>3, PTL DEF Spec

-----------------------------------------------------------------------------
(* A calm step.                                                            *)

\* A step that leaves it calm is one of a store or a lookup, and nothing fails.
LEMMA CalmBefore ==
    ASSUME NEW t \in Tasks, CacheInv, Step(t), Calm'
    PROVE  Calm /\ t \notin Admins /\ ~Mishap
<1>0. ServeInv /\ mishaps \in Nat /\ Admins \subseteq Tasks
  BY CacheAssumption DEF CacheInv, TypeOK, Tasks
<1>1. t \notin Admins
  BY NotBack DEF Calm
<1>2. \A a \in Admins : pc[a] = "client"
  BY <1>0, <1>1, OtherCalls DEF Calm
<1>3. ~Mishap
  BY <1>0 DEF Mishap, Calm
<1>4. UNCHANGED mishaps \/ Mishap
  BY DEF Step, OpenClient, UseClient, Ping, SaveEntry, LoadIndex, SaveIndex, Insert, ReadIndex,
       ReadRows, Search, ReadEntry, ReadRow, CountHit, CountHitTotal, CountMiss, CountMissTotal,
       Count, LoadEntry, AskTtl, Rewrite, DropEntry, TrimIndex, Deactivate, DropIndex,
       DropMetrics, DeactivateAll, RedisFails, Abandon,
         history
<1>. QED  BY <1>1, <1>2, <1>3, <1>4 DEF Calm

\* What such a step is.
Arrives(t) ==
    /\ pc[t] \in {"client", "ping"}
    /\ t \in Stores => /\ pc'[t] \in {"ping", "save_entry", "insert"}
                       /\ pc'[t] = "insert" => ~redis'[t]
    /\ t \in Lookups => pc'[t] \in {"ping", "read_index", "read_rows"}
    /\ UNCHANGED <<index, entry, copy, answer, found>>

Counts(t) ==
    /\ t \in Lookups /\ pc[t] \in HitStages \cup MissStages
    /\ pc'[t] # "read_entry"
    /\ UNCHANGED <<index, copy, answer, found>>

LEMMA CalmMoves ==
    ASSUME NEW t \in Tasks, CacheInv, Step(t), t \notin Admins, ~Mishap
    PROVE  \/ Arrives(t) \/ Counts(t)
           \/ SaveEntry(t) \/ LoadIndex(t) \/ SaveIndex(t) \/ Insert(t)
           \/ ReadIndex(t) \/ ReadRows(t) \/ ReadEntry(t) \/ ReadRow(t)
<1>0. /\ CallOk(t) /\ OwnerOk(t) /\ PastOk(t) /\ ServeInv
      /\ pc \in [Tasks -> Labels] /\ redis \in [Tasks -> BOOLEAN]
      /\ Stores \cap Lookups = {} /\ t \notin Admins /\ ~Mishap
  BY CacheAssumption DEF CacheInv, TypeOK, ServeInv
<1> USE DEF Arrives, Counts, OwnerOk, CallOk, PastOk, Trimming, Goto, FlushStages, MissStages,
            MatchStages, HitStages, tiers, locals
<1>1. CASE OpenClient(t)  BY <1>1, <1>0 DEF OpenClient, Begin
<1>2. CASE UseClient(t)  BY <1>2, <1>0 DEF UseClient, Begin, Enter
<1>3. CASE Ping(t)  BY <1>3, <1>0 DEF Ping, Enter, Mishap
<1>4. CASE SaveEntry(t)
  BY <1>4
<1>5. CASE LoadIndex(t)
  BY <1>5
<1>6. CASE SaveIndex(t)
  BY <1>6
<1>7. CASE Insert(t)
  BY <1>7
<1>8. CASE ReadIndex(t)
  BY <1>8
<1>9. CASE ReadRows(t)
  BY <1>9
<1>10. CASE ReadEntry(t)
  BY <1>10
<1>11. CASE ReadRow(t)
  BY <1>11
<1>12. CASE CountHit(t)  BY <1>12, <1>0 DEF CountHit, Count
<1>13. CASE CountHitTotal(t)  BY <1>13, <1>0 DEF CountHitTotal, Count
<1>14. CASE CountMiss(t)  BY <1>14, <1>0 DEF CountMiss, Count
<1>15. CASE CountMissTotal(t)  BY <1>15, <1>0 DEF CountMissTotal, Count
<1>16. CASE LoadEntry(t)  BY <1>16, <1>0 DEF LoadEntry
<1>17. CASE AskTtl(t)  BY <1>17, <1>0 DEF AskTtl
<1>18. CASE Rewrite(t)  BY <1>18, <1>0 DEF Rewrite
<1>19. CASE DropEntry(t)  BY <1>19, <1>0 DEF DropEntry
<1>20. CASE TrimIndex(t)  BY <1>20, <1>0 DEF TrimIndex
<1>21. CASE Deactivate(t)  BY <1>21, <1>0 DEF Deactivate
<1>22. CASE DropIndex(t)  BY <1>22, <1>0 DEF DropIndex
<1>23. CASE DropMetrics(t)  BY <1>23, <1>0 DEF DropMetrics
<1>24. CASE DeactivateAll(t)  BY <1>24, <1>0 DEF DeactivateAll
<1>25. CASE RedisFails(t)  BY <1>25, <1>0 DEF RedisFails, Mishap
<1>26. CASE Abandon(t)  BY <1>26, <1>0 DEF Abandon, Mishap, Running, Stopped
<1>. QED
  BY <1>1, <1>2, <1>3, <1>4, <1>5, <1>6, <1>7, <1>8, <1>9, <1>10, <1>11,
     <1>12, <1>13, <1>14, <1>15, <1>16, <1>17, <1>18, <1>19, <1>20, <1>21,
     <1>22, <1>23, <1>24, <1>25, <1>26 DEF Step

\* Entries are not lost.
LEMMA CalmKeeps ==
    ASSUME NEW t \in Tasks, CacheInv, Step(t), t \notin Admins
    PROVE  \A k \in Keys : entry[k] # NULL => entry'[k] # NULL
<1>0. /\ CallOk(t) /\ OwnerOk(t) /\ NULL \notin Stores /\ stored \subseteq Stores
      /\ entry \in [Keys -> Stores \cup {NULL}]
  BY CacheAssumption DEF CacheInv, TypeOK, ServeInv
<1>1. pc[t] # "drop_entry"
  BY <1>0 DEF OwnerOk
<1>2. pc[t] = "save_entry" => t # NULL
  BY <1>0 DEF CallOk, StoreStages
<1>3. pc[t] = "rewrite" => seen[t] # NULL
  BY <1>0 DEF CallOk
<1>. QED  BY <1>0, <1>1, <1>2, <1>3, EntryChanges

\* Nor is the client.
LEMMA ClientKept ==
    ASSUME NEW t \in Tasks, CacheInv, Step(t), ~Mishap,
           \A o \in Tasks : redis[o] => client = "ready"
    PROVE  \A o \in Tasks : redis'[o] => client' = "ready"
<1>0. redis \in [Tasks -> BOOLEAN]
  BY DEF CacheInv, TypeOK
<1>1. CASE OpenClient(t)
  BY <1>0, <1>1 DEF OpenClient, locals
<1>2. CASE UseClient(t)
  BY <1>0, <1>2 DEF UseClient, Enter
<1>3. CASE Ping(t)
  BY <1>0, <1>3 DEF Ping, Enter
<1>4. CASE ~OpenClient(t) /\ ~UseClient(t) /\ ~Ping(t)
  <2>1. UNCHANGED <<client, redis>>
    BY <1>4 DEF Step, SaveEntry, LoadIndex, SaveIndex, Insert, ReadIndex,
       ReadRows, Search, ReadEntry, ReadRow, CountHit, CountHitTotal, CountMiss, CountMissTotal,
       Count, LoadEntry, AskTtl, Rewrite, DropEntry, TrimIndex, Deactivate, DropIndex,
       DropMetrics, DeactivateAll, RedisFails, Abandon, locals
  <2>. QED  BY <2>1
<1>. QED  BY <1>1, <1>2, <1>3, <1>4

\* A set of keys of stores is finite.
LEMMA KeysFinite ==
    ASSUME NEW W \in SUBSET Stores, NEW k
    PROVE  IsFiniteSet({KeyOf[o] : o \in W} \ {k})
<1>1. IsFiniteSet(W)
  BY CacheAssumption, FS_Subset
<1> DEFINE T == {KeyOf[o] : o \in W}
           f == [o \in W |-> KeyOf[o]]
<1>2. f \in Surjection(W, T)
  BY DEF Surjection
<1>3. IsFiniteSet(T)
  BY <1>1, <1>2, FS_Surjection
<1>. QED  BY <1>3, FS_Subset

\* Keys are only added to those that were stored after s.
LEMMA LaterGrows ==
    ASSUME NEW t \in Tasks, CacheInv, Step(t), NEW s \in Stores
    PROVE  /\ LaterKeys(s) \subseteq LaterKeys(s)'
           /\ HasRoom(s)' => HasRoom(s)
<1>1. LaterKeys(s) \subseteq LaterKeys(s)'
  <2>1. \A o \in Stores : before[o] \subseteq before'[o]
    <3>1. before \in [Tasks -> SUBSET Tasks] /\ PastOk(t) /\ Stores \subseteq Tasks
      BY DEF CacheInv, TypeOK, Tasks
    <3>. QED  BY <3>1, BeforeChanges DEF Begin, PastOk
  <2>. QED  BY <2>1 DEF LaterKeys
<1>2. IsFiniteSet(LaterKeys(s)')
  <2> DEFINE W == {p \in Stores : s \in before'[p]}
  <2>1. IsFiniteSet({KeyOf[o] : o \in W} \ {KeyOf[s]})
    BY KeysFinite
  <2>. QED  BY <2>1 DEF LaterKeys
<1>3. Cardinality(LaterKeys(s)) <= Cardinality(LaterKeys(s)')
  BY <1>1, <1>2, FS_Subset
<1>4. Cardinality(LaterKeys(s)) \in Nat /\ Cardinality(LaterKeys(s)') \in Nat /\ MaxIndex \in Nat
  BY <1>1, <1>2, FS_Subset, FS_CardinalityType, CacheAssumption
<1>. QED  BY <1>1, <1>3, <1>4 DEF HasRoom

\* A store that was alone after a step it took or saw was alone before.
LEMMA AloneBefore ==
    ASSUME NEW t \in Tasks, CacheInv, Step(t), NEW s \in Stores, pc[s] # "client", Alone(s)'
    PROVE  Alone(s)
<1>0. s \in Tasks /\ Stores \subseteq Tasks /\ ServeInv
  BY DEF Tasks, CacheInv
<1>1. before'[s] = before[s]
  BY <1>0, BeforeChanges, OtherLocals
<1>2. ASSUME NEW o \in Stores \ {s} PROVE o \in before[s] \/ s \in before[o] \/ pc[o] = "client"
  <2>1. o \in before'[s] \/ s \in before'[o] \/ pc'[o] = "client"
    BY DEF Alone
  <2>2. CASE pc[o] # "client"
    <3>1. before'[o] = before[o]
      BY <1>0, <2>2, BeforeChanges, OtherLocals
    <3>2. pc'[o] # "client"
      BY <1>0, <2>2, NotBack, OtherCalls
    <3>. QED  BY <1>1, <2>1, <3>1, <3>2
  <2>. QED  BY <2>2
<1>. QED  BY <1>2 DEF Alone

-----------------------------------------------------------------------------
(* CalmInv is an invariant.                                                *)

\* A match has an entry.
LEMMA MatchIsThere ==
    ASSUME NEW t \in Tasks, CacheInv, CalmOk, ReadIndex(t) \/ ReadRows(t)
    PROVE  pc'[t] = "read_entry" => entry[found'[t]] # NULL
<1>0. /\ ServeInv /\ pc \in [Tasks -> Labels] /\ index \in Seq(Keys)
      /\ found \in [Tasks -> Keys \cup {NULL}]
  BY DEF CacheInv, TypeOK
<1>1. CASE ReadIndex(t)
  <2>2. CASE index = <<>>
    BY <1>0, <1>1, <2>2 DEF ReadIndex, Goto
  <2>3. ASSUME NEW k \in {index[i] : i \in DOMAIN index},
               found' = [found EXCEPT ![t] = k]
        PROVE  entry[found'[t]] # NULL
    <3>1. k \in Keys /\ Lists(index, k)
      BY <1>0, <2>3 DEF Lists
    <3>2. entry[k] # NULL
      BY <3>1 DEF CalmOk
    <3>. QED  BY <1>0, <2>3, <3>2
  <2>4. CASE Goto(t, "count_miss")
    BY <1>0, <2>4 DEF Goto
  <2>. QED  BY <1>1, <2>2, <2>3, <2>4 DEF ReadIndex, Search
<1>2. CASE ReadRows(t)
  BY <1>0, <1>2 DEF ReadRows, Goto
<1>. QED  BY <1>1, <1>2

\* A lookup takes none of the steps of a store.
LEMMA LookupsDoNotStore ==
    ASSUME NEW t \in Lookups, CacheInv
    PROVE  ~SaveEntry(t) /\ ~LoadIndex(t) /\ ~SaveIndex(t) /\ ~Insert(t)
<1>. t \in Tasks /\ t \notin Stores /\ t \notin Admins
  BY CacheAssumption DEF Tasks
<1>. QED
  BY DEF CacheInv, ServeInv, CallOk, OwnerOk, StoreStages, SaveEntry, LoadIndex, SaveIndex, Insert

LEMMA CalmOkStep ==
    ASSUME NEW t \in Tasks, CalmInv, Step(t), Calm'
    PROVE  CalmOk'
<1>0. /\ CacheInv /\ CalmOk /\ ServeInv /\ t \notin Admins /\ ~Mishap
      /\ Stores \subseteq Tasks /\ Lookups \subseteq Tasks /\ Stores \cap Lookups = {}
      /\ KeyOf \in [Tasks -> Keys] /\ pc \in [Tasks -> Labels]
      /\ entry \in [Keys -> Stores \cup {NULL}] /\ NULL \notin Stores
      /\ copy \in [Tasks -> Seq(Keys)]
  BY CalmBefore, CacheAssumption DEF CalmInv, CacheInv, TypeOK, Tasks
<1>1. \A k \in Keys : entry[k] # NULL => entry'[k] # NULL
  BY <1>0, CalmKeeps
<1>2. ASSUME NEW s \in Stores, pc'[s] \in {"load_index", "save_index"}
      PROVE  entry'[KeyOf[s]] # NULL
  <2>1. CASE s # t
    BY <1>0, <1>1, <1>2, <2>1, OtherCalls DEF CalmOk
  <2>2. CASE s = t /\ SaveEntry(t)
    BY <1>0, <2>2 DEF SaveEntry
  <2>3. CASE s = t /\ LoadIndex(t)
    BY <1>0, <1>1, <2>3 DEF LoadIndex, CalmOk
  <2>4. CASE s = t /\ ~SaveEntry(t) /\ ~LoadIndex(t)
    <3>1. pc[t] \notin SearchStages \cup MatchStages \cup MissStages
      BY <1>0, <2>4 DEF CacheInv, ServeInv, CallOk
    <3>2. Arrives(t) \/ SaveIndex(t) \/ Insert(t)
      BY <1>0, <2>4, <3>1, CalmMoves
         DEF Counts, ReadIndex, ReadRows, ReadEntry, ReadRow, SearchStages, MatchStages
    <3>3. pc'[t] \notin {"load_index", "save_index"}
      BY <1>0, <2>4, <3>2 DEF Arrives, SaveIndex, Insert, Goto
    <3>. QED  BY <1>2, <2>4, <3>3
  <2>. QED  BY <2>1, <2>2, <2>3, <2>4
<1>3. ASSUME NEW k \in Keys, Lists(index', k)
      PROVE  entry'[k] # NULL
  <2>1. CASE SaveIndex(t)
    <3> DEFINE c == copy[t]
    <3>1. /\ c \in Seq(Keys) /\ Distinct(c) /\ KeyOf[t] \in Keys /\ t \in Stores
          /\ pc[t] = "save_index"
      BY <1>0, <2>1 DEF SaveIndex, CacheInv, TypeOK, ServeInv, CallOk, StoreStages
    <3>2. index' = Prune(Append(Without(c, KeyOf[t]), KeyOf[t]))
      BY <2>1 DEF SaveIndex
    <3> HIDE DEF c
    <3>3. Lists(c, k) \/ k = KeyOf[t]
      BY <1>3, <3>1, <3>2, SavedIndex
    <3>4. entry[k] # NULL
      BY <1>0, <3>1, <3>3 DEF CalmOk, c
    <3>. QED  BY <1>1, <3>4
  <2>2. CASE ~SaveIndex(t)
    <3>1. pc[t] \notin {"trim_index", "drop_index"}
      BY <1>0 DEF CacheInv, ServeInv, CallOk, OwnerOk, Trimming, FlushStages
    <3>2. UNCHANGED index
      BY <2>2, <3>1, IndexChanges DEF TrimIndex, DropIndex
    <3>. QED  BY <1>0, <1>1, <1>3, <3>2 DEF CalmOk
  <2>. QED  BY <2>1, <2>2
<1>4. ASSUME NEW o \in Tasks, NEW k \in Keys, Lists(copy'[o], k)
      PROVE  entry'[k] # NULL
  <2>1. copy'[o] = copy[o] \/ copy'[o] = index
    BY <1>0, CopyChanges
  <2>2. Lists(copy[o], k) \/ Lists(index, k)
    BY <1>4, <2>1
  <2>. QED  BY <1>0, <1>1, <2>2 DEF CalmOk
<1>5. \A o \in Tasks : redis'[o] => client' = "ready"
  BY <1>0, ClientKept DEF CalmOk
<1>6. ASSUME NEW l \in Lookups, pc'[l] = "read_entry"
      PROVE  entry'[found'[l]] # NULL
  <2>0. found'[l] \in Keys
    BY <1>0, <1>6, CacheStep DEF CacheInv, ServeInv, CallOk, MatchStages
  <2>1. CASE l # t
    BY <1>0, <1>1, <1>6, <2>0, <2>1, OtherCalls DEF CalmOk
  <2>2. CASE l = t /\ (ReadIndex(t) \/ ReadRows(t))
    BY <1>0, <1>1, <1>6, <2>0, <2>2, MatchIsThere
  <2>3. CASE l = t /\ (ReadEntry(t) \/ ReadRow(t))
    BY <1>0, <1>6, <2>3 DEF ReadEntry, ReadRow, Goto
  <2>5. CASE l = t /\ ~(ReadIndex(t) \/ ReadRows(t) \/ ReadEntry(t) \/ ReadRow(t))
    <3>1. Arrives(t) \/ Counts(t)
      BY <1>0, <2>5, CalmMoves, LookupsDoNotStore
    <3>. QED  BY <1>0, <1>6, <2>5, <3>1 DEF Arrives, Counts
  <2>. QED  BY <2>1, <2>2, <2>3, <2>5
<1>. QED  BY <1>2, <1>3, <1>4, <1>5, <1>6 DEF CalmOk

LEMMA ListedStep ==
    ASSUME NEW t \in Tasks, CalmInv, Step(t), Calm'
    PROVE  ListedOk'
<1>0. /\ CacheInv /\ CacheInv' /\ CalmOk /\ ListedOk /\ ServeInv /\ t \notin Admins /\ ~Mishap
      /\ Stores \subseteq Tasks /\ KeyOf \in [Tasks -> Keys] /\ pc \in [Tasks -> Labels]
      /\ copy \in [Tasks -> Seq(Keys)] /\ pc[t] \notin Over
  BY CalmBefore, CacheStep, NotOver, CacheAssumption DEF CalmInv, CacheInv, TypeOK, Tasks
<1> SUFFICES ASSUME NEW s \in Stores, Alone(s)', HasRoom(s)', redis'[s],
                    pc'[s] \in Over \cup {"insert"}
             PROVE  /\ Keeps(index', s, LaterKeys(s)')
                    /\ \A o \in Stores : s \in before'[o] /\ pc'[o] = "save_index"
                                            => Keeps(copy'[o], s, LaterKeys(s)')
  BY DEF ListedOk
<1>1. \A o \in Tasks : s \in before[o] => pc[s] \in Over
  BY <1>0 DEF CacheInv, PastOk
<1>2. ~SaveIndex(t) => UNCHANGED index
  <2>1. pc[t] \notin {"trim_index", "drop_index"}
    BY <1>0 DEF CacheInv, ServeInv, CallOk, OwnerOk, Trimming, FlushStages
  <2>. QED  BY <2>1, IndexChanges DEF TrimIndex, DropIndex
<1>a. LaterKeys(s) \subseteq LaterKeys(s)' /\ HasRoom(s)
  BY <1>0, LaterGrows
<1>b. \A q : Keeps(q, s, LaterKeys(s)) => Keeps(q, s, LaterKeys(s)')
  BY <1>a DEF Keeps
<1>3. ASSUME SaveIndex(t)
      PROVE  /\ t \in Stores /\ pc[t] = "save_index" /\ pc'[t] = "insert"
             /\ UNCHANGED <<copy, before, redis>>
             /\ s = t => Keeps(index', s, LaterKeys(s))
             /\ s \in before[t] /\ Keeps(copy[t], s, LaterKeys(s)) => Keeps(index', s, LaterKeys(s))
  <2> DEFINE c == copy[t]
             a == Append(Without(c, KeyOf[t]), KeyOf[t])
  <2>1. c \in Seq(Keys) /\ Distinct(c) /\ KeyOf[t] \in Keys /\ t \in Stores
    BY <1>0, <1>3 DEF SaveIndex, CacheInv, TypeOK, ServeInv, CallOk, StoreStages
  <2>2. /\ index' = Prune(a) /\ pc[t] = "save_index" /\ pc'[t] = "insert"
        /\ UNCHANGED <<copy, before, redis>>
    BY <1>0, <1>3 DEF SaveIndex, Goto, locals, history
  <2> HIDE DEF c
  <2>3. /\ a \in Seq(Keys) /\ Distinct(a)
        /\ \A x : Lists(a, x) <=> Lists(c, x) \/ x = KeyOf[t]
        /\ Behind(a, KeyOf[t]) = {}
        /\ \A x : x # KeyOf[t] => Behind(a, x) \subseteq Behind(c, x) \cup {KeyOf[t]}
    BY <2>1, SavedIndex
  <2> HIDE DEF a
  <2>4. IsFiniteSet(LaterKeys(s)) /\ Cardinality(LaterKeys(s)) < MaxIndex
    <3> DEFINE W == {p \in Stores : s \in before[p]}
    <3>1. IsFiniteSet({KeyOf[o] : o \in W} \ {KeyOf[s]})
      BY KeysFinite
    <3>. QED  BY <1>a, <3>1 DEF LaterKeys, HasRoom
  <2>5. ASSUME Lists(a, KeyOf[s]), Behind(a, KeyOf[s]) \subseteq LaterKeys(s)
        PROVE  Keeps(index', s, LaterKeys(s))
    BY <2>2, <2>3, <2>4, <2>5, PruneKeeps DEF Keeps
  <2>6. CASE KeyOf[s] = KeyOf[t]
    BY <2>1, <2>2, <2>3, <2>5, <2>6
  <2>7. CASE KeyOf[s] # KeyOf[t]
    <3>1. s # t
      BY <2>7
    <3>2. ASSUME s \in before[t], Keeps(c, s, LaterKeys(s)) PROVE Keeps(index', s, LaterKeys(s))
      <4>1. KeyOf[t] \in LaterKeys(s)
        BY <2>1, <2>7, <3>2 DEF LaterKeys
      <4>. QED  BY <2>3, <2>5, <2>7, <3>2, <4>1 DEF Keeps
    <3>. QED  BY <2>1, <2>2, <3>1, <3>2 DEF c
  <2>. QED  BY <2>6, <2>7
<1>4. CASE s = t
  <2>1. CASE SaveIndex(t)
    <3>1. \A o \in Stores : s \notin before'[o]
      BY <1>0, <1>1, <1>3, <1>4, <2>1 DEF Over
    <3>. QED  BY <1>3, <1>4, <1>b, <2>1, <3>1
  <2>2. CASE Insert(t)
    <3>1. pc[t] = "insert" /\ UNCHANGED <<index, copy, redis, before>>
      BY <2>2 DEF Insert, tiers, locals, history
    <3>2. Alone(s)
      BY <1>0, <1>4, <3>1, AloneBefore
    <3>3. \A o \in Stores : o # t => pc'[o] = pc[o]
      BY <1>0, OtherCalls
    <3>4. pc'[t] # "save_index"
      BY <1>0, <2>2 DEF Insert, Goto
    <3>5. /\ Keeps(index, s, LaterKeys(s))
          /\ \A o \in Stores : s \in before[o] /\ pc[o] = "save_index"
                                 => Keeps(copy[o], s, LaterKeys(s))
      BY <1>0, <1>4, <1>a, <3>1, <3>2 DEF ListedOk
    <3>. QED  BY <1>0, <1>4, <1>b, <3>1, <3>3, <3>4, <3>5
  <2>3. CASE ~SaveIndex(t) /\ ~Insert(t)
    <3>1. pc[t] \notin SearchStages \cup MatchStages \cup MissStages
      BY <1>0, <1>4, CacheAssumption DEF CacheInv, ServeInv, CallOk
    <3>2. Arrives(t) \/ SaveEntry(t) \/ LoadIndex(t)
      BY <1>0, <2>3, <3>1, CalmMoves
         DEF Counts, ReadIndex, ReadRows, ReadEntry, ReadRow, SearchStages, MatchStages,
             HitStages
    <3>3. ~(redis'[s] /\ pc'[s] \in Over \cup {"insert"})
      BY <1>0, <1>4, <3>2 DEF Arrives, SaveEntry, LoadIndex, Goto, Over
    <3>. QED  BY <3>3
  <2>. QED  BY <2>1, <2>2, <2>3
<1>5. CASE s # t
  <2>1. pc'[s] = pc[s] /\ redis'[s] = redis[s] /\ before'[s] = before[s]
    BY <1>0, <1>5, OtherCalls, OtherLocals
  <2>2. Alone(s)
    BY <1>0, <2>1, AloneBefore DEF Over
  <2>3. /\ Keeps(index, s, LaterKeys(s))
        /\ \A o \in Stores : s \in before[o] /\ pc[o] = "save_index"
                                 => Keeps(copy[o], s, LaterKeys(s))
    BY <1>0, <1>a, <2>1, <2>2 DEF ListedOk
  <2>4. Keeps(index', s, LaterKeys(s)')
    <3>1. CASE SaveIndex(t)
      <4>1. s \in before[t]
        <5>1. t \in before[s] => pc[t] \in Over
          BY <1>0 DEF CacheInv, PastOk
        <5>. QED  BY <1>0, <1>3, <1>5, <2>2, <3>1, <5>1 DEF Alone
      <4>. QED  BY <1>3, <1>b, <2>3, <3>1, <4>1
    <3>. QED  BY <1>2, <1>b, <2>3, <3>1
  <2>5. ASSUME NEW o \in Stores, s \in before'[o], pc'[o] = "save_index"
        PROVE  Keeps(copy'[o], s, LaterKeys(s)')
    <3>1. CASE o # t
      BY <1>0, <1>b, <2>3, <2>5, <3>1, OtherCalls, OtherLocals
    <3>2. CASE o = t
      <4>1. pc[t] \notin SearchStages \cup MatchStages \cup MissStages
        BY <1>0, <3>2, CacheAssumption DEF CacheInv, ServeInv, CallOk
      <4>2. Arrives(t) \/ SaveEntry(t) \/ LoadIndex(t) \/ SaveIndex(t) \/ Insert(t)
        BY <1>0, <4>1, CalmMoves
           DEF Counts, ReadIndex, ReadRows, ReadEntry, ReadRow, SearchStages, MatchStages,
               HitStages
      <4>3. LoadIndex(t)
        BY <1>0, <2>5, <3>2, <4>2 DEF Arrives, SaveEntry, SaveIndex, Insert, Goto
      <4>4. copy'[t] = index
        BY <1>0, <4>3 DEF LoadIndex
      <4>. QED  BY <1>b, <2>3, <3>2, <4>4
    <3>. QED  BY <3>1, <3>2
  <2>. QED  BY <2>4, <2>5
<1>. QED  BY <1>4, <1>5

LEMMA FoundStep ==
    ASSUME NEW t \in Tasks, CalmInv, Step(t), Calm'
    PROVE  FoundOk'
<1>0. /\ CacheInv /\ CacheInv' /\ CalmOk /\ ListedOk /\ FoundOk /\ ServeInv
      /\ t \notin Admins /\ ~Mishap
      /\ Stores \subseteq Tasks /\ Lookups \subseteq Tasks /\ KeyOf \in [Tasks -> Keys]
      /\ pc \in [Tasks -> Labels] /\ redis \in [Tasks -> BOOLEAN] /\ pc[t] \notin Over
      /\ before \in [Tasks -> SUBSET Tasks]
      /\ Stores \cap Lookups = {}
  BY CalmBefore, CacheStep, NotOver, CacheAssumption DEF CalmInv, CacheInv, TypeOK, Tasks
<1> SUFFICES ASSUME NEW l \in Lookups, NEW s \in Stores,
                    s \in before'[l], redis'[s], KeyOf[l] = KeyOf[s],
                    <<KeyOf[s], KeyOf[s]>> \in Similar, Alone(s)', HasRoom(s)'
             PROVE  answer'[l] # NULL \/ pc'[l] \in {"read_index", "read_entry"}
  BY DEF FoundOk
<1>a. HasRoom(s)
  BY <1>0, LaterGrows
<1>1. CASE l = t /\ pc[t] = "client"
  <2>1. before'[t] = {o \in Tasks : pc[o] \in Over}
    BY <1>0, <1>1, BeforeChanges DEF Begin
  <2>2. pc[s] \in Over /\ s # t
    BY <1>0, <1>1, <2>1
  <2>3. redis[s]
    BY <1>0, <2>2, OtherLocals
  <2>4. client = "ready"
    BY <1>0, <2>3 DEF CalmOk
  <2>5. UseClient(t)
    BY <1>1, <2>4 DEF Step, OpenClient, UseClient, Ping, SaveEntry, LoadIndex, SaveIndex, Insert,
       ReadIndex, ReadRows, Search, ReadEntry, ReadRow, CountHit, CountHitTotal, CountMiss,
       CountMissTotal, Count, LoadEntry, AskTtl, Rewrite, DropEntry, TrimIndex, Deactivate,
       DropIndex, DropMetrics, DeactivateAll, RedisFails, Abandon, Running
  <2>. QED  BY <1>0, <1>1, <2>4, <2>5, CacheAssumption DEF UseClient, Enter, Goto
<1>2. CASE ~(l = t /\ pc[t] = "client")
  <2>1. before'[l] = before[l]
    BY <1>0, <1>2, BeforeChanges, OtherLocals
  <2>2. pc[s] \in Over /\ s # t
    BY <1>0, <2>1 DEF CacheInv, PastOk
  <2>3. redis'[s] = redis[s] /\ Alone(s)
    BY <1>0, <2>2, OtherLocals, AloneBefore DEF Over
  <2>4. answer[l] # NULL \/ pc[l] \in {"read_index", "read_entry"}
    BY <1>0, <1>a, <2>1, <2>3 DEF FoundOk
  <2>5. Lists(index, KeyOf[s])
    BY <1>0, <1>a, <2>2, <2>3 DEF ListedOk, Keeps
  <2>6. CASE l # t
    BY <1>0, <2>4, <2>6, OtherCalls
  <2>7. CASE l = t /\ pc[t] \notin {"read_index", "read_entry"}
    <3>1. UNCHANGED answer
      BY <2>7, AnswerChanges
    <3>. QED  BY <2>4, <2>7, <3>1
  <2>8. CASE l = t /\ pc[t] \in {"read_index", "read_entry"}
    <3>1. ReadIndex(t) \/ ReadEntry(t)
      BY <1>0, <2>8, CalmMoves
         DEF Arrives, Counts, SaveEntry, LoadIndex, SaveIndex, Insert, HitStages, MissStages,
             ReadRows, ReadRow
    <3>2. CASE ReadIndex(t)
      <4> DEFINE C == {index[i] : i \in DOMAIN index}
      <4>1. index # <<>> /\ KeyOf[s] \in C
        BY <2>5 DEF Lists
      <4>2. Search(t, C)
        BY <3>2, <4>1 DEF ReadIndex
      <4>3. KeyOf[s] \in {k \in C : <<KeyOf[t], k>> \in Similar}
        BY <2>8, <4>1
      <4>. QED  BY <1>0, <2>8, <4>2, <4>3 DEF Search, Goto
    <3>3. CASE ReadEntry(t)
      <4>1. entry[found[t]] # NULL
        BY <1>0, <2>8, <3>3 DEF ReadEntry, CalmOk
      <4>. QED  BY <1>0, <2>8, <3>3, <4>1 DEF ReadEntry, CacheInv, TypeOK
    <3>. QED  BY <3>1, <3>2, <3>3
  <2>. QED  BY <1>2, <2>6, <2>7, <2>8
<1>. QED  BY <1>1, <1>2

\* What a store that was alone saved in Redis is found by every lookup of its
\* question that begins later, as long as nothing was invalidated or went wrong and
\* fewer than MaxIndex other keys were stored since: the index lists its key, with
\* later keys only behind it, and forgets keys from the front.
THEOREM QuietStoresTheorem == Spec => []QuietStoresAreFound
<1>1. Init => CalmInv
  <2> SUFFICES ASSUME Init PROVE CalmOk /\ ListedOk /\ FoundOk
    BY CacheInit DEF CalmInv
  <2> USE DEF Init, Tasks
  <2>1. CalmOk
    BY DEF CalmOk, Lists
  <2>2. ListedOk
    BY DEF ListedOk, Over
  <2>3. FoundOk
    BY DEF FoundOk
  <2>. QED  BY <2>1, <2>2, <2>3
<1>2. CalmInv /\ [Next]_vars => CalmInv'
  <2> SUFFICES ASSUME CalmInv, [Next]_vars PROVE CalmInv'
    OBVIOUS
  <2>1. CacheInv /\ CacheInv'
    BY CacheNext DEF CalmInv
  <2>2. CASE UNCHANGED vars
    <3>1. Calm' => CalmOk' /\ ListedOk' /\ FoundOk'
      BY <2>2 DEF vars, CalmInv, Calm, CalmOk, ListedOk, FoundOk, Keeps, HasRoom,
                       LaterKeys, Alone
    <3>. QED  BY <2>1, <3>1 DEF CalmInv
  <2>3. ASSUME NEW t \in Tasks, Step(t) PROVE CalmInv'
    BY <2>1, <2>3, CalmOkStep, ListedStep, FoundStep DEF CalmInv
  <2>4. CASE World
    <3>1. ~Calm'
      BY <2>1, <2>4, WorldChanges DEF Calm
    <3>. QED  BY <2>1, <3>1 DEF CalmInv
  <2>. QED  BY <2>2, <2>3, <2>4 DEF Next, World
<1>3. CalmInv => QuietStoresAreFound
  BY DEF CalmInv, Calm, FoundOk, QuietStoresAreFound, Alone, HasRoom, Over
<1>. QED  BY <1>1, <1>2, <1>3, PTL DEF Spec
=============================================================================
