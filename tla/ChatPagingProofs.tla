-------------------------- MODULE ChatPagingProofs --------------------------
(***************************************************************************)
(* Proofs about what the SELECTs of ChatStore return, for any calls and    *)
(* any limits: a client that reads page after page misses nothing          *)
(* (PagingIsComplete), and a turn is given the beginning of its history.   *)
(*                                                                         *)
(* A read is several requests, and turns are committed between them.  The  *)
(* invariant says what a read has by now; it speaks of began through a     *)
(* parameter, b, because the order of what is stored does not change when  *)
(* another call begins.                                                    *)
(***************************************************************************)
EXTENDS ChatStoreProofs

-----------------------------------------------------------------------------
(* The order of a history, given when its writers began.                   *)

TiedBy(b, M, m) == {x \in M : b[x[1]] = b[m[1]]}
EarlierBy(b, M, m) == {x \in M : b[x[1]] < b[m[1]]}

PlacesBy(b, M, m) ==
    LET before == Cardinality(EarlierBy(b, M, m))
    IN before + 1 .. before + Cardinality(TiedBy(b, M, m))

\* The tie of m is on page p, counted from 0, with all its messages.
OnPage(b, M, m, p) == \A x \in PlacesBy(b, M, m) : (x - 1) \div PageSize = p

\* G has what is on the first n pages of M, but for the ties a border divides.
HasPages(b, M, G, n) == \A m \in M : \A p \in 0 .. n - 1 : OnPage(b, M, m, p) => m \in G

-----------------------------------------------------------------------------
(* The invariant of a read.                                                *)

\* The pages that the client has.
Done(r) == IF pc[r] \in {"count", "select"} THEN asked[r] - 1 ELSE asked[r]

\* From its first COUNT on a read has an idea of what there is.
Reading(r) == pc[r] = "select" \/ (pc[r] \in {"start", "count"} /\ Done(r) > 0)

Intact(r) == session[SessionOf[r]] = "gone" \/ counted[r] \subseteq messages[SessionOf[r]]

\* Since the first COUNT nothing was removed and only later turns were added.
Still(r) == Continues(messages[SessionOf[r]], counted[r])

PageInv(r) ==
    /\ pc[r] \in {"count", "select"} => asked[r] > 0
    /\ Reading(r) => Intact(r)
    /\ Reading(r) /\ Still(r) => HasPages(began, counted[r], got[r], Done(r))
    /\ pc[r] = "select" /\ Still(r) => Cardinality(counted[r]) <= total[r]
    /\ \A m \in counted[r] \cup listed[r] : m[1] \in Calls /\ pc[m[1]] \in Ended
    /\ IsFiniteSet(counted[r])
    /\ pc[r] = "listed" /\ Continues(listed[r], counted[r]) =>
           /\ HasPages(began, counted[r], got[r], TotalPages(total[r]))
           /\ Cardinality(counted[r]) <= total[r]

PagingInv == \A r \in Reads : PageInv(r)
-----------------------------------------------------------------------------
(* Places and pages.                                                       *)

\* Quotient and remainder, as the solver needs them.
LEMMA Quotient ==
    ASSUME NEW x \in Nat, NEW n \in Nat \ {0}
    PROVE  x \div n \in Nat /\ (x \div n) * n <= x /\ x < (x \div n + 1) * n
BY SMT

\* Page a - 1 is what the request for page a reads: OFFSET (a - 1) * PageSize.
LEMMA PlaceOnPage ==
    ASSUME NEW x \in Nat \ {0}, NEW a \in Nat \ {0}, (x - 1) \div PageSize = a - 1
    PROVE  x \in (a - 1) * PageSize + 1 .. (a - 1) * PageSize + PageSize
<1>1. PageSize \in Nat \ {0} BY ChatAssumption DEF ChatAssumption
<1>2. x - 1 \in Nat OBVIOUS
<1>3. (a - 1) * PageSize <= x - 1 /\ x - 1 < ((a - 1) + 1) * PageSize BY <1>1, <1>2, Quotient
<1>4. ((a - 1) + 1) * PageSize = (a - 1) * PageSize + PageSize BY <1>1
<1>5. (a - 1) * PageSize \in Nat BY <1>1
<1>. QED BY <1>1, <1>3, <1>4, <1>5

LEMMA WholePages ==
    ASSUME NEW n \in Nat
    PROVE  TotalPages(n) \in Nat
<1>1. PageSize \in Nat \ {0} BY ChatAssumption DEF ChatAssumption
<1>2. n + PageSize - 1 \in Nat BY <1>1
<1>. QED BY <1>1, <1>2, Quotient DEF TotalPages

\* The quotient is rounded up: all of n messages are on the first TotalPages(n).
LEMMA PlaceWithin ==
    ASSUME NEW n \in Nat, NEW x \in 1 .. n
    PROVE  (x - 1) \div PageSize \in 0 .. TotalPages(n) - 1
<1>1. PageSize \in Nat \ {0} BY ChatAssumption DEF ChatAssumption
<1> DEFINE k == (x - 1) \div PageSize
           q == (n + PageSize - 1) \div PageSize
<1>2. TotalPages(n) = q BY DEF TotalPages
<1>3. x - 1 \in Nat /\ n + PageSize - 1 \in Nat BY <1>1
<1>4. k \in Nat /\ k * PageSize <= x - 1 BY <1>1, <1>3, Quotient
<1>5. q \in Nat /\ n + PageSize - 1 < (q + 1) * PageSize BY <1>1, <1>3, Quotient
<1> HIDE DEF k, q
<1>6. (q + 1) * PageSize = q * PageSize + PageSize BY <1>1, <1>5
<1>7. k * PageSize \in Nat /\ q * PageSize \in Nat BY <1>1, <1>4, <1>5
<1>8. k * PageSize < q * PageSize BY <1>1, <1>4, <1>5, <1>6, <1>7
<1>9. k < q BY <1>1, <1>4, <1>5, <1>8
<1>. QED BY <1>2, <1>4, <1>5, <1>9 DEF k

\* A tie has as many places as messages, all of them among those of the history.
LEMMA PlacesOfTie ==
    ASSUME NEW b, NEW M, IsFiniteSet(M), NEW m \in M, \A x \in M : b[x[1]] \in Nat
    PROVE  /\ IsFiniteSet(TiedBy(b, M, m)) /\ m \in TiedBy(b, M, m)
           /\ PlacesBy(b, M, m) \subseteq 1 .. Cardinality(M)
           /\ PlacesBy(b, M, m) # {}
           /\ Cardinality(PlacesBy(b, M, m)) = Cardinality(TiedBy(b, M, m))
<1> DEFINE T == TiedBy(b, M, m)
           E == EarlierBy(b, M, m)
<1>1. T \in SUBSET M /\ E \in SUBSET M /\ m \in T /\ T \cap E = {}
    BY DEF TiedBy, EarlierBy
<1>2. PlacesBy(b, M, m) = Cardinality(E) + 1 .. Cardinality(E) + Cardinality(T)
    BY DEF PlacesBy
<1> HIDE DEF T, E
<1>3. IsFiniteSet(T) /\ IsFiniteSet(E) BY <1>1, FS_Subset
<1>4. Cardinality(T) \in Nat /\ Cardinality(E) \in Nat /\ Cardinality(M) \in Nat
    BY <1>3, FS_CardinalityType
<1>5. Cardinality(T) # 0 BY <1>1, <1>3, FS_EmptySet
<1>6. Cardinality(E) + Cardinality(T) <= Cardinality(M)
    <2>1. Cardinality(E \cup T) = Cardinality(E) + Cardinality(T) - Cardinality(E \cap T)
        BY <1>3, FS_Union
    <2>2. Cardinality(E \cap T) = 0
        <3>1. E \cap T = {} BY <1>1
        <3>. QED BY <3>1, FS_EmptySet
    <2>3. Cardinality(E \cup T) <= Cardinality(M)
        <3>1. E \cup T \in SUBSET M BY <1>1
        <3>. QED BY <3>1, FS_Subset
    <2>. QED BY <1>4, <2>1, <2>2, <2>3
<1>7. Cardinality(PlacesBy(b, M, m)) = Cardinality(T)
    <2>1. Cardinality(E) + 1 \in Int /\ Cardinality(E) + Cardinality(T) \in Int BY <1>4
    <2>2. Cardinality(PlacesBy(b, M, m)) =
              IF Cardinality(E) + 1 > Cardinality(E) + Cardinality(T) THEN 0
              ELSE (Cardinality(E) + Cardinality(T)) - (Cardinality(E) + 1) + 1
        BY <1>2, <2>1, FS_Interval
    <2>. QED BY <1>4, <1>5, <2>2
<1>8. PlacesBy(b, M, m) \subseteq 1 .. Cardinality(M) BY <1>2, <1>4, <1>6
<1>9. Cardinality(E) + 1 \in PlacesBy(b, M, m) BY <1>2, <1>4, <1>5
<1>. QED BY <1>1, <1>3, <1>7, <1>8, <1>9 DEF T

\* A SELECT for page a returns every tie that is on that page as a whole.
LEMMA SelectedPage ==
    ASSUME TypeOK, NEW M \in SUBSET Messages, IsFiniteSet(M),
           NEW a \in Nat \ {0}, NEW P \in Pages(M, (a - 1) * PageSize, PageSize),
           NEW m \in M, OnPage(began, M, m, a - 1)
    PROVE  m \in P
<1> DEFINE X == PlacesBy(began, M, m)
           T == TiedBy(began, M, m)
<1>1. \A x \in M : began[x[1]] \in Nat BY DEF TypeOK, Messages
<1>2. /\ IsFiniteSet(T) /\ m \in T /\ X \subseteq 1 .. Cardinality(M)
      /\ Cardinality(X) = Cardinality(T)
    BY <1>1, PlacesOfTie
<1>3. Cardinality(M) \in Nat BY FS_CardinalityType
<1>4. Cardinality(P \cap T) =
          Cardinality(X \cap ((a - 1) * PageSize + 1 .. (a - 1) * PageSize + PageSize))
    BY DEF Pages, Places, Tied, PlacesBy, TiedBy, EarlierBy
<1>5. \A x \in X : (x - 1) \div PageSize = a - 1 BY DEF OnPage
<1> HIDE DEF X, T
<1>6. X \cap ((a - 1) * PageSize + 1 .. (a - 1) * PageSize + PageSize) = X
    <2>1. \A x \in X : x \in Nat \ {0} BY <1>2, <1>3
    <2>2. \A x \in X : x \in (a - 1) * PageSize + 1 .. (a - 1) * PageSize + PageSize
        BY <1>5, <2>1, PlaceOnPage
    <2>. QED BY <2>2
<1>7. P \cap T = T
    <2>1. P \cap T \in SUBSET T OBVIOUS
    <2>2. Cardinality(P \cap T) = Cardinality(T) BY <1>2, <1>4, <1>6
    <2>. QED BY <1>2, <2>1, <2>2, FS_Subset
<1>. QED BY <1>2, <1>7

\* What is written later takes later places.
LEMMA LaterPlaces ==
    ASSUME NEW M, NEW N, Continues(N, M), NEW m \in M, \A x \in N : began[x[1]] \in Nat
    PROVE  PlacesBy(began, N, m) = PlacesBy(began, M, m)
<1>1. M \subseteq N /\ \A x \in N \ M : began[m[1]] < began[x[1]] BY DEF Continues
<1>2. TiedBy(began, N, m) = TiedBy(began, M, m) BY <1>1 DEF TiedBy
<1>3. EarlierBy(began, N, m) = EarlierBy(began, M, m) BY <1>1 DEF EarlierBy
<1>. QED BY <1>2, <1>3 DEF PlacesBy

\* The order of a history is that of its writers alone.
LEMMA SameOrder ==
    ASSUME NEW M, NEW b, NEW c, \A m \in M : b[m[1]] = c[m[1]], NEW G, NEW n
    PROVE  HasPages(b, M, G, n) <=> HasPages(c, M, G, n)
<1>1. \A m \in M : TiedBy(b, M, m) = TiedBy(c, M, m) /\ EarlierBy(b, M, m) = EarlierBy(c, M, m)
    BY DEF TiedBy, EarlierBy
<1>2. \A m \in M : PlacesBy(b, M, m) = PlacesBy(c, M, m) BY <1>1 DEF PlacesBy
<1>. QED BY <1>2 DEF HasPages, OnPage

\* Who has all pages of n messages or more has every one of these whose tie no
\* border divides.
LEMMA AllPages ==
    ASSUME TypeOK, NEW M \in SUBSET Messages, IsFiniteSet(M), NEW G,
           NEW n \in Nat, Cardinality(M) <= n, HasPages(began, M, G, TotalPages(n))
    PROVE  M \ Divided(M) \subseteq G
<1> SUFFICES ASSUME NEW m \in M, m \notin Divided(M) PROVE m \in G OBVIOUS
<1> DEFINE X == PlacesBy(began, M, m)
<1>1. \A x \in M : began[x[1]] \in Nat BY DEF TypeOK, Messages
<1>2. X \subseteq 1 .. Cardinality(M) /\ X # {} BY <1>1, PlacesOfTie
<1>3. Cardinality(M) \in Nat BY FS_CardinalityType
<1>4. \A x, y \in X : (x - 1) \div PageSize = (y - 1) \div PageSize
    BY DEF Divided, Places, Tied, PlacesBy, TiedBy, EarlierBy
<1>5. PICK x \in X : TRUE BY <1>2
<1>6. x \in 1 .. n BY <1>2, <1>3, <1>5
<1>7. (x - 1) \div PageSize \in 0 .. TotalPages(n) - 1 BY <1>6, PlaceWithin
<1>8. OnPage(began, M, m, (x - 1) \div PageSize) BY <1>4, <1>5 DEF OnPage
<1>. QED BY <1>7, <1>8 DEF HasPages

-----------------------------------------------------------------------------
(* What the steps of others leave to a call that has read.                 *)

LEMMA OwnLists ==
    ASSUME TypeOK, NEW t \in Calls, Step(t), NEW u \in Calls, u # t
    PROVE  /\ got'[u] = got[u] /\ counted'[u] = counted[u] /\ listed'[u] = listed[u]
           /\ u \in Reads => asked'[u] = asked[u] /\ total'[u] = total[u]
<1> USE Kinds DEF TypeOK, locals, past
<1>1. CASE Settle(t)
    BY <1>1 DEF Settle, Commit, CommitLost
<1>2. CASE Quit(t)
    BY <1>2 DEF Quit, Refuse, Fails, Abandon, RollBack
<1>3. CASE Find(t) \/ FindForDelete(t) \/ Miss(t) \/ InsertSession(t)
    BY <1>3 DEF Find, FindForDelete, Miss, InsertSession
<1>4. CASE CountMessages(t) \/ SelectPage(t) \/ Think(t)
    BY <1>4 DEF CountMessages, SelectPage, Think
<1>5. CASE InsertUser(t) \/ InsertAssistant(t) \/ InsertFirst(t)
    BY <1>5 DEF InsertUser, InsertAssistant, InsertFirst, Insert
<1>6. CASE Increment(t) \/ Delete(t)
    BY <1>6 DEF Increment, Delete
<1>. QED BY <1>1, <1>2, <1>3, <1>4, <1>5, <1>6 DEF Step, Proceed, Settle, Quit

\* A transaction begins for the call itself.
LEMMA OwnTime ==
    ASSUME TypeOK, NEW t \in Calls, Step(t), NEW o \in Calls, o # t
    PROVE  began'[o] = began[o]
BY DEF TypeOK, Step, Proceed, Find, FindForDelete, Miss, InsertSession, Begin, CountMessages,
       SelectPage, Think, InsertUser, InsertAssistant, InsertFirst, Insert, Increment, Delete,
       Commit, CommitLost, Refuse, Fails, Abandon, RollBack

\* Those who wrote what a read has seen are over, and began when they began.
LEMMA WritersAreOver ==
    ASSUME TypeOK, NEW t \in Calls, Step(t), NEW M,
           \A m \in M : m[1] \in Calls /\ pc[m[1]] \in Ended
    PROVE  /\ \A m \in M : m[1] \in Calls /\ pc'[m[1]] \in Ended
           /\ \A m \in M : began'[m[1]] = began[m[1]]
           /\ \A G, n : HasPages(began', M, G, n) <=> HasPages(began, M, G, n)
<1>1. pc[t] \notin Ended BY OverIsOver
<1>2. \A m \in M : m[1] # t BY <1>1
<1>3. \A m \in M : pc'[m[1]] = pc[m[1]] BY <1>2, OwnState
<1>4. \A m \in M : began'[m[1]] = began[m[1]] BY <1>2, OwnTime
<1>5. \A G, n : HasPages(began', M, G, n) <=> HasPages(began, M, G, n) BY <1>4, SameOrder
<1>. QED BY <1>3, <1>4, <1>5

\* What was counted is still there, and a history that continues it now did so before.
LEMMA StaysIntact ==
    ASSUME IInv, NEW t \in Calls, Step(t), NEW r \in Reads, counted'[r] = counted[r], Intact(r),
           \A m \in counted[r] : m[1] \in Calls /\ pc[m[1]] \in Ended
    PROVE  Intact(r)' /\ (Still(r)' => Still(r))
<1> DEFINE s == SessionOf[r]
<1>1. TypeOK /\ RowsOk /\ s \in Creates BY Kinds DEF IInv
<1>2. session[s] = "gone" => messages[s] = {} BY <1>1 DEF RowsOk
<1>3. Intact(r)' BY <1>1, <1>2, HistoryGrows DEF Intact
<1>4. ASSUME Still(r)' PROVE Still(r)
    <2>1. /\ counted[r] \subseteq messages'[s]
          /\ \A m \in messages'[s] \ counted[r], n \in counted[r] : began'[n[1]] < began'[m[1]]
        BY <1>4 DEF Still, Continues
    <2>2. CASE counted[r] = {} BY <2>2 DEF Still, Continues
    <2>3. CASE counted[r] # {}
        <3>1. messages[s] \subseteq messages'[s] /\ session[s] # "gone"
            BY <1>1, <2>1, <2>3, HistoryGrows
        <3>2. counted[r] \subseteq messages[s] BY <3>1 DEF Intact
        <3>3. \A m \in messages[s] : m[1] \in Calls /\ pc[m[1]] \in Ended BY <1>1, Kinds DEF RowsOk
        <3>4. \A m \in messages[s] : began'[m[1]] = began[m[1]] BY <1>1, <3>3, WritersAreOver
        <3>. QED BY <2>1, <3>1, <3>2, <3>4 DEF Still, Continues
    <2>. QED BY <2>2, <2>3
<1>. QED BY <1>3, <1>4
-----------------------------------------------------------------------------
(* The invariant is preserved.                                             *)

\* The steps of a read.
LEMMA StepsOfRead ==
    ASSUME IInv, NEW r \in Reads, Step(r)
    PROVE  Find(r) \/ Miss(r) \/ CountMessages(r) \/ SelectPage(r) \/ Fails(r) \/ Abandon(r)
<1>1. r \in Calls /\ r \notin Creates /\ r \notin Turns /\ r \notin Deletes BY Kinds
<1>2. /\ pc[r] \notin {"insert_first", "increment_first", "delete", "commit"}
      /\ pc[r] \notin TurnLabels
    BY <1>1 DEF IInv, KindsOk
<1>3. ~Think(r) /\ ~InsertUser(r) /\ ~InsertAssistant(r) /\ ~InsertFirst(r) /\ ~Increment(r)
    BY <1>2 DEF TurnLabels, Think, InsertUser, InsertAssistant, InsertFirst, Insert, Increment
<1>4. ~Delete(r) /\ ~Commit(r) /\ ~CommitLost(r) /\ ~Refuse(r)
    BY <1>2 DEF TurnLabels, Delete, Commit, CommitLost, Refuse
<1>5. ~FindForDelete(r) /\ ~InsertSession(r) BY <1>1 DEF FindForDelete, InsertSession
<1>. QED BY <1>3, <1>4, <1>5 DEF Step, Proceed

LEMMA PageStepOther ==
    ASSUME IInv, NEW r \in Reads, PageInv(r), NEW t \in Calls, Step(t), t # r
    PROVE  PageInv(r)'
<1>1. TypeOK /\ r \in Calls BY Kinds DEF IInv
<1>2. /\ pc'[r] = pc[r] /\ asked'[r] = asked[r] /\ total'[r] = total[r] /\ got'[r] = got[r]
      /\ counted'[r] = counted[r] /\ listed'[r] = listed[r]
    BY <1>1, OwnState, OwnLists
<1>3. \A m \in counted[r] \cup listed[r] : m[1] \in Calls /\ pc[m[1]] \in Ended
    BY DEF PageInv
<1>4. /\ \A m \in counted[r] \cup listed[r] : m[1] \in Calls /\ pc'[m[1]] \in Ended
      /\ \A G, n : HasPages(began', counted[r], G, n) <=> HasPages(began, counted[r], G, n)
    BY <1>1, <1>3, WritersAreOver
<1>5. Done(r)' = Done(r) /\ Reading(r)' = Reading(r) BY <1>2 DEF Done, Reading
<1>6. Reading(r) => Intact(r)' /\ (Still(r)' => Still(r))
    BY <1>2, <1>3, StaysIntact DEF PageInv
<1>7. pc[r] = "select" => Reading(r) BY DEF Reading
<1>8. Continues(listed[r], counted[r])' => Continues(listed[r], counted[r])
    <2>1. \A m \in counted[r] \cup listed[r] : began'[m[1]] = began[m[1]]
        BY <1>1, <1>3, WritersAreOver
    <2>. QED BY <1>2, <2>1 DEF Continues
<1>. QED BY <1>2, <1>4, <1>5, <1>6, <1>7, <1>8 DEF PageInv

\* Before the first page there is nothing to have.
LEMMA NoPages ==
    ASSUME NEW b, NEW M, NEW G
    PROVE  HasPages(b, M, G, 0)
BY DEF HasPages

LEMMA PageStepBegin ==
    ASSUME IInv, NEW r \in Reads, PageInv(r), Find(r) \/ Miss(r), Step(r)
    PROVE  PageInv(r)'
<1>1. TypeOK /\ r \in Calls BY Kinds DEF IInv
<1>2. pc[r] = "start" BY DEF Find, Miss, Begin
<1>3. /\ got'[r] = got[r] /\ counted'[r] = counted[r] /\ listed'[r] = listed[r]
      /\ session' = session /\ messages' = messages
    BY DEF Find, Miss, rows, locals, past
<1>4. \A m \in counted[r] \cup listed[r] : m[1] \in Calls /\ pc[m[1]] \in Ended
    BY DEF PageInv
<1>5. /\ \A m \in counted[r] \cup listed[r] : m[1] \in Calls /\ pc'[m[1]] \in Ended
      /\ \A G, n : HasPages(began', counted[r], G, n) <=> HasPages(began, counted[r], G, n)
    BY <1>1, <1>4, WritersAreOver
<1>6. CASE Find(r)
    <2>1. pc'[r] = "count" /\ asked'[r] = asked[r] + 1 /\ asked[r] \in Nat
        BY <1>1, <1>6, Kinds DEF Find, Goto, TypeOK
    <2>2. Done(r)' = Done(r) /\ Reading(r)' = Reading(r) BY <1>2, <2>1 DEF Done, Reading
    <2>3. began' = began BY <1>6, Kinds DEF Find, Begin
    <2>4. Intact(r)' = Intact(r) /\ Still(r)' = Still(r)
        BY <1>3, <2>3 DEF Intact, Still, Continues
    <2>. QED BY <1>3, <1>5, <2>1, <2>2, <2>4 DEF PageInv
<1>7. CASE Miss(r)
    <2>1. pc'[r] = "not_found" BY <1>1, <1>7 DEF Miss, Goto, TypeOK
    <2>2. ~Reading(r)' BY <2>1 DEF Reading
    <2>. QED BY <1>3, <1>5, <2>1, <2>2 DEF PageInv
<1>. QED BY <1>6, <1>7

LEMMA PageStepCount ==
    ASSUME IInv, NEW r \in Reads, PageInv(r), CountMessages(r), Step(r)
    PROVE  PageInv(r)'
<1>1. TypeOK /\ RowsOk /\ r \in Calls /\ SessionOf[r] \in Creates BY Kinds DEF IInv
<1>2. pc[r] = "count" /\ pc'[r] = "select" /\ asked[r] \in Nat /\ asked[r] > 0
    BY <1>1 DEF CountMessages, Goto, TypeOK, PageInv
<1>3. /\ got' = got /\ listed' = listed /\ asked' = asked /\ began' = began
      /\ session' = session /\ messages' = messages
    BY DEF CountMessages, rows
<1>4. total'[r] = Cardinality(messages[SessionOf[r]]) BY <1>1 DEF CountMessages, TypeOK
<1>5. Done(r) = asked[r] - 1 /\ Done(r)' = Done(r) /\ Reading(r)' BY <1>2, <1>3 DEF Done, Reading
<1>6. ASSUME Still(r)' PROVE Cardinality(counted'[r]) <= total'[r]
    <2>1. counted'[r] \subseteq messages[SessionOf[r]] BY <1>3, <1>6 DEF Still, Continues
    <2>2. IsFiniteSet(messages[SessionOf[r]]) BY <1>1 DEF RowsOk
    <2>. QED BY <1>4, <2>1, <2>2, FS_Subset
<1>7. CASE asked[r] = 1
    <2>1. counted'[r] = messages[SessionOf[r]] BY <1>1, <1>7 DEF CountMessages, TypeOK
    <2>2. Intact(r)' BY <1>3, <2>1 DEF Intact
    <2>3. Done(r)' = 0 BY <1>5, <1>7
    <2>4. \A m \in counted'[r] : m[1] \in Calls /\ pc[m[1]] \in Ended
        BY <1>1, <2>1, Kinds DEF RowsOk
    <2>5. \A m \in listed[r] : m[1] \in Calls /\ pc[m[1]] \in Ended BY DEF PageInv
    <2>6. \A m \in counted'[r] \cup listed'[r] : m[1] \in Calls /\ pc'[m[1]] \in Ended
        BY <1>1, <1>3, <2>4, <2>5, WritersAreOver
    <2>7. HasPages(began', counted'[r], got'[r], Done(r)') BY <2>3, NoPages
    <2>8. IsFiniteSet(counted'[r]) BY <1>1, <2>1 DEF RowsOk
    <2>. QED BY <1>2, <1>3, <1>6, <2>2, <2>6, <2>7, <2>8 DEF PageInv
<1>8. CASE asked[r] # 1
    <2>1. counted'[r] = counted[r] BY <1>1, <1>8 DEF CountMessages, TypeOK
    <2>2. Reading(r) BY <1>2, <1>5, <1>8 DEF Reading
    <2>3. Intact(r)' = Intact(r) /\ Still(r)' = Still(r) BY <1>3, <2>1 DEF Intact, Still, Continues
    <2>4. \A m \in counted[r] \cup listed[r] : m[1] \in Calls /\ pc[m[1]] \in Ended
        BY DEF PageInv
    <2>5. \A m \in counted'[r] \cup listed'[r] : m[1] \in Calls /\ pc'[m[1]] \in Ended
        BY <1>1, <1>3, <2>1, <2>4, WritersAreOver
    <2>. QED BY <1>2, <1>3, <1>5, <1>6, <2>1, <2>2, <2>3, <2>5 DEF PageInv
<1>. QED BY <1>7, <1>8

\* One page more, from a history that continues what was counted.
LEMMA OnePageMore ==
    ASSUME TypeOK, NEW M, NEW N \in SUBSET Messages, IsFiniteSet(N), Continues(N, M),
           NEW a \in Nat \ {0}, NEW G,
           NEW P \in Pages(N, (a - 1) * PageSize, PageSize), HasPages(began, M, G, a - 1)
    PROVE  HasPages(began, M, G \cup P, a)
<1> SUFFICES ASSUME NEW m \in M, NEW p \in 0 .. a - 1, OnPage(began, M, m, p)
             PROVE  m \in G \cup P
    BY DEF HasPages
<1>1. CASE p = a - 1
    <2>1. m \in N BY DEF Continues
    <2>2. \A x \in N : began[x[1]] \in Nat BY DEF TypeOK, Messages
    <2>3. OnPage(began, N, m, a - 1) BY <1>1, <2>2, LaterPlaces DEF OnPage
    <2>. QED BY <2>1, <2>3, SelectedPage
<1>2. CASE p # a - 1
    <2>1. p \in 0 .. (a - 1) - 1 BY <1>2
    <2>. QED BY <2>1 DEF HasPages
<1>. QED BY <1>1, <1>2

LEMMA PageStepSelect ==
    ASSUME IInv, NEW r \in Reads, PageInv(r), SelectPage(r), Step(r)
    PROVE  PageInv(r)'
<1> DEFINE M == messages[SessionOf[r]]
<1>1. TypeOK /\ RowsOk /\ r \in Calls /\ r \notin Turns /\ SessionOf[r] \in Creates
    BY Kinds DEF IInv
<1>2. pc[r] = "select" /\ asked[r] \in Nat \ {0} /\ total[r] \in Nat /\ Reading(r)
    BY <1>1 DEF SelectPage, TypeOK, PageInv, Reading
<1>3. /\ asked' = asked /\ total' = total /\ counted' = counted /\ began' = began
      /\ session' = session /\ messages' = messages
    BY DEF SelectPage, rows
<1>4. /\ listed'[r] = M
      /\ pc'[r] = IF HasNext(r) THEN "start" ELSE "listed"
    BY <1>1 DEF SelectPage, Goto, TypeOK
<1>5. PICK P \in Pages(M, (asked[r] - 1) * PageSize, PageSize) : got'[r] = got[r] \cup P
    <2>1. Offset(r) = (asked[r] - 1) * PageSize /\ Limit(r) = PageSize
        BY DEF Offset, Limit
    <2>. QED BY <1>1, <2>1 DEF SelectPage, TypeOK
<1>6. M \in SUBSET Messages /\ IsFiniteSet(M) BY <1>1 DEF TypeOK, RowsOk
<1>7. Done(r) = asked[r] - 1 /\ Done(r)' = asked[r] BY <1>2, <1>3, <1>4 DEF Done
<1>8. Intact(r)' = Intact(r) /\ Still(r)' = Still(r) BY <1>3 DEF Intact, Still, Continues
<1>9. ASSUME Still(r) PROVE HasPages(began, counted[r], got'[r], asked[r])
    <2>1. Continues(M, counted[r]) /\ HasPages(began, counted[r], got[r], asked[r] - 1)
        BY <1>2, <1>7, <1>9 DEF PageInv, Still
    <2>. QED BY <1>1, <1>2, <1>5, <1>6, <2>1, OnePageMore
<1>10. \A m \in counted'[r] \cup listed'[r] : m[1] \in Calls /\ pc'[m[1]] \in Ended
    <2>1. \A m \in M : m[1] \in Calls /\ pc[m[1]] \in Ended BY <1>1, Kinds DEF RowsOk
    <2>2. \A m \in counted[r] : m[1] \in Calls /\ pc[m[1]] \in Ended BY DEF PageInv
    <2>. QED BY <1>1, <1>3, <1>4, <2>1, <2>2, WritersAreOver
<1>11. ASSUME pc'[r] = "listed", Continues(listed[r], counted[r])'
       PROVE  /\ HasPages(began', counted'[r], got'[r], TotalPages(total'[r]))
              /\ Cardinality(counted'[r]) <= total'[r]
    <2>1. Still(r) BY <1>3, <1>4, <1>11 DEF Still, Continues
    <2>2. Cardinality(counted[r]) <= total[r] BY <1>2, <2>1 DEF PageInv
    <2>3. TotalPages(total[r]) <= asked[r]
        <3>1. ~(asked[r] < TotalPages(total[r])) BY <1>4, <1>11 DEF HasNext
        <3>2. TotalPages(total[r]) \in Nat BY <1>2, WholePages
        <3>. QED BY <1>2, <3>1, <3>2
    <2>4. HasPages(began, counted[r], got'[r], asked[r]) BY <1>9, <2>1
    <2>5. HasPages(began, counted[r], got'[r], TotalPages(total[r]))
        <3>1. TotalPages(total[r]) \in Nat BY <1>2, WholePages
        <3>2. 0 .. TotalPages(total[r]) - 1 \subseteq 0 .. asked[r] - 1 BY <1>2, <2>3, <3>1
        <3>. QED BY <2>4, <3>2 DEF HasPages
    <2>. QED BY <1>3, <2>2, <2>5
<1>12. pc'[r] \in {"start", "listed"} BY <1>4
<1>13. Reading(r)' => Intact(r)' BY <1>2, <1>8 DEF PageInv
<1>14. Reading(r)' /\ Still(r)' => HasPages(began', counted'[r], got'[r], Done(r)')
    BY <1>3, <1>7, <1>8, <1>9
<1>15. IsFiniteSet(counted'[r]) BY <1>3 DEF PageInv
<1>. QED BY <1>10, <1>11, <1>12, <1>13, <1>14, <1>15 DEF PageInv

LEMMA PageStepFail ==
    ASSUME IInv, NEW r \in Reads, PageInv(r), Fails(r) \/ Abandon(r), Step(r)
    PROVE  PageInv(r)'
<1>1. TypeOK /\ r \in Calls /\ r \notin Turns BY Kinds DEF IInv
<1>2. pc'[r] = "failed" /\ listed'[r] = {} /\ counted' = counted
    BY <1>1 DEF Fails, Abandon, RollBack, Goto, Failure, TypeOK, Turns
<1>3. ~Reading(r)' BY <1>2 DEF Reading
<1>4. \A m \in counted[r] : m[1] \in Calls /\ pc[m[1]] \in Ended BY DEF PageInv
<1>5. \A m \in counted'[r] \cup listed'[r] : m[1] \in Calls /\ pc'[m[1]] \in Ended
    BY <1>1, <1>2, <1>4, WritersAreOver
<1>. QED BY <1>2, <1>3, <1>5 DEF PageInv

LEMMA PagingInit == Init => PagingInv
BY Kinds, FS_EmptySet DEF Init, PagingInv, PageInv, Reading, Done

LEMMA PagingStep ==
    ASSUME IInv, PagingInv, [Next]_vars
    PROVE  PagingInv'
<1>1. CASE Next
    <2>1. PICK t \in Calls : Step(t) BY <1>1 DEF Next
    <2>2. ASSUME NEW r \in Reads PROVE PageInv(r)'
        <3>1. PageInv(r) BY DEF PagingInv
        <3>2. CASE t # r BY <2>1, <3>1, <3>2, PageStepOther
        <3>3. CASE t = r
            BY <2>1, <3>1, <3>3, StepsOfRead, PageStepBegin, PageStepCount, PageStepSelect,
               PageStepFail
        <3>. QED BY <3>2, <3>3
    <2>. QED BY <2>2 DEF PagingInv
<1>2. CASE UNCHANGED vars
    BY <1>2 DEF vars, PagingInv, PageInv, Reading, Done, Intact, Still, Continues
<1>. QED BY <1>1, <1>2

-----------------------------------------------------------------------------
(* Theorems.                                                               *)

\* What a read has by now, while only later turns are added: what was counted of
\* every page it was answered with (get_session_messages, one request after the other).
THEOREM PagingInvariant == Spec => []PagingInv
BY PagingInit, PagingStep, InductiveInvariant, PTL DEF Spec

\* A client that asks for page after page until has_next is false has every
\* message of its first COUNT, but for the ties that a border between two pages
\* divides, if only later turns were committed meanwhile: OFFSET, the order by
\* created_at and the rounding of _build_pagination_meta fit together, and a COUNT
\* and a SELECT that differ end no read too early.
THEOREM PagingTheorem == Spec => []PagingIsComplete
<1>1. IInv /\ PagingInv => PagingIsComplete
    <2> SUFFICES ASSUME IInv, PagingInv, NEW r \in Reads,
                        pc[r] = "listed", Continues(listed[r], counted[r])
                 PROVE  counted[r] \ Divided(counted[r]) \subseteq got[r]
        BY DEF PagingIsComplete
    <2>1. /\ TypeOK /\ r \in Calls /\ counted[r] \in SUBSET Messages
          /\ total[r] \in Nat
        BY Kinds DEF IInv, TypeOK
    <2>2. /\ HasPages(began, counted[r], got[r], TotalPages(total[r]))
          /\ Cardinality(counted[r]) <= total[r] /\ IsFiniteSet(counted[r])
        BY DEF PagingInv, PageInv
    <2>. QED BY <2>1, <2>2, AllPages
<1>. QED BY <1>1, PagingInvariant, InductiveInvariant, PTL
-----------------------------------------------------------------------------
(* The history a turn has for its prompt.                                  *)

\* A tie that a SELECT from the first place on reaches has all earlier ones before it.
LEMMA FirstPage ==
    ASSUME TypeOK, NEW M \in SUBSET Messages, IsFiniteSet(M), NEW k \in Nat,
           NEW P \in Pages(M, 0, k), NEW n \in P, NEW m \in M, m \notin P
    PROVE  began[n[1]] <= began[m[1]]
<1> SUFFICES ASSUME ~(began[n[1]] <= began[m[1]]) PROVE FALSE OBVIOUS
<1> DEFINE T(x) == TiedBy(began, M, x)
           E(x) == EarlierBy(began, M, x)
           X(x) == PlacesBy(began, M, x)
<1>1. \A x \in M : began[x[1]] \in Nat BY DEF TypeOK, Messages
<1>2. n \in M /\ began[m[1]] < began[n[1]]
    <2>1. n \in M BY DEF Pages
    <2>. QED BY <1>1, <2>1
<1>3. /\ E(m) \cup T(m) \in SUBSET E(n) /\ E(m) \cap T(m) = {}
      /\ T(m) \in SUBSET M /\ E(m) \in SUBSET M /\ E(n) \in SUBSET M /\ m \in T(m) /\ n \in T(n)
    BY <1>1, <1>2 DEF TiedBy, EarlierBy
<1>4. \A x \in M : X(x) = Cardinality(E(x)) + 1 .. Cardinality(E(x)) + Cardinality(T(x))
    BY DEF PlacesBy
<1>5. \A x \in M : Cardinality(P \cap T(x)) = Cardinality(X(x) \cap (0 + 1 .. 0 + k))
    BY DEF Pages, Places, Tied, PlacesBy, TiedBy, EarlierBy
<1>6. IsFiniteSet(T(m)) /\ Cardinality(X(m)) = Cardinality(T(m))
    BY <1>1, PlacesOfTie
<1>7. IsFiniteSet(T(n)) BY <1>1, <1>2, PlacesOfTie
<1> HIDE DEF T, E, X
<1>8. IsFiniteSet(E(m)) /\ IsFiniteSet(E(n)) BY <1>3, FS_Subset
<1>9. /\ Cardinality(T(m)) \in Nat /\ Cardinality(E(m)) \in Nat /\ Cardinality(E(n)) \in Nat
      /\ Cardinality(T(n)) \in Nat
    BY <1>6, <1>7, <1>8, FS_CardinalityType
<1>10. Cardinality(E(m)) + Cardinality(T(m)) <= Cardinality(E(n))
    <2>1. Cardinality(E(m) \cup T(m)) =
              Cardinality(E(m)) + Cardinality(T(m)) - Cardinality(E(m) \cap T(m))
        BY <1>6, <1>8, FS_Union
    <2>2. Cardinality(E(m) \cap T(m)) = 0 BY <1>3, FS_EmptySet
    <2>3. Cardinality(E(m) \cup T(m)) <= Cardinality(E(n)) BY <1>3, <1>8, FS_Subset
    <2>. QED BY <1>9, <2>1, <2>2, <2>3
<1>11. Cardinality(E(n)) + 1 <= k
    <2>1. n \in P \cap T(n) /\ IsFiniteSet(P \cap T(n)) BY <1>3, <1>7, FS_Intersection
    <2>2. Cardinality(P \cap T(n)) # 0 BY <2>1, FS_EmptySet
    <2>3. X(n) \cap (0 + 1 .. 0 + k) # {} BY <1>2, <1>5, <2>2, FS_EmptySet
    <2>. QED BY <1>2, <1>4, <1>9, <2>3
<1>12. X(m) \cap (0 + 1 .. 0 + k) = X(m) BY <1>4, <1>9, <1>10, <1>11
<1>13. P \cap T(m) = T(m)
    <2>1. P \cap T(m) \in SUBSET T(m) OBVIOUS
    <2>2. Cardinality(P \cap T(m)) = Cardinality(T(m)) BY <1>5, <1>6, <1>12
    <2>. QED BY <1>6, <2>1, <2>2, FS_Subset
<1>. QED BY <1>3, <1>13

HistoryInv ==
    \A t \in Turns :
        /\ pc[t] \in {"start", "count", "select"} => got[t] = {}
        /\ \A m \in listed[t] : m[1] \in Calls /\ pc[m[1]] \in Ended
        /\ pc[t] = "think" => OldestOf(listed[t], got[t])

LEMMA HistoryStep ==
    ASSUME IInv, HistoryInv, NEW t \in Calls, Step(t)
    PROVE  HistoryInv'
<1>1. TypeOK /\ RowsOk BY DEF IInv
<1> SUFFICES ASSUME NEW u \in Turns
             PROVE  /\ pc'[u] \in {"start", "count", "select"} => got'[u] = {}
                    /\ \A m \in listed'[u] : m[1] \in Calls /\ pc'[m[1]] \in Ended
                    /\ pc'[u] = "think" => OldestOf(listed[u], got[u])'
    BY DEF HistoryInv
<1>2. u \in Calls /\ u \notin Reads /\ SessionOf[u] \in Creates BY Kinds
<1>3. /\ pc[u] \in {"start", "count", "select"} => got[u] = {}
      /\ \A m \in listed[u] : m[1] \in Calls /\ pc[m[1]] \in Ended
      /\ pc[u] = "think" => OldestOf(listed[u], got[u])
    BY DEF HistoryInv
<1>4. \A m \in listed[u] : /\ m[1] \in Calls /\ pc'[m[1]] \in Ended
                           /\ began'[m[1]] = began[m[1]]
    BY <1>1, <1>3, WritersAreOver
<1>5. CASE pc'[u] = pc[u] /\ got'[u] = got[u] /\ listed'[u] = listed[u]
    <2>1. OldestOf(listed[u], got[u]) => OldestOf(listed[u], got[u])'
        BY <1>4, <1>5 DEF OldestOf
    <2>. QED BY <1>3, <1>4, <1>5, <2>1
<1>6. CASE u # t BY <1>1, <1>2, <1>5, <1>6, OwnState, OwnLists
<1>7. CASE u = t /\ SelectPage(t)
    <2> DEFINE M == messages[SessionOf[u]]
    <2>1. pc[u] = "select" /\ pc'[u] = "think" /\ listed'[u] = M /\ began' = began
        BY <1>1, <1>2, <1>7 DEF SelectPage, Goto, TypeOK
    <2>2. PICK P \in Pages(M, 0, HistoryLimit) : got'[u] = P
        <3>1. Offset(u) = 0 /\ Limit(u) = HistoryLimit BY <1>2 DEF Offset, Limit
        <3>. QED BY <1>1, <1>2, <1>3, <1>7, <2>1, <3>1 DEF SelectPage, TypeOK
    <2>3. M \in SUBSET Messages /\ IsFiniteSet(M) BY <1>1, <1>2 DEF TypeOK, RowsOk
    <2>4. HistoryLimit \in Nat BY ChatAssumption DEF ChatAssumption
    <2>5. P \subseteq M BY DEF Pages
    <2>6. \A m \in M \ P, n \in P : began[n[1]] <= began[m[1]]
        BY <1>1, <2>3, <2>4, FirstPage
    <2>7. OldestOf(listed[u], got[u])' BY <2>1, <2>2, <2>5, <2>6 DEF OldestOf
    <2>8. \A m \in M : m[1] \in Calls /\ pc[m[1]] \in Ended BY <1>1, <1>2, Kinds DEF RowsOk
    <2>9. \A m \in M : m[1] \in Calls /\ pc'[m[1]] \in Ended BY <1>1, <2>8, WritersAreOver
    <2>. QED BY <2>1, <2>7, <2>9
<1>8. CASE u = t /\ CountMessages(t)
    <2>1. pc[u] = "count" /\ pc'[u] = "select" /\ got' = got /\ listed' = listed
        BY <1>1, <1>2, <1>8 DEF CountMessages, Goto, TypeOK
    <2>. QED BY <1>3, <1>4, <2>1
<1>9. CASE u = t /\ (Find(t) \/ Miss(t))
    <2>1. pc[u] = "start" /\ pc'[u] # "think" /\ got' = got /\ listed' = listed
        BY <1>1, <1>2, <1>9 DEF Find, Miss, Begin, Goto, TypeOK, past, locals
    <2>. QED BY <1>3, <1>4, <2>1
<1>10. CASE u = t /\ ~SelectPage(t) /\ ~CountMessages(t) /\ ~Find(t) /\ ~Miss(t)
    <2>1. /\ pc'[u] \notin {"start", "count", "select", "think"}
          /\ listed'[u] = listed[u] \/ listed'[u] = {}
        <3> USE <1>1, <1>2, <1>10 DEF TypeOK, Goto
        <3>1. CASE Settle(t)
            BY <3>1, SettleEnds DEF Settle, Commit, CommitLost, Ended
        <3>2. CASE Quit(t)
            BY <3>2 DEF Quit, Refuse, Fails, Abandon, RollBack, Failure
        <3>3. CASE FindForDelete(t) \/ InsertSession(t)
            BY <3>3, Kinds DEF FindForDelete, InsertSession
        <3>4. CASE Think(t) BY <3>4 DEF Think
        <3>5. CASE InsertUser(t) \/ InsertAssistant(t) \/ InsertFirst(t)
            BY <3>5 DEF InsertUser, InsertAssistant, InsertFirst, Insert, past
        <3>6. CASE Increment(t) \/ Delete(t)
            BY <3>6 DEF Increment, Delete, past
        <3>. QED BY <3>1, <3>2, <3>3, <3>4, <3>5, <3>6 DEF Step, Proceed, Settle, Quit
    <2>. QED BY <1>4, <2>1
<1>. QED BY <1>6, <1>7, <1>8, <1>9, <1>10

\* The SELECT for the history of a turn (services/stream_service.py:351-357) returns
\* the oldest messages, at any limit: list_by_session sorts by created_at ascending
\* and is asked for offset 0.
THEOREM HistoryTheorem == Spec => []HistoryIsOldest
<1>1. Init => HistoryInv BY Kinds DEF Init, HistoryInv
<1>2. IInv /\ HistoryInv /\ [Next]_vars => HistoryInv'
    <2>1. ASSUME HistoryInv, UNCHANGED vars PROVE HistoryInv'
        BY <2>1 DEF vars, HistoryInv, OldestOf
    <2>. QED BY <2>1, HistoryStep DEF Next
<1>3. HistoryInv => HistoryIsOldest BY DEF HistoryInv, HistoryIsOldest
<1>. QED BY <1>1, <1>2, <1>3, InductiveInvariant, PTL DEF Spec
=============================================================================
