-------------------------- MODULE TargetPoolProofs --------------------------
(***************************************************************************)
(* Proofs about TargetPool, for any calls, limits and sizes: a call has a  *)
(* connection exactly while it uses one, is given the answer to its own    *)
(* statement, runs a generated statement read-only, and is told when rows  *)
(* are cut off.                                                            *)
(***************************************************************************)
EXTENDS TargetPool, TLAPS

-----------------------------------------------------------------------------
(* The inductive invariant.                                                *)

\* A connection owes answers to nobody but the call that has it: what another
\* call left behind is gone with the connection or with its transaction.
OwnBusy == \A k \in Conns : \A o \in busy[k] : held[o] = k

\* Nothing is run on a target that has no engine.
NoEngineIdle ==
    dialect = "mongodb" => \A t \in Generated : pc[t] \in {"start", "failed"}

\* Rows are right from the moment they are fetched, and nothing is reported before.
Cut(t) ==
    /\ answer[t] = AtMost(size[t], Most(t))
    /\ answer[t] < size[t] => t \in truncated
    /\ t \in truncated => \/ answer[t] < size[t]
                          \/ t \in Queries /\ size[t] = MaxResults

RowsAreCut ==
    \A t \in Generated :
        /\ pc[t] \in {"close", "done"} => Cut(t)
        /\ pc[t] \in {"start", "wait", "connect", "guard", "running"} => t \notin truncated

\* A call that is past its guard has what StatementsAreReadOnly asks.
IInv ==
    /\ TypeOK
    /\ OwnBusy
    /\ NoEngineIdle
    /\ AnswersAreOwn
    /\ StatementsAreReadOnly
    /\ RowsAreCut

LEMMA InitIInv == Init => IInv
  <1> SUFFICES ASSUME Init PROVE IInv
    OBVIOUS
  <1> USE PoolAssumption DEF Init
  <1>1. TypeOK
    BY DEF TypeOK, InUse, Over
  <1>2. OwnBusy /\ NoEngineIdle
    BY DEF OwnBusy, NoEngineIdle, Calls, Generated
  <1>3. AnswersAreOwn
    BY DEF AnswersAreOwn
  <1>4. StatementsAreReadOnly
    <2>1. NULL # "read_write"
      BY DEF Modes
    <2> QED
      BY <2>1 DEF StatementsAreReadOnly, Calls
  <1>5. RowsAreCut
    BY DEF RowsAreCut, Calls
  <1> QED
    BY <1>1, <1>2, <1>3, <1>4, <1>5 DEF IInv

LEMMA FetchedIsCut ==
    ASSUME NEW t \in Generated, NEW n \in Nat
    PROVE  /\ AtMost(AtMost(n, Asked(t)), Most(t)) \in Nat
           /\ AtMost(AtMost(n, Asked(t)), Most(t)) = AtMost(n, Most(t))
           /\ AtMost(n, Most(t)) < n => Cuts(t, n)
           /\ Cuts(t, n) => \/ AtMost(n, Most(t)) < n
                            \/ t \in Queries /\ n = MaxResults
  BY PoolAssumption DEF AtMost, Asked, Most, Cuts, Generated

-----------------------------------------------------------------------------
(* Types and connections.                                                  *)

LEMMA TypeStep == ASSUME IInv, NEW t \in Calls, Step(t) PROVE TypeOK'
  <1> USE PoolAssumption DEF IInv, TypeOK, InUse, Over, Goto, result, history, Timed
  <1>1. CASE NoEngine(t)
    BY <1>1 DEF NoEngine
  <1>a. CASE StubSchema(t)
    BY <1>a DEF StubSchema
  <1>2. CASE Begin(t)
    BY <1>2 DEF Begin
  <1>3. CASE Checkout(t)
    BY <1>3 DEF Checkout, Free, Conns
  <1>4. CASE PoolTimeout(t)
    BY <1>4 DEF PoolTimeout
  <1>5. CASE Connected(t)
    BY <1>5 DEF Connected, Send, Modes
  <1>6. CASE GuardSet(t)
    BY <1>6 DEF GuardSet, Send, Modes
  <1>7. CASE GuardFails(t)
    BY <1>7 DEF GuardFails, Send, Modes
  <1>8. CASE Answer(t)
    <2>1. answer' \in [Calls -> Nat \cup {NULL}] /\ truncated' \in SUBSET Calls
                 /\ size' \in [Calls -> Nat \cup {NULL}]
      BY <1>8, FetchedIsCut DEF Answer, Calls
    <2>2. held[t] \in Conns
      BY <1>8 DEF Answer
    <2>3. source' \in [Calls -> Calls \cup {NULL}] /\ busy' \in [Conns -> SUBSET Calls]
      BY <1>8, <2>2 DEF Answer, TakeAnswer
    <2> QED
      BY <1>8, <2>1, <2>3 DEF Answer
  <1>b. CASE NextTable(t)
    <2>1. held[t] \in Conns
      BY <1>b DEF NextTable
    <2>2. source' \in [Calls -> Calls \cup {NULL}] /\ busy' \in [Conns -> SUBSET Calls]
      BY <1>b, <2>1 DEF NextTable, TakeAnswer
    <2> QED
      BY <1>b, <2>2 DEF NextTable
  <1>9. CASE Close(t)
    BY <1>9 DEF Close, Return
  <1>10. CASE Fails(t)
    BY <1>10 DEF Fails, Return
  <1>11. CASE Timeout(t)
    BY <1>11 DEF Timeout, Discard
  <1>12. CASE HangUp(t)
    BY <1>12 DEF HangUp, Discard
  <1> QED
    BY <1>1, <1>2, <1>3, <1>4, <1>5, <1>6, <1>7, <1>8, <1>9, <1>10, <1>11, <1>12, <1>a, <1>b
       DEF Step

\* A connection is clean when it goes from one call to another.
LEMMA BusyStep == ASSUME IInv, NEW t \in Calls, Step(t) PROVE OwnBusy'
  <1> USE PoolAssumption DEF IInv, TypeOK, OwnBusy, InUse, Over
  <1>1. CASE NoEngine(t) \/ StubSchema(t) \/ Begin(t) \/ PoolTimeout(t)
    BY <1>1 DEF NoEngine, StubSchema, Begin, PoolTimeout
  <1>2. CASE Checkout(t)
    BY <1>2 DEF Checkout, Free, Conns
  <1>3. CASE Connected(t) \/ GuardSet(t) \/ GuardFails(t)
    BY <1>3 DEF Connected, GuardSet, GuardFails, Send
  <1>4. CASE Answer(t) \/ NextTable(t)
    BY <1>4 DEF Answer, NextTable, TakeAnswer
  <1>5. CASE Close(t) \/ Fails(t)
    BY <1>5 DEF Close, Fails, Return
  <1>6. CASE Timeout(t) \/ HangUp(t)
    BY <1>6 DEF Timeout, HangUp, Discard
  <1> QED
    BY <1>1, <1>2, <1>3, <1>4, <1>5, <1>6 DEF Step

LEMMA IdleStep == ASSUME IInv, NEW t \in Calls, Step(t) PROVE NoEngineIdle'
  <1> USE PoolAssumption DEF IInv, TypeOK, NoEngineIdle, InUse, Over, Goto, Generated
  <1>1. dialect' = dialect
    BY DEF Step, NoEngine, StubSchema, Begin, Checkout, PoolTimeout, Connected, GuardSet,
           GuardFails, NextTable, Answer, Close, Fails, Timeout, HangUp
  <1>2. t \in Generated /\ dialect = "mongodb" => pc' = [pc EXCEPT ![t] = "failed"]
    BY DEF Step, NoEngine, StubSchema, Begin, Checkout, PoolTimeout, Connected, GuardSet,
           GuardFails, NextTable, Answer, Close, Fails, Timeout, HangUp
  <1>3. \A u \in Calls : u # t => pc'[u] = pc[u]
    BY DEF Step, NoEngine, StubSchema, Begin, Checkout, PoolTimeout, Connected, GuardSet,
           GuardFails, NextTable, Answer, Close, Fails, Timeout, HangUp, Send
  <1> QED
    BY <1>1, <1>2, <1>3 DEF Calls

-----------------------------------------------------------------------------
(* Answers, modes and rows.                                                *)

LEMMA OwnStep == ASSUME IInv, NEW t \in Calls, Step(t) PROVE AnswersAreOwn'
  <1> USE PoolAssumption DEF IInv, TypeOK, AnswersAreOwn, OwnBusy, InUse, result
  <1>1. CASE Answer(t) \/ NextTable(t)
    <2>1. PICK o \in busy[held[t]] : source' = [source EXCEPT ![t] = o]
      BY <1>1 DEF Answer, NextTable, TakeAnswer
    <2>2. held[t] \in Conns
      BY <1>1 DEF Answer, NextTable
    <2>3. o \in Calls /\ held[o] = held[t] /\ held[t] # NULL
      BY <2>1, <2>2 DEF Conns
    <2>4. o = t
      BY <2>3
    <2> QED
      BY <2>1, <2>4
  <1>2. CASE UNCHANGED source
    BY <1>2
  <1> QED
    BY <1>1, <1>2 DEF Step, NoEngine, StubSchema, Begin, Checkout, PoolTimeout, Connected,
           GuardSet, GuardFails, Close, Fails, Timeout, HangUp

LEMMA ModeStep == ASSUME IInv, NEW t \in Calls, Step(t) PROVE StatementsAreReadOnly'
  <1> USE PoolAssumption DEF IInv, TypeOK, StatementsAreReadOnly, NoEngineIdle, InUse, history, Send,
                             Calls, Generated
  <1>1. CASE Connected(t)
    BY <1>1 DEF Connected, Guarded, Dialects
  <1>2. CASE GuardSet(t)
    BY <1>2 DEF GuardSet
  <1>3. CASE GuardFails(t)
    BY <1>3 DEF GuardFails, Dialects
  <1>4. CASE UNCHANGED <<dialect, ran, skipped>>
    BY <1>4
  <1> QED
    BY <1>1, <1>2, <1>3, <1>4
       DEF Step, NoEngine, StubSchema, Begin, Checkout, PoolTimeout, NextTable, Answer, Close,
           Fails, Timeout, HangUp

LEMMA RowsStep == ASSUME IInv, NEW t \in Calls, Step(t) PROVE RowsAreCut'
  <1> USE PoolAssumption DEF IInv, TypeOK, RowsAreCut, Cut, InUse, Over, Goto, result
  <1>1. CASE Answer(t)
    <2>1. CASE t \notin Generated
      BY <1>1, <2>1 DEF Answer
    <2>2. CASE t \in Generated
      <3>1. PICK n \in 0..MaxSize :
                /\ size' = [size EXCEPT ![t] = n]
                /\ answer' = [answer EXCEPT ![t] = AtMost(n, Most(t))]
                /\ truncated' = IF Cuts(t, n) THEN truncated \cup {t} ELSE truncated
        BY <1>1, <2>2, FetchedIsCut DEF Answer
      <3>2. t \notin truncated /\ pc' = [pc EXCEPT ![t] = "close"]
        BY <1>1, <2>2 DEF Answer
      <3>3. Cut(t)'
        BY <2>2, <3>1, <3>2, FetchedIsCut
      <3> QED
        BY <2>2, <3>1, <3>2, <3>3 DEF Calls
    <2> QED
      BY <2>1, <2>2 DEF Calls
  <1>a. CASE NextTable(t)
    BY <1>a DEF NextTable
  <1>2. CASE UNCHANGED result /\ ~Answer(t) /\ ~NextTable(t)
    <2>1. /\ t \in Generated /\ pc'[t] \in {"close", "done"} => pc[t] = "close"
          /\ pc'[t] \in {"start", "wait", "connect", "guard", "running"} =>
                pc[t] \in {"start", "wait", "connect", "guard"}
      BY <1>2 DEF Step, NoEngine, StubSchema, Begin, Checkout, PoolTimeout, Connected, GuardSet,
             GuardFails, Close, Fails, Timeout, HangUp, Send
    <2>2. \A u \in Calls : u # t => pc'[u] = pc[u]
      BY <1>2 DEF Step, NoEngine, StubSchema, Begin, Checkout, PoolTimeout, Connected, GuardSet,
             GuardFails, Close, Fails, Timeout, HangUp, Send
    <2> QED
      BY <1>2, <2>1, <2>2 DEF Calls
  <1> QED
    BY <1>1, <1>2, <1>a DEF Step, NoEngine, StubSchema, Begin, Checkout, PoolTimeout, Connected,
           GuardSet, GuardFails, Close, Fails, Timeout, HangUp

LEMMA NextIInv == IInv /\ [Next]_vars => IInv'
  <1>1. ASSUME IInv, UNCHANGED vars PROVE IInv'
    BY <1>1 DEF IInv, vars, TypeOK, OwnBusy, NoEngineIdle, AnswersAreOwn, StatementsAreReadOnly,
                RowsAreCut, Cut
  <1>2. ASSUME IInv, NEW t \in Calls, Step(t) PROVE IInv'
    BY <1>2, TypeStep, BusyStep, IdleStep, OwnStep, ModeStep, RowsStep DEF IInv
  <1> QED
    BY <1>1, <1>2 DEF Next

-----------------------------------------------------------------------------
(* The theorems.                                                           *)

\* The strengthening is inductive, so it holds in every reachable state.
THEOREM InductiveInvariant == Spec => []IInv
  <1> QED
    BY InitIInv, NextIInv, PTL DEF Spec

\* A call of the pool has a connection exactly while it uses one, whatever fails,
\* and no two calls have the same (the with blocks over engine.connect and begin).
THEOREM PoolTypeOK == Spec => []TypeOK
  <1>1. IInv => TypeOK
    BY DEF IInv
  <1> QED
    BY <1>1, InductiveInvariant, PTL

\* No call reads the answer to a statement that another call, timed out, left behind
\* (SQLExecutionService.execute, ping_sql_engine).
THEOREM AnswersTheorem == Spec => []AnswersAreOwn
  <1>1. IInv => AnswersAreOwn
    BY DEF IInv
  <1> QED
    BY <1>1, InductiveInvariant, PTL

\* A generated statement that is not run read-only is one on MySQL whose guard failed
\* or that has none (_set_read_only_mysql, _execute_sql).
THEOREM ReadOnlyTheorem == Spec => []StatementsAreReadOnly
  <1>1. IInv => StatementsAreReadOnly
    BY DEF IInv
  <1> QED
    BY <1>1, InductiveInvariant, PTL

\* Fewer rows than there are never go unreported, at every limit and every size
\* (_execute_query_inner, _execute_sql).
THEOREM CutsTheorem == Spec => []CutsAreReported
  <1>1. IInv => CutsAreReported
    BY DEF IInv, RowsAreCut, Cut, CutsAreReported
  <1> QED
    BY <1>1, InductiveInvariant, PTL
=============================================================================
