----------------------------- MODULE TargetPool -----------------------------
(***************************************************************************)
(* One target database: the connection pool of its engine                  *)
(* (app/utils/db_drivers.py) and the calls that share it,                  *)
(*                                                                         *)
(*   the execution of a stream, under a time limit                         *)
(*                             (app/services/execution_service.py)         *)
(*   the execution of a two-step query, without one  (app/ai/ai_service.py)*)
(*   the ping of a validate, under a time limit   (app/utils/db_drivers.py)*)
(*   the extraction of the schema, for a stream or a two-step query,       *)
(*   without a time limit                     (app/ai/schema_extractor.py) *)
(*                                                                         *)
(* The target may take any time over what it is sent, and for ever.        *)
(***************************************************************************)
EXTENDS Naturals

CONSTANTS Streams, Queries, Pings, Extractions,  \* the calls
          Limit,        \* pool_size + max_overflow
          MaxRows,      \* max_rows of a stream, 500 by default
          MaxResults,   \* MAX_QUERY_RESULTS, 500
          MaxSize,      \* bound on the rows a statement may have
          NULL

Generated == Streams \cup Queries    \* those that run a generated statement
Calls == Generated \cup Pings \cup Extractions
Timed == Streams \cup Pings
Dialects == {"postgresql", "mysql", "mongodb"}
Conns == 1..Limit
Modes == {"read_only", "read_write"}

ASSUME PoolAssumption ==
    /\ Limit \in Nat \ {0} /\ MaxRows \in Nat \ {0} /\ MaxResults \in Nat \ {0}
    /\ MaxSize \in Nat
    /\ Streams \cap Queries = {} /\ Pings \cap Extractions = {}
    /\ (Pings \cup Extractions) \cap Generated = {}
    /\ NULL \notin Nat \cup Calls \cup Modes

VARIABLES
    dialect,   \* what the target is
    pc,
    held,      \* held[t]: the connection t has, or NULL
    busy,      \* busy[k]: the calls whose statements the target works on for k
    readonly,  \* the connections whose transaction is read-only
    aborted,   \* the calls whose transaction has failed
    answer,    \* answer[t]: the rows t has fetched, or NULL
    truncated, \* the calls that report their rows as cut off
    \* history, read by the properties only
    ran,       \* ran[t]: how the statement of t was run, or NULL
    skipped,   \* the calls that could not set their transaction read-only
    size,      \* size[t]: how many rows there were
    source     \* source[t]: the call whose statement t got the answer to, or NULL

result  == <<answer, truncated, size, source>>
history == <<ran, skipped>>
vars    == <<dialect, pc, held, busy, readonly, aborted, answer, truncated, ran, skipped,
             size, source>>

\* Labels of a call that is under way, and of one that has a connection.
InUse == {"connect", "guard", "running", "close"}
Over == {"done", "failed", "timed_out", "hung_up"}

Init ==
    /\ dialect \in Dialects
    /\ pc = [t \in Calls |-> "start"]
    /\ held = [t \in Calls |-> NULL]
    /\ busy = [k \in Conns |-> {}]
    /\ readonly = {}
    /\ aborted = {}
    /\ answer = [t \in Calls |-> NULL]
    /\ truncated = {}
    /\ ran = [t \in Calls |-> NULL]
    /\ skipped = {}
    /\ size = [t \in Calls |-> NULL]
    /\ source = [t \in Calls |-> NULL]

Goto(t, l) == pc' = [pc EXCEPT ![t] = l]

-----------------------------------------------------------------------------
(* Getting a connection.                                                   *)

\* The engine of a MongoDB connection is None; its ping does not use the pool.
NoEngine(t) ==
    /\ pc[t] = "start" /\ dialect = "mongodb" /\ t \in Generated
    /\ Goto(t, "failed")
    /\ UNCHANGED <<dialect, held, busy, readonly, aborted, result, history>>

\* Only PostgreSQL is asked for its schema.
StubSchema(t) ==
    /\ pc[t] = "start" /\ dialect # "postgresql" /\ t \in Extractions
    /\ Goto(t, "done")
    /\ UNCHANGED <<dialect, held, busy, readonly, aborted, result, history>>

Begin(t) ==
    /\ pc[t] = "start" /\ dialect # "mongodb"
    /\ t \in Extractions => dialect = "postgresql"
    /\ Goto(t, "wait")
    /\ UNCHANGED <<dialect, held, busy, readonly, aborted, result, history>>

Free == {k \in Conns : \A t \in Calls : held[t] # k}

Checkout(t) ==
    /\ pc[t] = "wait"
    /\ \E k \in Free : held' = [held EXCEPT ![t] = k]
    /\ Goto(t, "connect")
    /\ UNCHANGED <<dialect, busy, readonly, aborted, result, history>>

\* Mutant: only what has a time limit of its own gives up waiting.
PoolTimeoutOfTimed(t) ==
    /\ pc[t] = "wait" /\ Free = {} /\ t \in Timed
    /\ Goto(t, "failed")
    /\ UNCHANGED <<dialect, held, busy, readonly, aborted, result, history>>

\* pool_timeout has passed.
PoolTimeout(t) ==
    /\ pc[t] = "wait" /\ Free = {}
    /\ Goto(t, "failed")
    /\ UNCHANGED <<dialect, held, busy, readonly, aborted, result, history>>

-----------------------------------------------------------------------------
(* One transaction.                                                        *)

\* The statement is sent; with ro the transaction is read-only.
Send(t, ro) ==
    /\ busy' = [busy EXCEPT ![held[t]] = @ \cup {t}]
    /\ ran' = [ran EXCEPT ![t] = IF ro THEN "read_only" ELSE "read_write"]
    /\ Goto(t, "running")

\* A stream sets its transaction read-only, a two-step query only on PostgreSQL.
Guarded(t) == t \in Streams \/ (t \in Queries /\ dialect = "postgresql")

\* The connection was made, or an old one has answered the ping of the pool.
Connected(t) ==
    /\ pc[t] = "connect"
    /\ IF Guarded(t)
       THEN Goto(t, "guard") /\ UNCHANGED <<busy, ran>>
       ELSE Send(t, held[t] \in readonly)
    /\ UNCHANGED <<dialect, held, readonly, aborted, result, skipped>>

\* SET TRANSACTION READ ONLY; on MySQL it is SET SESSION, and stays.
GuardSet(t) ==
    /\ pc[t] = "guard"
    /\ readonly' = readonly \cup {held[t]}
    /\ Send(t, TRUE)
    /\ UNCHANGED <<dialect, held, aborted, result, skipped>>

\* Mutant: the transaction goes on on PostgreSQL, too.
GuardFailsUnnoticed(t) ==
    /\ pc[t] = "guard" /\ t \in Streams
    /\ skipped' = skipped \cup {t}
    /\ Send(t, held[t] \in readonly)
    /\ UNCHANGED <<dialect, held, readonly, aborted, result>>

\* A stream swallows the failure.  PostgreSQL then refuses the statement that it
\* sends next.
GuardFails(t) ==
    /\ pc[t] = "guard" /\ t \in Streams
    /\ skipped' = skipped \cup {t}
    /\ IF dialect = "postgresql"
       THEN aborted' = aborted \cup {t} /\ Goto(t, "running") /\ UNCHANGED <<busy, ran>>
       ELSE Send(t, held[t] \in readonly) /\ UNCHANGED aborted
    /\ UNCHANGED <<dialect, held, readonly, result>>

AtMost(n, m) == IF n < m THEN n ELSE m

\* The rows a call returns at most.
Most(t) == IF t \in Streams THEN MaxRows ELSE MaxResults

\* Mutant: no row beyond that is asked for.
AskedExactly(t) == Most(t)

\* A stream asks for a row more than it returns, a two-step query does not.
Asked(t) == IF t \in Streams THEN MaxRows + 1 ELSE MaxResults

\* Whether n rows are reported as cut off, from those that came.
Cuts(t, n) ==
    IF t \in Streams THEN AtMost(n, Asked(t)) > MaxRows ELSE AtMost(n, Asked(t)) = MaxResults

\* The answer that comes is to some statement sent on the connection.
TakeAnswer(t, next) ==
    \E o \in busy[held[t]] :
        /\ source' = [source EXCEPT ![t] = o]
        /\ busy' = [busy EXCEPT ![held[t]] = (@ \ {o}) \cup next]

\* The columns of the next table are asked for.
NextTable(t) ==
    /\ pc[t] = "running" /\ t \in Extractions
    /\ TakeAnswer(t, {t})
    /\ UNCHANGED <<dialect, pc, held, readonly, aborted, answer, truncated, size, history>>

Answer(t) ==
    /\ pc[t] = "running" /\ t \notin aborted
    /\ TakeAnswer(t, {})
    /\ IF t \notin Generated
       THEN UNCHANGED <<answer, truncated, size>>
       ELSE \E n \in 0..MaxSize :
               /\ size' = [size EXCEPT ![t] = n]
               /\ answer' = [answer EXCEPT ![t] = AtMost(AtMost(n, Asked(t)), Most(t))]
               /\ truncated' = IF Cuts(t, n) THEN truncated \cup {t} ELSE truncated
    /\ Goto(t, "close")
    /\ UNCHANGED <<dialect, held, readonly, aborted, history>>

-----------------------------------------------------------------------------
(* Giving it back.                                                         *)

\* The transaction is over.  The pool keeps the connection, unless it is old, in
\* excess of pool_size, or broken.
Return(t) ==
    /\ held' = [held EXCEPT ![t] = NULL]
    /\ aborted' = aborted \ {t}
    /\ busy' = [busy EXCEPT ![held[t]] = {}]
    /\ \/ readonly' = readonly \ {held[t]}
       \/ dialect = "mysql" /\ UNCHANGED readonly

\* A stream commits, the others roll back.
Close(t) ==
    /\ pc[t] = "close"
    /\ Return(t)
    /\ Goto(t, "done")
    /\ UNCHANGED <<dialect, result, history>>

\* Mutant: only a call that ends well gives its connection back.
FailsHolding(t) ==
    /\ pc[t] \in InUse
    /\ pc[t] = "guard" => t \in Queries
    /\ Goto(t, "failed")
    /\ UNCHANGED <<dialect, held, busy, readonly, aborted, result, history>>

\* The target refuses something, or is gone.
Fails(t) ==
    /\ pc[t] \in InUse
    /\ pc[t] = "guard" => t \in Queries
    /\ Return(t)
    /\ Goto(t, "failed")
    /\ UNCHANGED <<dialect, result, history>>

\* The connection of a statement that is cancelled is closed.
Discard(t) ==
    /\ held' = [held EXCEPT ![t] = NULL]
    /\ aborted' = aborted \ {t}
    /\ IF held[t] = NULL THEN UNCHANGED <<busy, readonly>>
       ELSE /\ busy' = [busy EXCEPT ![held[t]] = {}]
            /\ readonly' = readonly \ {held[t]}

\* Mutant: the pool gets the connection of a cancelled statement back.
TimeoutKeepsConnection(t) ==
    /\ t \in Timed /\ pc[t] \in InUse \cup {"wait"}
    /\ held' = [held EXCEPT ![t] = NULL]
    /\ aborted' = aborted \ {t}
    /\ Goto(t, "timed_out")
    /\ UNCHANGED <<dialect, busy, readonly, result, history>>

\* Mutant: the time starts with the statement.
TimeoutOfStatement(t) ==
    /\ t \in Timed /\ pc[t] \in {"running", "close"}
    /\ Discard(t)
    /\ Goto(t, "timed_out")
    /\ UNCHANGED <<dialect, result, history>>

\* asyncio.wait_for, asyncio.timeout.
Timeout(t) ==
    /\ t \in Timed /\ pc[t] \in InUse \cup {"wait"}
    /\ Discard(t)
    /\ Goto(t, "timed_out")
    /\ UNCHANGED <<dialect, result, history>>

\* The client of a stream leaves, which cancels what the stream awaits.
HangUp(t) ==
    /\ t \in Streams \cup Extractions /\ pc[t] \in InUse \cup {"wait"}
    /\ Discard(t)
    /\ Goto(t, "hung_up")
    /\ UNCHANGED <<dialect, result, history>>

-----------------------------------------------------------------------------
Step(t) ==
    \/ NoEngine(t) \/ StubSchema(t) \/ Begin(t) \/ Checkout(t) \/ PoolTimeout(t)
    \/ Connected(t) \/ GuardSet(t) \/ GuardFails(t) \/ NextTable(t) \/ Answer(t)
    \/ Close(t) \/ Fails(t) \/ Timeout(t) \/ HangUp(t)

Next == \E t \in Calls : Step(t)

Spec == Init /\ [][Next]_vars

\* Time passes, and a free connection is handed out.  Nothing is assumed of the
\* target, nor of the calls to come.
FairSpec ==
    /\ Spec
    /\ \A t \in Calls : WF_vars(Checkout(t) \/ PoolTimeout(t))
    /\ \A t \in Timed : WF_vars(Timeout(t))

-----------------------------------------------------------------------------
(* Properties.                                                             *)

\* The types; a call has a connection exactly while it uses one, and no two calls
\* have the same.
TypeOK ==
    /\ dialect \in Dialects
    /\ pc \in [Calls -> {"start", "wait"} \cup InUse \cup Over]
    /\ held \in [Calls -> Conns \cup {NULL}]
    /\ busy \in [Conns -> SUBSET Calls]
    /\ readonly \in SUBSET Conns
    /\ aborted \in SUBSET Streams
    /\ answer \in [Calls -> Nat \cup {NULL}]
    /\ truncated \in SUBSET Calls
    /\ ran \in [Calls -> Modes \cup {NULL}]
    /\ skipped \in SUBSET Streams
    /\ size \in [Calls -> Nat \cup {NULL}]
    /\ source \in [Calls -> Calls \cup {NULL}]
    /\ \A t \in Calls : held[t] # NULL <=> pc[t] \in InUse
    /\ \A t, u \in Calls : held[t] = held[u] /\ held[t] # NULL => t = u

\* No call is given the answer to the statement of another one, although time
\* runs out on statements whose answers are still to come.
AnswersAreOwn == \A t \in Calls : source[t] \in {t, NULL}

\* Where a generated statement can get to run outside a read-only transaction:
\* on MySQL only, in a stream that could not set it, on a connection where nobody
\* has set it before, and in a two-step query, which does not try.
StatementsAreReadOnly ==
    \A t \in Generated : ran[t] = "read_write" =>
        dialect = "mysql" /\ (t \in skipped \/ t \in Queries)

\* "executes them in a read-only sandbox" (README.md:5), "wraps execution in SET
\* TRANSACTION READ ONLY" (README.md:89): every generated statement does.
GeneratedSqlIsReadOnly == \A t \in Generated : ran[t] # "read_write"

\* Rows are cut off at the limit and only there, and whoever gets fewer rows than
\* there are is told.  A stream is told only then.  A two-step query is told as
\* well when there are just as many as the limit.
CutsAreReported ==
    \A t \in Generated : pc[t] = "done" =>
        /\ answer[t] = AtMost(size[t], Most(t))
        /\ answer[t] < size[t] => t \in truncated
        /\ t \in truncated => \/ answer[t] < size[t]
                              \/ t \in Queries /\ size[t] = MaxResults

\* The execution of a stream and a ping end, even if the target never answers and
\* two-step queries and extractions keep all its connections.
TimedCallsEnd == \A t \in Timed : pc[t] = "wait" ~> pc[t] \in Over

\* No call waits for a connection for ever.
WaitsEnd == \A t \in Calls : pc[t] = "wait" ~> pc[t] # "wait"
=============================================================================
