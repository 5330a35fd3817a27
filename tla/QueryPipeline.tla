---------------------------- MODULE QueryPipeline ----------------------------
(***************************************************************************)
(* run_query_pipeline (app/services/stream_service.py): the asynchronous   *)
(* generator behind POST /api/v1/chat/query, for any number of streams     *)
(* that run at the same time in one event loop and share the connection    *)
(* manager, the schema cache, the query cache and the chat tables.         *)
(*                                                                         *)
(* One action is the code a stream runs between two suspension points: an  *)
(* await on something outside the process, or a yield of a frame.  Other   *)
(* streams, a disconnect, the deletion of a session or a restart may come  *)
(* between any two of them.  The query cache is here the set of results    *)
(* that were stored, any of which may be served or not (ResultCache); its  *)
(* two tiers, expiry and invalidation are the subject of QueryCache.       *)
(***************************************************************************)
EXTENDS Naturals, FiniteSets

CONSTANTS Requests,        \* the calls of the endpoint
          Connections,     \* connection ids handed out by POST /database/connect
          SqlConnections,  \* those with an SQLAlchemy engine (not MongoDB)
          PostgresConnections,  \* those whose schema is read from the target
          Sessions,        \* chat session ids
          Questions,       \* natural-language questions
          Answers,         \* the SQL texts a model may answer with
          ValidSql,        \* those SQLValidator.validate accepts
          EmptySql,        \* the empty text: "I cannot answer this"
          Statements,      \* the SQL texts a target database may be sent
          ConnOf, SessionOf, QuestionOf,  \* the body of each request
          Similar,         \* pairs of questions above the similarity threshold
          Clean,           \* what sqlparse.format makes of an SQL text
          MaxRefinements,  \* 2 in the code
          CacheEnabled,    \* settings.CACHE_ENABLED
          NULL

ASSUME PipelineAssumption ==
    /\ SqlConnections \subseteq Connections
    /\ PostgresConnections \subseteq SqlConnections
    /\ ConnOf \in [Requests -> Connections]
    /\ SessionOf \in [Requests -> Sessions \cup {NULL}]
    /\ QuestionOf \in [Requests -> Questions]
    /\ Similar \subseteq Questions \X Questions
    /\ ValidSql \subseteq Answers
    /\ EmptySql \in Answers \ ValidSql
    /\ Clean \in [Answers -> Statements]
    /\ MaxRefinements \in Nat
    /\ CacheEnabled \in BOOLEAN
    /\ NULL \notin Requests \cup Sessions \cup Answers \cup Statements

VARIABLES
    \* shared by all streams
    registry,  \* the ids in connection_manager._connections
    pool,      \* pool[c]: does the engine of c hold connections to the target?
    schemas,   \* the ids with a schema in _schema_cache
    sessions,  \* the rows of chat_sessions
    messages,  \* the committed rows of chat_messages: which request, which role
    cache,     \* cache[c]: the requests whose results were stored for c
    \* local to one stream
    pc,        \* where the generator is suspended
    sent,      \* the last frame it yielded
    code,      \* ErrorPayload.code of its ERROR frame
    tx,        \* the transaction of its AsyncSession app_db
    sql,       \* raw_sql
    attempts,  \* refinement_attempts
    pending,   \* its messages flushed but not committed
    \* history, read by the properties only
    ran,       \* the statement it sent to the target database
    hit,       \* the request whose cached result it was answered with
    saved,     \* has its turn been committed?
    faults     \* what went wrong outside the pipeline while it ran

shared  == <<registry, pool, schemas, sessions, messages, cache>>
history == <<ran, hit, saved, faults>>
vars    == <<registry, pool, schemas, sessions, messages, cache,
             pc, sent, code, tx, sql, attempts, pending, ran, hit, saved, faults>>

Roles == {"user", "assistant"}

Over == {"done", "cancelled"}

\* A stream between its first and its last step.
Running(r) == pc[r] \notin Over \cup {"received"}

HasSession(r) == SessionOf[r] # NULL

-----------------------------------------------------------------------------
Init ==
    /\ registry = Connections
    /\ pool = [c \in Connections |-> "open"]
    /\ schemas = {}
    /\ sessions = Sessions
    /\ messages = {}
    /\ cache = [c \in Connections |-> {}]
    /\ pc = [r \in Requests |-> "received"]
    /\ sent = [r \in Requests |-> "NOTHING"]
    /\ code = [r \in Requests |-> "none"]
    /\ tx = [r \in Requests |-> "none"]
    /\ sql = [r \in Requests |-> NULL]
    /\ attempts = [r \in Requests |-> 0]
    /\ pending = [r \in Requests |-> {}]
    /\ ran = [r \in Requests |-> NULL]
    /\ hit = [r \in Requests |-> NULL]
    /\ saved = [r \in Requests |-> "no"]
    /\ faults = [r \in Requests |-> {}]

Goto(r, l) == pc' = [pc EXCEPT ![r] = l]
Send(r, f) == sent' = [sent EXCEPT ![r] = f]
SetTx(r, t) == tx' = [tx EXCEPT ![r] = t]
Blame(r, F) == faults' = [faults EXCEPT ![r] = @ \cup F]

\* Every except clause of the pipeline: one ERROR frame, then return.
Fail(r, c, F) == /\ Goto(r, "done")
                 /\ Send(r, "ERROR")
                 /\ code' = [code EXCEPT ![r] = c]
                 /\ Blame(r, F)

-----------------------------------------------------------------------------
(* Stages 1, 1b, 1c: the connection, the session, the cache.               *)

\* Stage 1 finds the connection and yields RECEIVED.
Receive(r) ==
    /\ pc[r] = "received"
    /\ ConnOf[r] \in registry
    /\ Send(r, "RECEIVED")
    /\ Goto(r, IF HasSession(r) THEN "session" ELSE "lookup")
    /\ UNCHANGED <<shared, code, tx, sql, attempts, pending, history>>

ReceiveUnknown(r) ==
    /\ pc[r] = "received"
    /\ ConnOf[r] \notin registry
    /\ Fail(r, "CONNECTION_NOT_FOUND", {})
    /\ UNCHANGED <<shared, tx, sql, attempts, pending, ran, hit, saved>>

\* Stage 1b: get_active_by_id opens the transaction of app_db.
FindSession(r) ==
    /\ pc[r] = "session"
    /\ SessionOf[r] \in sessions
    /\ SetTx(r, "open")
    /\ Goto(r, "lookup")
    /\ UNCHANGED <<shared, sent, code, sql, attempts, pending, history>>

MissSession(r) ==
    /\ pc[r] = "session"
    /\ SessionOf[r] \notin sessions
    /\ Fail(r, "SESSION_NOT_FOUND", {})
    /\ UNCHANGED <<shared, tx, sql, attempts, pending, ran, hit, saved>>

SessionFault(r) ==
    /\ pc[r] = "session"
    /\ Fail(r, "SESSION_VALIDATION_ERROR", {"app_db"})
    /\ UNCHANGED <<shared, tx, sql, attempts, pending, ran, hit, saved>>

\* Mutant: the connection is left out of the cache key.
CandidatesOfAnyConnection(r) ==
    {a \in UNION {cache[c] : c \in Connections} :
        <<QuestionOf[r], QuestionOf[a]>> \in Similar}

\* The cached results that may answer r.
Candidates(r) ==
    {a \in cache[ConnOf[r]] : <<QuestionOf[r], QuestionOf[a]>> \in Similar}

\* Mutant: the return after the COMPLETE frame of a hit is missing.
LookupHitContinues(r) ==
    /\ pc[r] = "lookup" /\ CacheEnabled
    /\ \E a \in Candidates(r) : hit' = [hit EXCEPT ![r] = a]
    /\ Send(r, "COMPLETE")
    /\ Goto(r, "schema")
    /\ UNCHANGED <<shared, code, tx, sql, attempts, pending, ran, saved, faults>>

\* Mutant: a hit is written back like an answer of the pipeline.
LookupHitWritesBack(r) ==
    /\ pc[r] = "lookup" /\ CacheEnabled
    /\ \E a \in Candidates(r) : hit' = [hit EXCEPT ![r] = a]
    /\ Send(r, "COMPLETE")
    /\ Goto(r, "write_back")
    /\ UNCHANGED <<shared, code, tx, sql, attempts, pending, ran, saved, faults>>

\* Stage 1c, a hit: COMPLETE and return.  No message is written, and what is
\* found is found in Redis: PostgreSQL has no entries (see WriteBack).
LookupHit(r) ==
    /\ pc[r] = "lookup" /\ CacheEnabled
    /\ \E a \in Candidates(r) : hit' = [hit EXCEPT ![r] = a]
    /\ Send(r, "COMPLETE")
    /\ Goto(r, "done")
    /\ UNCHANGED <<shared, code, tx, sql, attempts, pending, ran, saved, faults>>

\* Stage 1c, a miss, an entry that expired, or no cache: stage 2 starts with its
\* first frame.  When Redis has no candidate the lookup reads PostgreSQL on app_db.
LookupMiss(r) ==
    /\ pc[r] = "lookup"
    /\ IF CacheEnabled THEN \E t \in {tx[r], "open"} : SetTx(r, t)
                       ELSE UNCHANGED tx
    /\ Send(r, "EXTRACTING_SCHEMA")
    /\ Goto(r, "schema")
    /\ UNCHANGED <<shared, code, sql, attempts, pending, history>>

\* Mutant: the exception of the cache is not swallowed.
LookupFaultRaises(r) ==
    /\ pc[r] = "lookup" /\ CacheEnabled
    /\ Fail(r, "SCHEMA_EXTRACTION_FAILED", {"cache"})
    /\ UNCHANGED <<shared, tx, sql, attempts, pending, ran, hit, saved>>

\* Stage 1c, a tier fails.  The exception is swallowed, but a statement that
\* failed on app_db leaves its transaction unusable until a rollback.
LookupFault(r) ==
    /\ pc[r] = "lookup" /\ CacheEnabled
    /\ \E t \in {tx[r], "open", "aborted"} : SetTx(r, t)
    /\ Blame(r, {"cache"})
    /\ Send(r, "EXTRACTING_SCHEMA")
    /\ Goto(r, "schema")
    /\ UNCHANGED <<shared, code, sql, attempts, pending, ran, hit, saved>>

-----------------------------------------------------------------------------
(* Stages 2 and 3: the schema, the history, the model.                     *)

\* Stage 2: get_schema returns what is cached without asking for the connection.
UseSchema(r) ==
    /\ pc[r] = "schema"
    /\ ConnOf[r] \in schemas
    /\ Send(r, "SCHEMA_EXTRACTED")
    /\ Goto(r, "history")
    /\ UNCHANGED <<shared, code, tx, sql, attempts, pending, history>>

\* Nothing is cached, or it has expired, and the connection is gone.
LoseConnection(r) ==
    /\ pc[r] = "schema"
    /\ ConnOf[r] \notin registry
    /\ schemas' = schemas \ {ConnOf[r]}
    /\ Fail(r, "SCHEMA_EXTRACTION_FAILED", {"disconnect"})
    /\ UNCHANGED <<registry, pool, sessions, messages, cache,
                   tx, sql, attempts, pending, ran, hit, saved>>

\* The schema of a MySQL or MongoDB target is a stub without tables.
StubSchema(r) ==
    /\ pc[r] = "schema"
    /\ ConnOf[r] \in registry \ PostgresConnections
    /\ schemas' = schemas \cup {ConnOf[r]}
    /\ Send(r, "SCHEMA_EXTRACTED")
    /\ Goto(r, "history")
    /\ UNCHANGED <<registry, pool, sessions, messages, cache,
                   code, tx, sql, attempts, pending, history>>

\* _extract_postgres_schema queries the target on the engine of the registered
\* entry, with no limit of time.
StartExtraction(r) ==
    /\ pc[r] = "schema"
    /\ ConnOf[r] \in registry \cap PostgresConnections
    /\ schemas' = schemas \ {ConnOf[r]}
    /\ pool' = [pool EXCEPT ![ConnOf[r]] = "open"]
    /\ Goto(r, "extracting")
    /\ UNCHANGED <<registry, sessions, messages, cache,
                   sent, code, tx, sql, attempts, pending, history>>

ExtractSchema(r) ==
    /\ pc[r] = "extracting"
    /\ schemas' = schemas \cup {ConnOf[r]}
    /\ Send(r, "SCHEMA_EXTRACTED")
    /\ Goto(r, "history")
    /\ UNCHANGED <<registry, pool, sessions, messages, cache,
                   code, tx, sql, attempts, pending, history>>

ExtractionFails(r) ==
    /\ pc[r] = "extracting"
    /\ Fail(r, "SCHEMA_EXTRACTION_FAILED", {"target"})
    /\ UNCHANGED <<shared, tx, sql, attempts, pending, ran, hit, saved>>

\* Mutant: the question is saved when the history is read.
ReadHistorySavesQuestion(r) ==
    /\ pc[r] = "history"
    /\ tx[r] # "aborted"
    /\ pending' = [pending EXCEPT ![r] = {"user"}]
    /\ SetTx(r, "open")
    /\ Send(r, "GENERATING_SQL")
    /\ Goto(r, "generate")
    /\ UNCHANGED <<shared, code, sql, attempts, history>>

\* Stage 3: list_by_session reads the history on app_db.
ReadHistory(r) ==
    /\ pc[r] = "history"
    /\ HasSession(r) => tx[r] # "aborted"
    /\ SetTx(r, IF HasSession(r) THEN "open" ELSE tx[r])
    /\ Send(r, "GENERATING_SQL")
    /\ Goto(r, "generate")
    /\ UNCHANGED <<shared, code, sql, attempts, pending, history>>

\* list_by_session on a transaction that an earlier failure has aborted.
HistoryRefused(r) ==
    /\ pc[r] = "history"
    /\ HasSession(r) /\ tx[r] = "aborted"
    /\ Fail(r, "SQL_GENERATION_FAILED", {})
    /\ UNCHANGED <<shared, tx, sql, attempts, pending, ran, hit, saved>>

\* get_llm_client raises, or the history cannot be read.
LoseHistory(r) ==
    /\ pc[r] = "history"
    /\ \/ Fail(r, "SQL_GENERATION_FAILED", {"model"})
       \/ HasSession(r) /\ tx[r] # "aborted" /\ Fail(r, "SQL_GENERATION_FAILED", {"app_db"})
    /\ UNCHANGED <<shared, tx, sql, attempts, pending, ran, hit, saved>>

\* Stage 3: the model answers with SQL, and stage 4 yields its frame.
Generate(r) ==
    /\ pc[r] = "generate"
    /\ \E s \in Answers \ {EmptySql} : sql' = [sql EXCEPT ![r] = s]
    /\ Send(r, "VALIDATING_SQL")
    /\ Goto(r, "validate")
    /\ UNCHANGED <<shared, code, tx, attempts, pending, history>>

\* The model gives up, fails, or answers with something that is not JSON.
GenerateNothing(r) ==
    /\ pc[r] = "generate"
    /\ \/ Fail(r, "UNANSWERABLE_QUERY", {})
       \/ Fail(r, "SQL_GENERATION_FAILED", {"model"})
    /\ UNCHANGED <<shared, tx, sql, attempts, pending, ran, hit, saved>>

-----------------------------------------------------------------------------
(* Stage 4: validation and the self-correction loop.                       *)

Accept(r) ==
    /\ pc[r] = "validate"
    /\ sql[r] \in ValidSql
    /\ Send(r, "EXECUTING")
    /\ Goto(r, "execute")
    /\ UNCHANGED <<shared, code, tx, sql, attempts, pending, history>>

\* Mutant: one refinement too many.
RejectOnceMore(r) ==
    /\ pc[r] = "validate"
    /\ sql[r] \notin ValidSql
    /\ IF attempts[r] <= MaxRefinements
       THEN /\ attempts' = [attempts EXCEPT ![r] = @ + 1]
            /\ Goto(r, "refine")
            /\ UNCHANGED <<sent, code, faults>>
       ELSE /\ Fail(r, "SQL_VALIDATION_FAILED", {})
            /\ UNCHANGED attempts
    /\ UNCHANGED <<shared, tx, sql, pending, ran, hit, saved>>

Reject(r) ==
    /\ pc[r] = "validate"
    /\ sql[r] \notin ValidSql
    /\ IF attempts[r] < MaxRefinements
       THEN /\ attempts' = [attempts EXCEPT ![r] = @ + 1]
            /\ Goto(r, "refine")
            /\ UNCHANGED <<sent, code, faults>>
       ELSE /\ Fail(r, "SQL_VALIDATION_FAILED", {})
            /\ UNCHANGED attempts
    /\ UNCHANGED <<shared, tx, sql, pending, ran, hit, saved>>

\* Mutant: the corrected SQL is run without a second validation.
RefineUnchecked(r) ==
    /\ pc[r] = "refine"
    /\ \E s \in Answers \cup {sql[r]} : sql' = [sql EXCEPT ![r] = s]
    /\ Send(r, "EXECUTING")
    /\ Goto(r, "execute")
    /\ UNCHANGED <<shared, code, tx, attempts, pending, history>>

\* The model is asked to correct the SQL.  An answer that is not JSON leaves
\* raw_sql and the verdict on it as they were and uses up the attempt.
Refine(r) ==
    /\ pc[r] = "refine"
    /\ \E s \in Answers \cup {sql[r]} : sql' = [sql EXCEPT ![r] = s]
    /\ Goto(r, "validate")
    /\ UNCHANGED <<shared, sent, code, tx, attempts, pending, history>>

RefineFails(r) ==
    /\ pc[r] = "refine"
    /\ Fail(r, "SQL_VALIDATION_ERROR", {"model"})
    /\ UNCHANGED <<shared, tx, sql, attempts, pending, ran, hit, saved>>

-----------------------------------------------------------------------------
(* Stage 5: the target database.                                           *)

\* execute() runs the cleaned SQL on the engine of the entry that stage 1
\* fetched; a disposed engine opens a new pool.
StartRun(r) ==
    /\ pc[r] = "execute"
    /\ ConnOf[r] \in SqlConnections
    /\ ran' = [ran EXCEPT ![r] = Clean[sql[r]]]
    /\ pool' = [pool EXCEPT ![ConnOf[r]] = "open"]
    /\ Goto(r, "running")
    /\ UNCHANGED <<registry, schemas, sessions, messages, cache,
                   sent, code, tx, sql, attempts, pending, hit, saved, faults>>

NoEngine(r) ==
    /\ pc[r] = "execute"
    /\ ConnOf[r] \notin SqlConnections
    /\ Fail(r, "NO_ENGINE", {})
    /\ UNCHANGED <<shared, tx, sql, attempts, pending, ran, hit, saved>>

RunSucceeds(r) ==
    /\ pc[r] = "running"
    /\ Goto(r, IF HasSession(r) THEN "user_message" ELSE "answer")
    /\ UNCHANGED <<shared, sent, code, tx, sql, attempts, pending, history>>

RunFails(r) ==
    /\ pc[r] = "running"
    /\ \E c \in {"EXECUTION_TIMEOUT", "QUERY_FAILED", "EXECUTION_FAILED"} :
          Fail(r, c, {"target"})
    /\ UNCHANGED <<shared, tx, sql, attempts, pending, ran, hit, saved>>

-----------------------------------------------------------------------------
(* Stage 6: the turn, the answer, the write-back.                          *)

\* The UPDATE of message_count locks the session row until the transaction
\* ends: another stream of the session, or its deletion, has to wait.
Locked(s) == \E r \in Requests : SessionOf[r] = s /\ pending[r] # {}

\* The foreign key is satisfied and the transaction takes statements.
MayWrite(r) == SessionOf[r] \in sessions /\ tx[r] # "aborted"

WriteMessage(r, role, next) ==
    /\ MayWrite(r)
    /\ pending' = [pending EXCEPT ![r] = @ \cup {role}]
    /\ SetTx(r, "open")
    /\ Goto(r, next)
    /\ UNCHANGED <<shared, sent, code, sql, attempts, history>>

WriteUser(r) == /\ pc[r] = "user_message"
                /\ ~Locked(SessionOf[r])
                /\ WriteMessage(r, "user", "assistant_message")

\* Mutant: the answer is written on a database session of its own, which waits for
\* the row that the question has locked.
WriteAssistantApart(r) == /\ pc[r] = "assistant_message"
                          /\ ~Locked(SessionOf[r])
                          /\ WriteMessage(r, "assistant", "commit")

WriteAssistant(r) == /\ pc[r] = "assistant_message"
                     /\ WriteMessage(r, "assistant", "commit")

\* Mutant: the commit is forgotten.
CommitTurnForgotten(r) ==
    /\ pc[r] = "commit"
    /\ pending' = [pending EXCEPT ![r] = {}]
    /\ Goto(r, "answer")
    /\ UNCHANGED <<shared, sent, code, tx, sql, attempts, history>>

CommitTurn(r) ==
    /\ pc[r] = "commit"
    /\ messages' = messages \cup {<<r, role>> : role \in pending[r]}
    /\ pending' = [pending EXCEPT ![r] = {}]
    /\ saved' = [saved EXCEPT ![r] = "yes"]
    /\ SetTx(r, "none")
    /\ Goto(r, "answer")
    /\ UNCHANGED <<registry, pool, schemas, sessions, cache,
                   sent, code, sql, attempts, ran, hit, faults>>

\* The turn is rolled back; that is logged and not fatal.
UndoTurn(r, F) ==
    /\ pending' = [pending EXCEPT ![r] = {}]
    /\ saved' = [saved EXCEPT ![r] = "failed"]
    /\ Blame(r, F)
    /\ SetTx(r, "none")
    /\ Goto(r, "answer")
    /\ UNCHANGED <<shared, sent, code, sql, attempts, ran, hit>>

\* The first INSERT is refused, because the session was deleted meanwhile.
RefuseTurn(r) ==
    /\ pc[r] = "user_message"
    /\ ~MayWrite(r)
    /\ UndoTurn(r, IF SessionOf[r] \in sessions THEN {} ELSE {"deleted"})

\* A statement, the wait for the row, or the commit fails.
RollBackTurn(r) ==
    /\ pc[r] \in {"user_message", "assistant_message", "commit"}
    /\ UndoTurn(r, {"app_db"})

Complete(r) ==
    /\ pc[r] = "answer"
    /\ Send(r, "COMPLETE")
    /\ Goto(r, IF CacheEnabled THEN "write_back" ELSE "done")
    /\ UNCHANGED <<shared, code, tx, sql, attempts, pending, history>>

BuildFails(r) ==
    /\ pc[r] = "answer"
    /\ Fail(r, "RESPONSE_BUILD_FAILED", {"build"})
    /\ UNCHANGED <<shared, tx, sql, attempts, pending, ran, hit, saved>>

\* cache_service.store: Redis takes the result, which from now on may be served.
\* The INSERT into query_cache is refused every time (QueryCache!Insert), which
\* leaves the transaction aborted for what would follow.
WriteBack(r) ==
    /\ pc[r] = "write_back"
    /\ cache' = [cache EXCEPT ![ConnOf[r]] = @ \cup {r}]
    /\ SetTx(r, "aborted")
    /\ Goto(r, "done")
    /\ UNCHANGED <<registry, pool, schemas, sessions, messages,
                   sent, code, sql, attempts, pending, history>>

\* Redis fails, before or after it has taken the result.
WriteBackFails(r) ==
    /\ pc[r] = "write_back"
    /\ \E kept \in {{}, {r}} : cache' = [cache EXCEPT ![ConnOf[r]] = @ \cup kept]
    /\ SetTx(r, "aborted")
    /\ Blame(r, {"cache"})
    /\ Goto(r, "done")
    /\ UNCHANGED <<registry, pool, schemas, sessions, messages,
                   sent, code, sql, attempts, pending, ran, hit, saved>>

-----------------------------------------------------------------------------
(* The world around the streams.                                           *)

\* The streams in R stop where they are: CancelledError and GeneratorExit pass
\* every except clause, and an open transaction is rolled back.
Cancel(R) ==
    /\ pc' = [r \in Requests |-> IF r \in R THEN "cancelled" ELSE pc[r]]
    /\ pending' = [r \in Requests |-> IF r \in R THEN {} ELSE pending[r]]
    /\ tx' = [r \in Requests |-> IF r \in R THEN "none" ELSE tx[r]]
    /\ UNCHANGED <<sent, code, sql, attempts, history>>

ClientLeaves(r) == Running(r) /\ Cancel({r}) /\ UNCHANGED shared

\* POST /database/disconnect: pops the entry and disposes its engine.
Disconnect(c) ==
    /\ c \in registry
    /\ registry' = registry \ {c}
    /\ pool' = [pool EXCEPT ![c] = "closed"]
    /\ UNCHANGED <<schemas, sessions, messages, cache,
                   pc, sent, code, tx, sql, attempts, pending, history>>

\* The process restarts: what it kept in memory is gone, the tables and the
\* cache tiers are not.
Restart ==
    /\ registry # {} \/ schemas # {} \/ \E r \in Requests : Running(r)
    /\ Cancel({r \in Requests : Running(r)})
    /\ registry' = {} /\ schemas' = {}
    /\ pool' = [c \in Connections |-> "closed"]
    /\ UNCHANGED <<sessions, messages, cache>>

\* Mutant: the deletion does not wait for the turns being written.
DeleteSessionUnlocked(s) ==
    /\ s \in sessions
    /\ sessions' = sessions \ {s}
    /\ messages' = {m \in messages : SessionOf[m[1]] # s}
    /\ UNCHANGED <<registry, pool, schemas, cache,
                   pc, sent, code, tx, sql, attempts, pending, history>>

\* DELETE /chat/sessions/{id}: the row and, by cascade, its messages.
DeleteSession(s) ==
    /\ s \in sessions
    /\ ~Locked(s)
    /\ sessions' = sessions \ {s}
    /\ messages' = {m \in messages : SessionOf[m[1]] # s}
    /\ UNCHANGED <<registry, pool, schemas, cache,
                   pc, sent, code, tx, sql, attempts, pending, history>>

-----------------------------------------------------------------------------
\* What a stream does next when nothing outside it fails, and what ends its waits
\* for a model or for the target: an answer, an error, or the timeout of a query.
Proceed(r) ==
    \/ Receive(r) \/ ReceiveUnknown(r) \/ FindSession(r) \/ MissSession(r)
    \/ LookupHit(r) \/ LookupMiss(r)
    \/ UseSchema(r) \/ LoseConnection(r) \/ StubSchema(r) \/ StartExtraction(r)
    \/ ReadHistory(r) \/ HistoryRefused(r)
    \/ Generate(r) \/ GenerateNothing(r)
    \/ Accept(r) \/ Reject(r) \/ Refine(r) \/ RefineFails(r)
    \/ StartRun(r) \/ NoEngine(r) \/ RunSucceeds(r) \/ RunFails(r)
    \/ WriteUser(r) \/ WriteAssistant(r) \/ CommitTurn(r) \/ RefuseTurn(r)
    \/ Complete(r) \/ WriteBack(r)

\* What may happen to it and need not: failures, and the end of an extraction.
Suffer(r) ==
    \/ SessionFault(r) \/ LookupFault(r) \/ ExtractSchema(r) \/ ExtractionFails(r)
    \/ LoseHistory(r) \/ RollBackTurn(r) \/ BuildFails(r) \/ WriteBackFails(r)

Step(r) == Proceed(r) \/ Suffer(r)

World ==
    \/ \E r \in Requests : ClientLeaves(r)
    \/ \E c \in Connections : Disconnect(c)
    \/ Restart
    \/ \E s \in Sessions : DeleteSession(s)

Next == (\E r \in Requests : Step(r)) \/ World

Spec == Init /\ [][Next]_vars

\* The event loop resumes every coroutine whose await has returned; the statements
\* on app_db that wait for no lock return, a query of the target returns or times
\* out, and the model provider answers or fails.  Nothing makes a wait for the
\* session row give up, and nothing makes an extraction return.
FairSpec == Spec /\ \A r \in Requests : WF_vars(Proceed(r))

-----------------------------------------------------------------------------
(* Properties.                                                             *)

Labels == {"received", "session", "lookup", "schema", "extracting", "history",
           "generate", "validate", "refine", "execute", "running", "user_message",
           "assistant_message", "commit", "answer", "write_back"} \cup Over

\* The codes of the errors raised before the target database is reached.
EarlyCodes == {"CONNECTION_NOT_FOUND", "SESSION_NOT_FOUND", "SESSION_VALIDATION_ERROR",
               "SCHEMA_EXTRACTION_FAILED", "SQL_GENERATION_FAILED", "UNANSWERABLE_QUERY",
               "SQL_VALIDATION_FAILED", "SQL_VALIDATION_ERROR", "NO_ENGINE"}

LateCodes == {"EXECUTION_TIMEOUT", "QUERY_FAILED", "EXECUTION_FAILED",
              "RESPONSE_BUILD_FAILED"}

\* The codes that report a failure of something the pipeline depends on,
\* rather than an answer the pipeline decided on.
OutageCodes == {"SESSION_VALIDATION_ERROR", "SCHEMA_EXTRACTION_FAILED",
                "SQL_GENERATION_FAILED", "SQL_VALIDATION_ERROR", "EXECUTION_TIMEOUT",
                "QUERY_FAILED", "EXECUTION_FAILED", "RESPONSE_BUILD_FAILED"}

FaultKinds == {"cache", "target", "disconnect", "app_db", "model", "deleted", "build"}

P == INSTANCE StreamProtocol WITH gone <- {r \in Requests : pc[r] = "cancelled"}

TypeOK ==
    /\ registry \in SUBSET Connections
    /\ pool \in [Connections -> {"open", "closed"}]
    /\ schemas \in SUBSET Connections
    /\ sessions \in SUBSET Sessions
    /\ messages \in SUBSET (Requests \X Roles)
    /\ cache \in [Connections -> SUBSET Requests]
    /\ pc \in [Requests -> Labels]
    /\ sent \in [Requests -> P!Frames]
    /\ code \in [Requests -> EarlyCodes \cup LateCodes \cup {"none"}]
    /\ tx \in [Requests -> {"none", "open", "aborted"}]
    /\ sql \in [Requests -> Answers \cup {NULL}]
    /\ attempts \in [Requests -> 0..MaxRefinements]
    /\ pending \in [Requests -> SUBSET Roles]
    /\ ran \in [Requests -> Statements \cup {NULL}]
    /\ hit \in [Requests -> Requests \cup {NULL}]
    /\ saved \in [Requests -> {"no", "yes", "failed"}]
    /\ faults \in [Requests -> SUBSET FaultKinds]

\* A target database is only ever sent the cleaned form of an SQL text that
\* passed validation, whatever the model answered before and however often it
\* was asked to correct itself (lines 445-531).
OnlyValidSqlRuns ==
    \A r \in Requests : ran[r] # NULL =>
        \E s \in ValidSql : sql[r] = s /\ ran[r] = Clean[s]

\* An error code of the stages before EXECUTING means that nothing happened:
\* no statement reached the target database, no message was or will be written
\* and nothing was cached, so the request may be repeated.
EarlyErrorsLeaveNoTrace ==
    \A r \in Requests : code[r] \in EarlyCodes =>
        /\ ran[r] = NULL
        /\ pending[r] = {} /\ \A role \in Roles : <<r, role>> \notin messages
        /\ \A c \in Connections : r \notin cache[c]

\* A committed turn is the question and the answer together, its session still
\* exists, and its SQL was run: no interleaving of streams, deletions, failed
\* statements and hang-ups leaves half a turn or an orphan (lines 594-616).
TurnsAreWhole ==
    \A r \in Requests, role \in Roles : <<r, role>> \in messages =>
        /\ \A other \in Roles : <<r, other>> \in messages
        /\ SessionOf[r] \in sessions
        /\ ran[r] # NULL

\* When a stream in a session is answered by running its query, its turn was
\* committed before the COMPLETE frame, unless the application database failed
\* or the session was deleted meanwhile.
FreshAnswersAreSaved ==
    \A r \in Requests :
        (HasSession(r) /\ sent[r] = "COMPLETE" /\ hit[r] = NULL) =>
            \/ saved[r] = "yes"
            \/ "app_db" \in faults[r]
            \/ SessionOf[r] \notin sessions

\* The cache holds, for a connection, only requests to it whose client was sent
\* COMPLETE for a query that was run, never one that was itself answered from
\* the cache; a hit is such a request (lines 203-282, 640-653).
CacheServesCompletedAnswers ==
    /\ \A c \in Connections : \A a \in cache[c] :
          /\ ConnOf[a] = c
          /\ sent[a] = "COMPLETE" /\ hit[a] = NULL /\ ran[a] # NULL
    /\ \A r \in Requests : hit[r] # NULL =>
          /\ ConnOf[hit[r]] = ConnOf[r]
          /\ <<QuestionOf[r], QuestionOf[hit[r]]>> \in Similar
          /\ sent[hit[r]] = "COMPLETE" /\ ran[hit[r]] # NULL
          /\ ran[r] = NULL

\* A failing cache tier does not make a request fail that has no session: it
\* is reported as an outage only if something else failed as well.
CacheFaultsHarmlessWithoutSession ==
    \A r \in Requests :
        (~HasSession(r) /\ code[r] \in OutageCodes) => faults[r] \ {"cache"} # {}

\* "Cache failures are NEVER fatal" (stream_service.py:285), for every request.
CacheFaultsNeverFatal ==
    \A r \in Requests : code[r] \in OutageCodes => faults[r] \ {"cache"} # {}

\* "if session_id is present in the request, user + assistant messages are
\* written to chat_messages" (stream_service.py:33-34), for every answer.
AnswersInSessionAreSaved ==
    \A r \in Requests :
        (HasSession(r) /\ sent[r] = "COMPLETE") =>
            \/ saved[r] = "yes"
            \/ "app_db" \in faults[r]
            \/ SessionOf[r] \notin sessions

\* "Connection closed and removed from the pool." (schemas/database.py:95): the
\* engine of a connection that is not registered holds no connection.
DisconnectedStaysClosed ==
    \A c \in Connections : c \notin registry => pool[c] = "closed"

\* The frames of a stream follow the protocol, with nothing after a final one.
StreamContract == P!ProtocolSpec

\* Every stream that has started ends, with COMPLETE or ERROR unless its client
\* left or the process was restarted: the correction loop (line 448) comes to an
\* end, and the lock on the session row (chat_repository.py:125) is handed on.
\* Only a stream whose target never answers its schema query waits for ever.
StreamsEnd ==
    \A r \in Requests :
        (pc[r] # "received") ~> \/ pc[r] = "cancelled"
                                \/ pc[r] = "done" /\ sent[r] \in P!Final
                                \/ [](pc[r] = "extracting")
=============================================================================
