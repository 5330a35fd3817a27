# A verification model of DB-ChatBot

DB-ChatBot is a FastAPI service that answers natural-language questions about a
database: a language model writes SQL, a validator checks it, the SQL is run on
the user's database, and the stages of this are streamed to the client as
server-sent events. This directory holds TLA+ specifications of the parts where
requests, failures and shared state meet, TLC configurations that check them on
small instances, and TLAPS proofs that hold for instances of any size. Line
numbers refer to the files under `src/`; `PROJECT.json` maps every definition to
the lines it stands for.

    tlc -config MCQueryPipeline.cfg MCQueryPipeline      # one to two minutes
    tlc -config MCQueryPipelineMixed.cfg MCQueryPipeline
    tlc -config MCQueryCache.cfg MCQueryCache            # one to two minutes
    tlc -config MCConnectionRegistry.cfg MCConnectionRegistry
    tlc -config MCChatStore.cfg MCChatStore              # about two minutes
    tlc -config MCTargetPool.cfg MCTargetPool            # about half a minute
    tlc -config MCCacheFaultFatal.cfg MCQueryPipeline    # this one and the rest: violations
    tlc -config MCHitNotSaved.cfg MCQueryPipeline
    tlc -config MCPoolReopened.cfg MCQueryPipeline
    tlc -config MCHitRate.cfg MCQueryCache
    tlc -config MCFallback.cfg MCQueryCache
    tlc -config MCReadOnly.cfg MCTargetPool
    tlapm QueryPipelineProofs.tla                        # each about a minute
    tlapm QueryCacheProofs.tla
    tlapm QueryCacheIndexProofs.tla
    tlapm QueryCacheFlushProofs.tla
    tlapm ConnectionRegistryProofs.tla
    tlapm ChatStoreProofs.tla
    tlapm ChatPagingProofs.tla
    tlapm TargetPoolProofs.tla

## 1. The system: parts, state, interaction

| Part | State it keeps | Operations | Meets others through |
|---|---|---|---|
| Query pipeline, `services/stream_service.py`, `api/v1/stream_query.py` | one generator per request: stage, SQL, correction count, its database session | the six stages, their error paths, persistence, cache hit, cache write-back | everything below; the client sees its frames |
| Query cache, `cache/cache_service.py`, `cache/similarity.py` | in Redis a vector index, an entry per key and a hash of counters for each connection; the table `query_cache`; the lazily created Redis client | `store`, `lookup`, background hit and miss counters, `invalidate` of a key or a connection, `get_metrics` | called by the pipeline with the request's own database session; by the cache endpoints |
| Connection registry, `utils/connection_manager.py`, `services/database_service.py`, `utils/db_drivers.py` | dictionary of live engines, under a lock, in one process; `database_connections` rows | connect, validate, disconnect, get | the pipeline and the schema extractor fetch entries |
| Chat history, `repositories/chat_repository.py`, `services/chat_service.py` | `chat_sessions` (with a message count), `chat_messages` (foreign key, cascade) | create, list, delete sessions; append and list messages | the pipeline and the two-step service read the history and append turns |
| Schema extractor, `ai/schema_extractor.py` | per-process schema cache with a time to live | `get_schema`, which extracts the schema of a PostgreSQL target without a time limit | registry; pipeline; the target's pool |
| SQL execution, `services/execution_service.py`, the engines of `utils/db_drivers.py` | the connection pool of each target | run one statement, read-only, with a limit and a timeout; ping | the pool is shared by streams, two-step queries, pings and schema extractions |
| SQL validator, `ai/sql_validator.py` | none | text to verdict and cleaned text | pipeline |
| Two-step AI service, `ai/ai_service.py`, `api/v1/query.py` | none | the same question answered in one non-streaming call, its statement without a timeout | chat history, registry, the target's pool |
| LLM clients, embeddings, prompts | none | external call; vector arithmetic; wording | pipeline, cache |
| Shell, web page, migrations, containers | settings | | |

All requests of a process run on one event loop: another request, a deletion or a
disconnect can run at every `await` and every `yield`, and nowhere else. Two
worker processes are started by the Dockerfile; they share PostgreSQL and Redis
and nothing else.

What is hard: a stream holds a connection entry across many awaits while others
disconnect; its SQLAlchemy session is lent to the cache and comes back possibly
aborted; a turn is two rows, two counter updates and a commit that may fail,
race with the deletion of the session or be cut short by a hang-up; the cache
writes after the final frame; the index of the cache is read, changed and
written back without protection; each of its calls touches two stores and
swallows every failure; the messages of a turn tie in `created_at`, and pages are
read by two statements each; a statement on the target that is given up leaves a
connection with an answer to come. The full list, each at its line and with the properties
that cover it, is under `hazards` in `PROJECT.json`.

What makes each part correct:
* pipeline: frames in order and one final frame; only validated SQL is run; a
  turn is saved whole or not at all; computed answers are saved; errors before
  execution leave no trace; every stream ends;
* cache: what is served was stored, for the same connection and a similar
  question; what was invalidated is gone; what was stored quietly is found; the
  counters agree;
* registry: an engine is open only while its connection is registered; records
  and registry agree; a known connection is found; what is an exception to this
  is named;
* chat history: sessions keep whole turns and know their size; a deletion reports
  what it removed; who asks for all pages gets all messages;
* targets: an answer goes to the call that asked; generated SQL runs read-only (which
  on MySQL it need not, see `read_only`); who
  gets fewer rows than there are is told; a target that hangs holds up only those that
  asked it without a time limit.

## 2. Modules

| Module | Contents |
|---|---|
| `StreamProtocol` | abstract: what the client of a stream may rely on, as a state machine over the last frame sent |
| `QueryPipeline` | detailed: `run_query_pipeline` for any number of concurrent streams, with the registry, engine pools, schema cache, sessions, messages and an abstract cache |
| `QueryPipelineProofs` | theorems about `QueryPipeline` |
| `MCQueryPipeline` | small instances for TLC |
| `ResultCache` | abstract: what the cache of one connection promises |
| `QueryCache` | detailed: `CacheService`, one action per command to Redis or statement to PostgreSQL |
| `QueryCacheProofs` | theorems about `QueryCache`: what it serves and what it counts |
| `QueryCacheIndexProofs` | theorems about `QueryCache`: its stores, keys and index (`CacheInvariant` and what follows from it) |
| `QueryCacheFlushProofs` | theorem about `QueryCache`: what a flush of the connection leaves behind |
| `MCQueryCache` | small instances for TLC |
| `ConnectionRegistry` | `connect`, `validate` and `disconnect` over several worker processes: registries, engine pools, records with their transactions |
| `ConnectionRegistryProofs` | theorems about `ConnectionRegistry` |
| `MCConnectionRegistry` | a small instance for TLC |
| `TurnLog` | abstract: what the chat history promises to those who add turns |
| `ChatStore` | detailed: the tables `chat_sessions` and `chat_messages` and the transactions of all requests on them, one action per SQL statement |
| `ChatStoreProofs` | theorems about `ChatStore`: the tables, the turns, the row locks |
| `ChatPagingProofs` | theorems about `ChatStore`: what the readers of a session are given |
| `MCChatStore` | small instances for TLC |
| `TargetPool` | one target database: the pool of its engine and the streams, two-step queries, pings and schema extractions that share it |
| `TargetPoolProofs` | theorems about `TargetPool` |
| `MCTargetPool` | a small instance for TLC |

`QueryPipeline` instantiates `StreamProtocol` (`P`) with the refinement mapping
"the streams without a final frame are the cancelled ones"; `QueryCache`
instantiates `ResultCache` (`R`); `ChatStore` instantiates `TurnLog` (`L`) with the
committed rows as the log and the calls that ended `saved` as those who were told.
`ChatStore` and `TargetPool` go into the detail of what are single steps or outcomes of
`QueryPipeline` (reading the history, writing the turn; running the statement) and add
the other requests that meet a stream there.

### QueryPipeline

An action is the code between two suspension points. `pc[r]` names where the
generator of request `r` is suspended, so the labels follow the stages: `received`,
`session`, `lookup`, `schema`, `extracting`, `history`, `generate`, `validate`, `refine`,
`execute`, `running`, `user_message`, `assistant_message`, `commit`, `answer`,
`write_back`. Where a guard in the code chooses between paths there is one action
for each: `LookupHit`, `LookupMiss` and `LookupFault`; `UseSchema`, `LoseConnection`,
`StubSchema` and `StartExtraction`; `Accept` and `Reject`; `CommitTurn`, `RefuseTurn` (the
foreign key) and `RollBackTurn`. Every `except` clause ends in `Fail`, which
sends ERROR with the clause's code.

* `sent[r]` is the last frame. Frames are sent by the action whose step ends at
  the `yield`; where a step only evaluates pure code before the next `yield`
  (formatting payloads) it is part of the same action.
* `tx[r]` is the transaction of the request's session: none, open, or aborted.
  PostgreSQL refuses every statement of an aborted transaction until a rollback.
* `pending[r]` are flushed, uncommitted messages. A stream with some holds the row
  lock that `UPDATE chat_sessions SET message_count` takes (`Locked`), and other
  writers and the deletion of the session wait. (A turn and a deletion that
  PostgreSQL itself resolves by aborting one of them appear as a failure.)
* `cache[c]` are the requests whose results were stored for connection `c`. A
  lookup may or may not be served one of them: expiry, replacement and
  invalidation need no actions here, they are behaviours of the lookup.
* `pool[c]` says whether the engine of `c` holds connections to the target; a schema
  extraction opens it as the query does.
* `schemas` are the connections whose schema is cached. `get_schema` looks there first, then
  for the registered entry, and asks a target only if it is PostgreSQL
  (`PostgresConnections`). The extraction has no time limit: at `extracting` a stream
  waits for an answer that need not come.
* The steps of a stream are `Proceed`, what the code does next while nothing outside fails,
  and `Suffer`: failures, and the end of an extraction.
* The world around the streams: clients hang up (`ClientLeaves`: CancelledError
  passes `except Exception`, the transaction is lost), connections are
  disconnected, sessions deleted, the process restarted (`Restart`: what is in
  memory is lost, tables and cache tiers stay).
* `ran`, `hit`, `saved` and `faults` are history: properties read them, no guard
  does. `faults[r]` records what failed outside the pipeline, so that a property
  can tell an error that had to happen from one that had not.

Abstracted: texts, prompts, tokens, timing and payloads; the verdict and the output
of the validator (parameters `ValidSql`, `Clean`); the model (answers with any
text of `Answers`, with nothing, or fails); `message_count`, which `ChatStore` has.

### QueryCache

The tasks are calls of `store`, `lookup` and `invalidate` for one connection; a lookup
goes on as the background task that counts its hit or miss. `client` is the pair of
globals of `_get_redis`, with the state in which the client object exists but the
ping has not returned. `index`, `entry` and `metrics` are Redis. `store` and
`invalidate` of a key read the index into `copy` and write it back in a later step.

The table `query_cache` has no variable, for it never has a row. Its one INSERT, in
`_pg_insert_entry` (`cache_service.py:336-354`), writes `:columns::jsonb`,
`:result_preview::jsonb` and `:embedding::jsonb` in a `text()`. SQLAlchemy takes a name for
a parameter only if no colon follows it, and sends these to PostgreSQL as they are, which
refuses the statement; `store` swallows the error at lines 644-645. `Insert` is therefore a
step that changes nothing, the SELECTs of the lookup find no row (`ReadRows`, `ReadRow`), the
UPDATEs of an invalidation none to deactivate, and Redis is the only tier there is. The run
`fallback` shows what this means for a process without Redis. (In `QueryPipeline` the refused
INSERT leaves the transaction aborted, after the last statement of the request.)

Failures: a Redis command fails and the call goes on as its `except` clause says
(`RedisFails`); a call is cancelled (`Abandon`); the process restarts; the index or an entry
expires. They are bounded together by `MaxMishaps`. A statement to PostgreSQL that fails does
what one does that finds no row. The best match among candidates above the threshold is
left open. `hit_count` and payloads are left out.

### ConnectionRegistry

The calls are requests to the three endpoints of `api/v1/database.py`; each is
accepted by any worker process, and a call of `connect` stands for the id it makes.
`registered[p]` is the dictionary of the `ConnectionManager` of process `p`; its
lock is held across no suspension and left out. `open` are the connections whose
engine holds connections to the target: `Ping` on an engine that was disposed opens
it again, as SQLAlchemy does (a closed MongoDB client fails instead, which is
`PingFails`). `status[c]` is the committed status of the record. `Load`, `Update` and
`Commit` are the SELECT, the flush and the commit of the request's session:
`locked` are the calls with an uncommitted write, whose row lock an `Update` of the same record
waits for; SQLAlchemy writes an attribute only if it differs from what was loaded,
so `Commit` compares `verdict` with `loaded`. `StatementFails` rolls back and leaves
registry and pool as they are: a connect that fails there stays registered under an id
nobody knows. A COMMIT may be carried out and its reply lost. `Restart(p)` empties
the registry of `p`, closes its pools and ends its calls; records stay. With the
FastAPI release the repository pins, the commit comes before the response, so a client
knows an id once its `connect` is `done`. `last_used_at` and error texts are left out.
`QueryPipeline` has its own, smaller view of the registry: entries that streams
fetch and a disconnect that is one step.

### ChatStore

The calls are `create_session` (which names the session it makes), streams that keep
their turn, two-step queries, `delete_session`, and clients that read a session page by
page with `get_session_messages`. `session`, `messages` and `count` are the committed
rows; `flushed`, `adds` and `deleting` are what a transaction has written and not
committed, and double as its row locks: an INSERT of a message shares the key of its
session, an UPDATE of `message_count` excludes other updates, a DELETE excludes both
(`MayInsert`, `MayUpdate`, `MayDelete`). `Apply` makes the writes visible. `began` is
the `created_at` of all a transaction inserts, for PostgreSQL's `now()` is the start of the
transaction: the messages of a turn tie, and `Pages` allows a SELECT every order within a
tie. A read makes a COUNT and a SELECT and repeats both for the next page as long as
`has_next` says so; `counted` and `listed` remember what there was at its first COUNT
and its last SELECT. The history for the prompt of a turn is the same SELECT from the start, with
the limit of 6: `HistoryIsOldest` says that it is the oldest messages that a turn is given, whatever
is committed around it. (A comment at `stream_service.py:351` calls them recent. The
prompt builder does not use its parameter, so that today nobody notices.) A call has a connection of the application's pool from its first
statement to the end of its transaction (`FreeConnection`), streams and two-step queries
through the answers of the model and of the target. `CommitLost` is a commit whose
reply is lost; `Refuse` is the foreign key; `Fails` is any error, or a wait for a connection
that is given up. A stream that cannot save its turn
goes on (`unsaved`), and its COMPLETE frame carries the ids of messages that are not stored;
ids are not modelled. Titles, token counts, the list of sessions and the repository methods
that nothing calls (`update_title`, `soft_delete`) are left out.

### TargetPool

`held[t]` is the connection of call `t`, `busy[k]` are the calls whose statements the
target still works on for connection `k`: an answer that comes on a connection is to any of
these. `Return` and `Discard` are the pool's (SQLAlchemy's) two ways to take back a connection,
after a transaction and after a cancellation. `readonly` are the connections whose
transaction is read-only; on MySQL the guard is set for the session and outlives the
transaction if the pool keeps the connection. `aborted` is a PostgreSQL transaction
whose guard failed. `Most`, `Asked` and `Cuts` are the arithmetic of `max_rows`. The target
may take for ever over a statement: `Answer` has no fairness. A schema extraction sends one
statement after the other on its connection (`NextTable`) and has no time limit; a stream can be
left by its client while it extracts or runs its query (`HangUp`), which closes the connection
as a timeout does. `ran`, `skipped`, `size` and
`source` are history. A MongoDB connection has no engine: its calls end in `NoEngine`,
and its pings do not use a pool. The conversion of values to JSON is left out.

## 3. What TLC checks

| Run | Instance | Shows |
|---|---|---|
| `pipeline` | 2 streams, same session, same PostgreSQL connection, similar questions, 3 SQL texts (valid, invalid, empty), 2 corrections, cache on, fair | `TypeOK`; `OnlyValidSqlRuns`; `EarlyErrorsLeaveNoTrace`; `TurnsAreWhole`; `FreshAnswersAreSaved`; `CacheServesCompletedAnswers`; `StreamContract` (refinement of `StreamProtocol`); `StreamsEnd` |
| `pipeline_mixed` | 2 streams: one in a session on a MongoDB connection (no engine), one with no session on a PostgreSQL connection | `CacheServesCompletedAnswers` across connections; `CacheFaultsHarmlessWithoutSession` |
| `cache` | 3 stores of different keys, 1 lookup, 1 invalidation or flush, 1 mishap, index of 2 | `TypeOK`; `QuietStoresAreFound`; `CountsAddUp`; `InvalidatedIsGone`; `FlushedIsGone`; `ServesStoredResults` (refinement of `ResultCache`) |
| `registry` | 1 connection, 1 validate, 2 disconnects, 2 processes, fair | `TypeOK`; `DisconnectedIsUnregistered`; `TakenOnce`; `OpenPoolsAreOwned`; `RecordsFollowRegistry`; `NotFoundIsJustified`; `CallsEnd` |
| `chat` | 1 session with a first message, 1 stream, 1 two-step query, 2 deletions, 1 client that reads pages of 3, history of 2, 2 connections, fair | `TypeOK`; `CountIsRight`; `ReportsAreRemoved`; `PagingIsComplete`; `HistoryIsOldest`; `NobodyIsStuck`; `KeepsTurns` (refinement of `TurnLog`); `CallsEnd` |
| `target` | 1 stream, 1 two-step query, 1 ping, 1 extraction, 1 connection, limits of 1 and 2 rows, up to 3 rows, all dialects, fair | `TypeOK`; `AnswersAreOwn`; `StatementsAreReadOnly`; `CutsAreReported`; `TimedCallsEnd`; `WaitsEnd` |

Why these bounds: two streams are enough for every pairwise race over a session
row, a connection entry and a cached result, and the theorems below remove the bound for the
safety properties of the pipeline. Two corrections is the value in the code. In the cache the races are
between two read-modify-write cycles, or between one and an invalidation, seen by
one lookup; one mishap reaches every single failure at every step. The third store is there
to overfill the index of two: a constraint of the run (`ThirdStoreIsCalm`) lets it begin only while
nothing was invalidated and nothing has gone wrong, which is what `QuietStoresAreFound` asks for
anyway, and the other properties are checked on two stores with everything else. The theorems remove these
bounds. (The last exception of `InvalidatedIsGone`, a hit that is counted while its key is
invalidated, takes two lookups, so that the run does not reach it; an instance of two stores, two
lookups and one invalidation without mishaps shows that the property is false without it.) In the registry
nothing bounds failures and restarts, the calls are few; the theorems remove that bound.
In `chat` the first message and two turns are five: a turn fills
the page of three and the other one starts a second page, while turns are committed before,
between and after its requests. The border does not divide a turn in this instance; the theorem covers
that case. The history of two messages divides one and leaves one out. Two connections for six calls make
them wait for each other; the two deletions meet each other and both kinds of turn. In `target` one
connection makes every call follow every other one on it, and two calls without a time limit let one
wait behind another that hangs; up to three rows lie below, at and above both limits.
Deadlock is checked for the registry only: in the others the calls of an instance end,
or wait for a target that does not answer, and no new ones come.

Six runs are expected to be violated. Each states what a comment, docstring,
response text or the README of the repository says, and TLC finds a behaviour of the code that
contradicts it:

| Run | Text | What happens |
|---|---|---|
| `cache_fault_fatal` | "Cache failures are NEVER fatal", `stream_service.py:285` | a failed cache statement aborts the transaction the history is read in; the request fails with SQL_GENERATION_FAILED. Without a session it is true (`CacheFaultsHarmlessWithoutSession`) |
| `hit_not_saved` | messages are written if a session is given, `stream_service.py:33` | an answer from the cache returns before the messages are written. For computed answers it is true (`FreshAnswersAreSaved`) |
| `pool_reopened` | "Connection closed and removed from the pool.", `schemas/database.py:95` | a stream in flight reopens the pool of the disposed engine, with its schema extraction or its query, and nothing closes it again |
| `hit_rate` | "Atomically increment hit count and metrics.", `cache_service.py:249`; "[0.0, 1.0]", `api/v1/cache.py:91` | hits and total are incremented by two commands; between them there can be more hits than queries, and a failure there leaves it so. `CountsAddUp` says by how much the counters differ and when |
| `read_only` | "executes them in a read-only sandbox", `README.md:5`; "wraps execution in `SET TRANSACTION READ ONLY`", `README.md:89` | on MySQL a two-step query sets nothing, and a stream that fails to set it goes on. `StatementsAreReadOnly` says that these are the only two ways |
| `fallback` | "gracefully degrades to PG-only mode", `cache_service.py:74`; "Fallback tier: PostgreSQL", line 425 | the INSERT of the fallback tier is refused every time: without Redis nothing that was stored is found |

Every property of a passing run has a mutant of the code (a definition marked
`Mutant` next to the one it replaces) that violates it.

### Fairness

`FairSpec` of the pipeline has weak fairness on `Proceed` of each stream: the event loop resumes
a coroutine whose await has returned, a statement on the application's database that waits for no
lock returns, the target query returns or times out (`asyncio.wait_for` bounds it), and the
model provider answers or fails. The last is an
assumption about the provider, the code sets no timeout of its own on that call. Failures are
in `Suffer`, which has no fairness: nothing makes a wait for the row lock of a session give up,
for `db/session.py` sets no lock or statement timeout, so that `StreamsEnd` needs the lock to be
handed on. Nor is a schema extraction assumed to end: it queries the target with no limit of
time, and a stream that waits there for ever is the one exception `StreamsEnd` names. Nothing is
assumed about the world: nobody has to hang up, disconnect or delete, and no
failure has to happen or to stop.

In `ConnectionRegistry` the fairness is on `Proceed`, the steps of a call that a worker
has accepted: pings have a timeout and the application database answers. A failing
statement is not among them, because nothing in the code bounds the wait for a row
lock: `CallsEnd` says that the lock is released, not that the wait is given up.

In `ChatStore` likewise the fairness is on `Proceed` of each call: a statement that is not
blocked is answered, and the model and the target answer or fail. Failures, lost replies and
hang-ups need not happen. `CallsEnd` there says that row locks and connections are always
handed on. What it takes besides fairness is an invariant, `NobodyIsStuck`: who waits for a
row waits for a call that can go on, and who waits for a connection has no lock yet.

In `TargetPool` time passes: `Timeout` of the calls that have one and, for each call that
waits, `PoolTimeout` or a free connection. Nothing is assumed of the target. `TimedCallsEnd`
and `WaitsEnd` are therefore what holds next to a target that never answers, which
two-step queries and extractions may wait on for ever.

## 4. What is proved

`QueryPipelineProofs` proves, for any sets of requests, connections, sessions,
questions and SQL texts and any `MaxRefinements`, from `PipelineAssumption` alone:

* `InductiveInvariant`: the strengthened invariant holds always;
* `PipelineTypeOK`, `ValidSqlTheorem`, `EarlyErrorsTheorem`, `WholeTurnsTheorem`,
  `FreshAnswersTheorem`, `CacheTheorem`, `CacheFaultsTheorem`: each safety invariant of
  the runs `pipeline` and `pipeline_mixed`;
* `ContractTheorem`: `Spec => StreamContract`, the pipeline implements the
  stream protocol, and from it `FinalTheorem`: no frame follows COMPLETE or ERROR, and
  none goes to a client that has left.

The argument. None of the invariants is inductive: each says something of ended
streams that follows only from where a running stream is. The strengthening adds,
for every stream, what its label implies: which frame was last sent and that it
carries no error code; that at `execute` the SQL is valid and from `running` on it
was run; that `pending` is empty outside the persistence steps, holds the question at
`assistant_message` and both messages at `commit`; that a stream with pending messages
has a session that still exists, which is what the row lock is for (`DeleteSession` waits); and
that committed messages belong to streams that are past the commit. Local facts
survive steps of other streams because a step changes the local state of its own
stream only (lemma `OwnState`). There is a lemma for the steps of a stream and
one for the world around it for each part of the invariant. The contract follows
because each action sends the frame next to the one its label implies.

`QueryCacheProofs` proves, for any sets of calls and keys, any index bound and any number
of mishaps, from `CacheAssumption`:

* `ServeTheorem`: `Spec => ServesStoredResults`, the cache implements `ResultCache`;
* `CountsTheorem`: `Spec => []CountsAddUp`.

For the first, what Redis keeps under a key is the result of a store of that
key (`TiersOk`), and a call between the search and the
write-back of a hit has a similar key and, where it will write one back, a result of that key
(`CallOk`); a lookup that is still searching has no answer, so that answering is one
step of the abstract cache. For the second, hits and misses exceed the total by the
number of lookups between their two increments; each step moves at most one lookup
in or out of that set, which is finite because `Lookups` is assumed to be.

`QueryCacheIndexProofs` extends it with what the cache does with a key, again from
`CacheAssumption`, which says that `Stores` and `Lookups` are finite (a run of the program makes
finitely many calls by any time; `QuietStoresAreFound` compares their number with the bound of
the index):

* `CacheInvariant`: `Spec => []CacheInv`, and from it `CacheTypeOK`;
* `InvalidatedTheorem`: `Spec => []InvalidatedIsGone`;
* `QuietStoresTheorem`: `Spec => []QuietStoresAreFound`.

The operators on the index come first: `Without` and `Prune` keep an index free of repetitions,
change its length as they should, and a key is pruned only if `MaxIndex` others are behind it
(`WithoutFacts`, `PruneFacts`, `PruneKeeps`, `SavedIndex`). `Without` is written for an index
that lists a key once at most, which `TypeOK` says of the index and of every copy of it
(`Distinct`), so that it is what the list comprehension of `store` and `invalidate` computes.

`InvalidatedIsGone` is about a lookup that is over, and says nothing of how its key stayed away
until then. The strengthening `GoneInv` follows one invalidation: from the step that dropped the
entry on the key has none, and once it is through a lookup that began later has
no answer under it (`GoneOk`), unless a call revives the key (`Revived`): a store of it that was
under way or came later, or a lookup that was about to write a hit back. Whoever revives
a key does so for good, so that the alternative is stable and no step leads from `GoneOk` to
neither.

For `QuietStoresAreFound` the strengthening `CalmInv` says what holds while nothing was
invalidated and nothing has gone wrong: what the index or a copy of it lists has an entry (`CalmOk`);
the key of a store that no other one overlapped is in the index, and behind it only keys that were
stored later, and so it is in the copy of every store that began later, which is what that one
writes back (`ListedOk`, `Keeps`); a lookup that began later finds it (`FoundOk`). A prune takes the
oldest keys: as long as fewer than `MaxIndex` keys were stored later (`HasRoom`) this one is not
among them. Nothing bounds the number of stores.

`QueryCacheFlushProofs` extends it with

* `FlushedTheorem`: `Spec => []FlushedIsGone`.

A flush drops the index and leaves the entries, so it is not enough that a key has no old
entry: it must have none where anything leads to it. `FlushInv` follows one flush and one
key that no overlapping call exempts (`Exempt`, which is stable): from the step that drops the
index on, a key that the index lists, or that a call which began after the flush has in its copy,
stores or has matched (`Reached`), has no entry from before the flush, and such a lookup
neither has answered with one nor is about to write one back (`FlushOk`). When the index is
dropped nothing is reached; later a key comes to be reached only through the index or by a store
of it that has just replaced its entry (`LeadsChanges`).

`ConnectionRegistryProofs` proves, for any sets of processes, connections and calls, from
`RegistryAssumption`:

* `InductiveInvariant`, and from it `RegistryTypeOK`, `DisconnectedTheorem`,
  `TakenOnceTheorem`, `OpenPoolsTheorem`, `RecordsTheorem` and `NotFoundTheorem`: every safety
  property of the run `registry`.

The argument turns on one fact, `TakenOnce`: at most one disconnect ever takes the entry of a
connection (`Entries`), in the process that made it. And an entry without such a disconnect is there or was lost in
a restart. A disconnect therefore never loads "disconnected" and always writes it
(`Records`); a validate that got the entry did so before the removal, so that it
overlaps the disconnect (`Validations`, lemma `ValidateOverlaps`), which is the
exception the properties name. Lemmas `OwnState` and `StepEffects` say what a step leaves alone and
which few actions change a variable; each part of the invariant then looks at those
actions only.

`ChatStoreProofs` proves, for any sets of calls, any page size and any number of
connections, from `ChatAssumption`:

* `InductiveInvariant`, and from it `ChatTypeOK`, `CountTheorem` and `ReportsTheorem`;
* `TurnsTheorem`: `Spec => KeepsTurns`, the chat history implements `TurnLog`;
* `SavedTurnsTheorem`: a turn that its caller is told was saved stays in the history, both
  messages of it, until the session is deleted;
* `NobodyIsStuckTheorem`: `Spec => []NobodyIsStuck`, there is no deadlock.

The invariant says, for each label, what its transaction has written (`WorkOf`): a turn at
its commit has both messages and has raised the count twice. What is committed came from
calls that are over (`RowsOk`), so that no call adds a message twice and the sizes of
disjoint sets can be added. `LocksOk` is what the row locks are for: next to a deletion
nobody has written to the session, and a turn that has written something still has its
session. `ReportsOk` follows a deletion from its look at the session to its end: what it
counted is still there, or a deletion of the session has removed it.

For `NobodyIsStuck` one more fact is invariant: of the calls of a session one at most has raised
`message_count` (`OneUpdater`). A call with a lock that others wait for is then a
deletion at its commit, the one call that has raised the count, whose next INSERT or UPDATE
nothing is in the way of, or a call that has inserted, which waits at most for
that one. Nobody waits for a deletion that has no lock yet. Every call may fail at any time,
and the invariant still holds when all the others have: no circle of calls is ever there.

`ChatPagingProofs` extends it with what the SELECTs return:

* `PagingInvariant`, and from it `PagingTheorem`: `Spec => []PagingIsComplete`;
* `HistoryTheorem`: `Spec => []HistoryIsOldest`, the history a turn is given is the beginning of
  its session, whatever the limit.

A message has a place in the order of `created_at`, up to the ties within a transaction; a tie
has as many places as messages (`PlacesOfTie`), so that a SELECT whose page contains all places
of a tie returns all of the tie (`SelectedPage`). The places of `n` messages lie on the first
`TotalPages(n)` pages (`PlaceWithin`: the quotient is rounded up). Turns that are
committed later and began later take later places and move nothing (`LaterPlaces`). `PagingInv` says
that while only such turns were added since the first COUNT (`Still`), a read has every undivided tie
of the pages it was answered with, and that its last COUNT is no lower than the first. It also needs
what makes "while" an invariant: a history only grows until it is deleted, and then stays empty
(`HistoryGrows`), so that one that continues the first COUNT now did so all along (`StaysIntact`); and
those who wrote it are over, so that the order does not change (`WritersAreOver`).

`TargetPoolProofs` proves, for any calls, limits and numbers of rows, from `PoolAssumption`:

* `InductiveInvariant`, and from it `PoolTypeOK`, `AnswersTheorem`, `ReadOnlyTheorem` and
  `CutsTheorem`: every safety property of the run `target`.

Answers stay with their calls because a connection owes answers to the call that holds it
and to no other (`OwnBusy`): whoever gives one back clears it, by ending the transaction or by
closing the connection.

Every invariant and every refinement of safety that a run checks is proved. Only
model-checked are the liveness properties, `StreamsEnd`, `CallsEnd` (twice),
`TimedCallsEnd` and `WaitsEnd`: the proof system has no rules for fairness and `ENABLED` here.
The expected violations are counterexamples, which TLC finds.

## 5. Not modelled

* `ai/sql_validator.py`: a function of SQL text, regular expressions and a parser.
* Embeddings and cosine similarity: floating-point arithmetic; the relation
  `Similar` stands for them. It is the same in all processes, which is true of the
  embedding library; the fallback without it uses `hash()`, which differs between processes, so
  that what one has stored matches nothing in another (see the hazards).
* `hit_count`, `tokens_saved`, the metrics and health endpoints of the cache, the list of
  sessions: they only read or count.
* LLM clients, prompts, settings, logging, error formatting, the web page,
  migrations, containers.
* The framework closes the request's database session before the body of the stream runs;
  the generator reopens it by using it. In the model the stream owns the session
  and a cancelled stream's transaction ends at once.
* More than one worker process, but for the registry: streams and cache calls are those of one.

## 6. Plan

Done: the pipeline, which every answer goes through; the cache, the part with the most
unprotected interleavings; the connection registry; the chat history with all its writers; the pools
of the targets; proofs of their safety. What is left:

1. Abstract specifications of the connection registry and of a target's pool, and proofs that
   `ConnectionRegistry` and `TargetPool` implement them.
2. The cache of several worker processes, with embeddings that differ between them.
3. `QueryPipeline` over the detailed `ChatStore` and `TargetPool` instead of its own view
   of them.
4. Message ids, so that a COMPLETE frame that names messages which were not saved can be told
   from one that names saved ones.
