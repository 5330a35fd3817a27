----------------------------- MODULE ChatStore -----------------------------
(***************************************************************************)
(* The chat history: the tables chat_sessions and chat_messages, and the   *)
(* requests that run transactions on them at the same time.                *)
(*                                                                         *)
(*   create_session, delete_session, get_session_messages                  *)
(*                             (app/services/chat_service.py)              *)
(*   a stream that keeps its turn    (app/services/stream_service.py)      *)
(*   the two-step query, process_query    (app/ai/ai_service.py)           *)
(*                                                                         *)
(* An action is one SQL statement with the code up to the next one.        *)
(* PostgreSQL runs at READ COMMITTED: a statement sees what was committed  *)
(* when it began and what its own transaction wrote.  A session is named   *)
(* by the call of create_session that makes it.                            *)
(***************************************************************************)
EXTENDS Naturals, FiniteSets

CONSTANTS Creates, Streams, Queries, Deletes, Reads,  \* the calls
          WithMessage,    \* the creates with an initial message
          Linked,         \* the sessions that have a connection
          SessionOf,      \* the session a call is about
          PageSize,
          HistoryLimit,   \* 6 in the code
          PoolSize,       \* DB_POOL_SIZE + DB_MAX_OVERFLOW
          NULL

Turns == Streams \cup Queries
Calls == Creates \cup Turns \cup Deletes \cup Reads

ASSUME ChatAssumption ==
    /\ WithMessage \subseteq Creates /\ Linked \subseteq Creates
    /\ SessionOf \in [Calls -> Creates]
    /\ \A c \in Creates : SessionOf[c] = c
    /\ PageSize \in Nat \ {0} /\ HistoryLimit \in Nat /\ PoolSize \in Nat \ {0}
    /\ Creates \cap (Turns \cup Deletes \cup Reads) = {}
    /\ Turns \cap (Deletes \cup Reads) = {}
    /\ Deletes \cap Reads = {} /\ Streams \cap Queries = {}
    /\ \A M \in SUBSET (Calls \X {"user", "assistant"}) : M # NULL

Roles == {"user", "assistant"}
Messages == Calls \X Roles

VARIABLES
    \* committed rows
    session,   \* session[s]: "none", "open" or "gone"
    messages,  \* messages[s]: its messages
    count,     \* count[s]: its message_count
    \* one transaction per call
    pc,
    began,     \* began[t]: when its transaction began, the created_at of what it
               \* inserts; 0 before
    clock,
    flushed,   \* flushed[t]: messages it inserted and has not committed
    adds,      \* adds[t]: how often it has raised message_count, uncommitted
    deleting,  \* the calls with an uncommitted DELETE of their session
    \* local to one call
    seen,      \* seen[d]: message_count as the deletion loaded it
    asked,     \* asked[r]: the pages the client of a read asked for
    total,     \* total[r]: the last COUNT a read made
    got,       \* got[t]: the messages its SELECTs returned
    \* history, read by the properties only
    counted,   \* counted[t]: what there was when a deletion, or the first COUNT
               \* of a read, looked
    listed,    \* listed[t]: what there was when it last selected
    removed    \* removed[d]: the messages a deletion removed, or NULL

rows   == <<session, messages, count>>
work   == <<flushed, adds, deleting>>
locals == <<seen, asked, total, got>>
past   == <<counted, listed, removed>>
vars   == <<session, messages, count, pc, began, clock, flushed, adds, deleting,
            seen, asked, total, got, counted, listed, removed>>

\* How a call may end.
Ended == {"created", "saved", "unsaved", "deleted", "listed", "not_found",
          "no_connection", "failed"}

\* Labels of a call that has a transaction, and with it a connection.
Open == {"count", "select", "think", "insert_user", "increment_user",
         "insert_assistant", "increment_assistant", "insert_first",
         "increment_first", "delete", "commit"}

Init ==
    /\ session = [s \in Creates |-> "none"]
    /\ messages = [s \in Creates |-> {}]
    /\ count = [s \in Creates |-> 0]
    /\ pc = [t \in Calls |-> "start"]
    /\ began = [t \in Calls |-> 0]
    /\ clock = 0
    /\ flushed = [t \in Calls |-> {}]
    /\ adds = [t \in Calls |-> 0]
    /\ deleting = {}
    /\ seen = [d \in Deletes |-> 0]
    /\ asked = [r \in Reads |-> 0]
    /\ total = [r \in Reads |-> 0]
    /\ got = [t \in Calls |-> {}]
    /\ counted = [t \in Calls |-> {}]
    /\ listed = [t \in Calls |-> {}]
    /\ removed = [d \in Deletes |-> NULL]

Goto(t, l) == pc' = [pc EXCEPT ![t] = l]

-----------------------------------------------------------------------------
(* Connections and row locks.                                              *)

\* A session takes a connection with its first statement and keeps it until the
\* transaction ends.
FreeConnection == Cardinality({t \in Calls : pc[t] \in Open}) < PoolSize

Others(t) == {o \in Calls \ {t} : SessionOf[o] = SessionOf[t]}

\* Mutant: INSERT takes FOR SHARE instead, which shuts out an update.
MayUpdateUnshared(t) ==
    \A o \in Others(t) : o \notin deleting /\ adds[o] = 0 /\ flushed[o] = {}

\* Mutant: a deletion waits for other deletions only.
MayDeleteRegardless(t) == Others(t) \cap deleting = {}

\* An INSERT of a message takes FOR KEY SHARE on the session it refers to, an
\* UPDATE of message_count NO KEY UPDATE, a DELETE takes FOR UPDATE.
MayInsert(t) == \A o \in Others(t) : o \notin deleting
MayUpdate(t) == \A o \in Others(t) : o \notin deleting /\ adds[o] = 0
MayDelete(t) == \A o \in Others(t) : o \notin deleting /\ adds[o] = 0 /\ flushed[o] = {}

-----------------------------------------------------------------------------
(* Every call begins with a connection and a look at its session.          *)

\* The transaction begins.  The time matters for those that will insert.
Begin(t) ==
    /\ pc[t] = "start" /\ FreeConnection
    /\ IF t \in Creates \cup Turns
       THEN /\ clock' = clock + 1
            /\ began' = [began EXCEPT ![t] = clock + 1]
       ELSE UNCHANGED <<clock, began>>

\* get_active_by_id; nothing makes a session inactive.
Find(t) ==
    /\ t \in Turns \cup Reads
    /\ Begin(t)
    /\ session[SessionOf[t]] = "open"
    /\ asked' = IF t \in Reads THEN [asked EXCEPT ![t] = @ + 1] ELSE asked
    /\ Goto(t, IF t \in Queries /\ SessionOf[t] \notin Linked THEN "no_connection"
               ELSE "count")
    /\ UNCHANGED <<rows, work, seen, total, got, past>>

\* get_by_id; the deletion will report the message_count it loads.
FindForDelete(t) ==
    /\ t \in Deletes
    /\ Begin(t)
    /\ session[SessionOf[t]] = "open"
    /\ seen' = [seen EXCEPT ![t] = count[SessionOf[t]]]
    /\ counted' = [counted EXCEPT ![t] = messages[SessionOf[t]]]
    /\ Goto(t, "delete")
    /\ UNCHANGED <<rows, work, asked, total, got, listed, removed>>

Miss(t) ==
    /\ t \notin Creates
    /\ Begin(t)
    /\ session[SessionOf[t]] # "open"
    /\ Goto(t, "not_found")
    /\ UNCHANGED <<rows, work, locals, past>>

-----------------------------------------------------------------------------
(* list_by_session: a COUNT, which a turn has no use for, then a SELECT.   *)

Tied(M, m) == {x \in M : began[x[1]] = began[m[1]]}

\* Mutant: the newest first.
PlacesFromNewest(M, m) ==
    LET before == Cardinality({x \in M : began[x[1]] > began[m[1]]})
    IN before + 1 .. before + Cardinality(Tied(M, m))

\* The places of the tie of m in the order of created_at, counted from 1.
Places(M, m) ==
    LET before == Cardinality({x \in M : began[x[1]] < began[m[1]]})
    IN before + 1 .. before + Cardinality(Tied(M, m))

\* What of M a SELECT ... ORDER BY created_at OFFSET o LIMIT n may return: the
\* messages of one transaction have the same created_at, so that those of a tie
\* fill the places of the tie that are within the page in any order.
Pages(M, o, n) ==
    {P \in SUBSET M : \A m \in M :
        Cardinality(P \cap Tied(M, m)) = Cardinality(Places(M, m) \cap (o + 1 .. o + n))}

Limit(t) == IF t \in Reads THEN PageSize ELSE HistoryLimit

\* Mutant: pages are counted from 0.
OffsetFromZero(t) == IF t \in Reads THEN asked[t] * PageSize ELSE 0

Offset(t) == IF t \in Reads THEN (asked[t] - 1) * PageSize ELSE 0

CountMessages(t) ==
    LET now == messages[SessionOf[t]] IN
    /\ pc[t] = "count"
    /\ total' = IF t \in Reads THEN [total EXCEPT ![t] = Cardinality(now)] ELSE total
    /\ counted' = IF t \in Reads /\ asked[t] = 1 THEN [counted EXCEPT ![t] = now]
                  ELSE counted
    /\ Goto(t, "select")
    /\ UNCHANGED <<rows, began, clock, work, seen, asked, got, listed, removed>>

\* _build_pagination_meta: the quotient is rounded up.
TotalPages(n) == IF n > 0 THEN (n + PageSize - 1) \div PageSize ELSE 0

HasNext(t) == asked[t] < TotalPages(total[t])

\* A turn has the history for its prompt.  A read is answered with a page, and
\* its client asks for the next one, a request of its own, or is done.
SelectPage(t) ==
    LET now == messages[SessionOf[t]] IN
    /\ pc[t] = "select"
    /\ \E P \in Pages(now, Offset(t), Limit(t)) : got' = [got EXCEPT ![t] = @ \cup P]
    /\ listed' = [listed EXCEPT ![t] = now]
    /\ Goto(t, IF t \in Turns THEN "think" ELSE IF HasNext(t) THEN "start" ELSE "listed")
    /\ UNCHANGED <<rows, began, clock, work, seen, asked, total, counted, removed>>

-----------------------------------------------------------------------------
(* A turn: the model is asked and its SQL is run; then two messages, each  *)
(* an INSERT and an UPDATE of the session.                                 *)

\* The history has been used.
Think(t) ==
    /\ pc[t] = "think"
    /\ got' = [got EXCEPT ![t] = {}]
    /\ listed' = [listed EXCEPT ![t] = {}]
    /\ Goto(t, "insert_user")
    /\ UNCHANGED <<rows, began, clock, work, seen, asked, total, counted, removed>>

Insert(t, label, role, next) ==
    /\ pc[t] = label
    /\ MayInsert(t)
    /\ t \in Turns => session[SessionOf[t]] = "open"
    /\ flushed' = [flushed EXCEPT ![t] = @ \cup {<<t, role>>}]
    /\ Goto(t, next)
    /\ UNCHANGED <<rows, began, adds, deleting, clock, locals, past>>

\* Mutant: the first message of a session is not counted.
InsertFirstUncounted(t) == Insert(t, "insert_first", "user", "commit")

InsertUser(t)      == Insert(t, "insert_user", "user", "increment_user")
InsertAssistant(t) == Insert(t, "insert_assistant", "assistant", "increment_assistant")
InsertFirst(t)     == Insert(t, "insert_first", "user", "increment_first")

\* Mutant: each message counts for a turn.
IncrementByTurn(t) ==
    /\ pc[t] \in {"increment_user", "increment_assistant", "increment_first"}
    /\ MayUpdate(t)
    /\ adds' = [adds EXCEPT ![t] = @ + 2]
    /\ Goto(t, IF pc[t] = "increment_user" THEN "insert_assistant" ELSE "commit")
    /\ UNCHANGED <<rows, began, flushed, deleting, clock, locals, past>>

\* message_count = message_count + 1, in the database.
Increment(t) ==
    /\ pc[t] \in {"increment_user", "increment_assistant", "increment_first"}
    /\ MayUpdate(t)
    /\ adds' = [adds EXCEPT ![t] = @ + 1]
    /\ Goto(t, IF pc[t] = "increment_user" THEN "insert_assistant" ELSE "commit")
    /\ UNCHANGED <<rows, began, flushed, deleting, clock, locals, past>>

InsertSession(t) ==
    /\ t \in Creates
    /\ Begin(t)
    /\ Goto(t, IF t \in WithMessage THEN "insert_first" ELSE "commit")
    /\ UNCHANGED <<rows, work, locals, past>>

\* Mutant: a row that another deletion has locked is skipped.
DeleteSkipsLocked(t) ==
    /\ pc[t] = "delete"
    /\ \A o \in Others(t) : o \notin deleting => adds[o] = 0 /\ flushed[o] = {}
    /\ deleting' = IF session[SessionOf[t]] = "open" /\ Others(t) \cap deleting = {}
                   THEN deleting \cup {t} ELSE deleting
    /\ Goto(t, "commit")
    /\ UNCHANGED <<rows, began, flushed, adds, clock, locals, past>>

Delete(t) ==
    /\ pc[t] = "delete"
    /\ MayDelete(t)
    /\ deleting' = IF session[SessionOf[t]] = "open" THEN deleting \cup {t} ELSE deleting
    /\ Goto(t, "commit")
    /\ UNCHANGED <<rows, began, flushed, adds, clock, locals, past>>

-----------------------------------------------------------------------------
(* The end of a transaction.                                               *)

\* What is written becomes visible.
Apply(t) ==
    LET s == SessionOf[t] IN
    IF t \in deleting
    THEN /\ session' = [session EXCEPT ![s] = "gone"]
         /\ messages' = [messages EXCEPT ![s] = {}]
         /\ count' = [count EXCEPT ![s] = 0]
         /\ removed' = [removed EXCEPT ![t] = messages[s]]
    ELSE /\ session' = IF t \in Creates THEN [session EXCEPT ![s] = "open"] ELSE session
         /\ messages' = [messages EXCEPT ![s] = @ \cup flushed[t]]
         /\ count' = [count EXCEPT ![s] = @ + adds[t]]
         /\ UNCHANGED removed

Forget(t) ==
    /\ flushed' = [flushed EXCEPT ![t] = {}]
    /\ adds' = [adds EXCEPT ![t] = 0]
    /\ deleting' = deleting \ {t}

Success(t) == IF t \in Creates THEN "created"
              ELSE IF t \in Turns THEN "saved" ELSE "deleted"

\* A stream that cannot keep its turn answers all the same, with the ids of the
\* messages it could not store, if it had come as far as to have them.
Failure(t) == IF t \in Streams /\ pc[t] \in {"insert_user", "increment_user",
                 "insert_assistant", "increment_assistant", "commit"}
              THEN "unsaved" ELSE "failed"

\* The answer of a call comes after its commit.
Commit(t) ==
    /\ pc[t] = "commit"
    /\ Apply(t) /\ Forget(t)
    /\ Goto(t, Success(t))
    /\ UNCHANGED <<began, clock, locals, counted, listed>>

\* The commit is carried out and its reply is lost.
CommitLost(t) ==
    /\ pc[t] = "commit"
    /\ Apply(t) /\ Forget(t)
    /\ Goto(t, Failure(t))
    /\ UNCHANGED <<began, clock, locals, counted, listed>>

RollBack(t, outcome) ==
    /\ Forget(t)
    /\ got' = [got EXCEPT ![t] = {}]
    /\ listed' = [listed EXCEPT ![t] = {}]
    /\ Goto(t, outcome)
    /\ UNCHANGED <<rows, began, clock, seen, asked, total, counted, removed>>

\* The foreign key refuses a message of a session that was deleted.
Refuse(t) ==
    /\ pc[t] = "insert_user"
    /\ session[SessionOf[t]] = "gone"
    /\ RollBack(t, Failure(t))

\* A statement fails, no connection comes free in time, or the stages in between
\* fail.
Fails(t) ==
    /\ pc[t] \in Open \cup {"start"}
    /\ RollBack(t, Failure(t))

\* The client of a stream leaves; a restart does the same to all calls.
Abandon(t) ==
    /\ pc[t] \in Open \cup {"start"}
    /\ RollBack(t, "failed")

-----------------------------------------------------------------------------
Proceed(t) ==
    \/ Find(t) \/ FindForDelete(t) \/ Miss(t)
    \/ CountMessages(t) \/ SelectPage(t) \/ Think(t)
    \/ InsertUser(t) \/ InsertAssistant(t) \/ InsertFirst(t) \/ Increment(t)
    \/ InsertSession(t) \/ Delete(t) \/ Commit(t) \/ Refuse(t)

Step(t) == Proceed(t) \/ CommitLost(t) \/ Fails(t) \/ Abandon(t)

Next == \E t \in Calls : Step(t)

Spec == Init /\ [][Next]_vars

\* Every call is made; a statement that is not blocked is answered, and so are
\* the questions to the model and the target database.  Nothing has to fail.
FairSpec == Spec /\ \A t \in Calls : WF_vars(Proceed(t))

-----------------------------------------------------------------------------
(* Properties.                                                             *)

TypeOK ==
    /\ session \in [Creates -> {"none", "open", "gone"}]
    /\ messages \in [Creates -> SUBSET Messages]
    /\ count \in [Creates -> Nat]
    /\ pc \in [Calls -> {"start"} \cup Open \cup Ended]
    /\ began \in [Calls -> Nat]
    /\ flushed \in [Calls -> SUBSET Messages]
    /\ adds \in [Calls -> 0..2]
    /\ deleting \in SUBSET Deletes
    /\ clock \in Nat
    /\ seen \in [Deletes -> Nat]
    /\ asked \in [Reads -> Nat]
    /\ total \in [Reads -> Nat]
    /\ got \in [Calls -> SUBSET Messages]
    /\ counted \in [Calls -> SUBSET Messages]
    /\ listed \in [Calls -> SUBSET Messages]
    /\ removed \in [Deletes -> (SUBSET Messages) \cup {NULL}]

\* Whatever overlaps or fails, message_count is the number of messages.
CountIsRight == \A s \in Creates : count[s] = Cardinality(messages[s])

\* A deletion counts what was there when it looked, all of which it removes; the
\* turns that are committed while it waits for the row are removed uncounted.
\* One that found the session deleted in between reports the same number.
ReportsAreRemoved ==
    \A d \in Deletes : pc[d] = "deleted" =>
        /\ seen[d] = Cardinality(counted[d])
        /\ \E o \in Deletes : /\ SessionOf[o] = SessionOf[d]
                              /\ removed[o] # NULL
                              /\ counted[d] \subseteq removed[o]

\* The messages of M whose tie is divided by the border between two pages.
Divided(M) ==
    {m \in M : \E x, y \in Places(M, m) : (x - 1) \div PageSize # (y - 1) \div PageSize}

\* N is M and what was written after it.
Continues(N, M) == M \subseteq N /\ \A m \in N \ M, n \in M : began[n[1]] < began[m[1]]

\* A client that asks for page after page until has_next is false has every
\* message that was there at its first COUNT, although turns are committed between
\* its requests and between the COUNT and the SELECT of one, unless a border
\* between pages divides the messages of one turn, the session was deleted, or a
\* turn was committed that began before one that was there already.
PagingIsComplete ==
    \A r \in Reads : pc[r] = "listed" /\ Continues(listed[r], counted[r]) =>
        counted[r] \ Divided(counted[r]) \subseteq got[r]

\* What a turn is given for its prompt is the beginning of its session, however
\* long it is and whatever is committed around the SELECT: no message it leaves
\* out is older than one it has (stream_service.py:351-357).
OldestOf(M, G) == G \subseteq M /\ \A m \in M \ G, n \in G : began[n[1]] <= began[m[1]]

HistoryIsOldest == \A t \in Turns : pc[t] = "think" => OldestOf(listed[t], got[t])

\* A call has a lock on the row of its session from its first write to its end.
Holds(t) == t \in deleting \/ flushed[t] # {} \/ adds[t] # 0

\* Its next statement needs a lock that it cannot have yet.
Waits(t) ==
    \/ pc[t] \in {"insert_user", "insert_assistant", "insert_first"} /\ ~MayInsert(t)
    \/ pc[t] \in {"increment_user", "increment_assistant", "increment_first"} /\ ~MayUpdate(t)
    \/ pc[t] = "delete" /\ ~MayDelete(t)

\* Turns take two locks on a session, one after the other, and still there is no
\* deadlock: while a call waits for a row, another one has a lock on it and does not
\* wait; and while there is no connection left, one that has one does not wait.
NobodyIsStuck ==
    /\ \A t \in Calls : Waits(t) => \E o \in Others(t) : Holds(o) /\ ~Waits(o)
    /\ ~FreeConnection => \E t \in Calls : pc[t] \in Open /\ ~Waits(t)

\* All calls end, although turns and deletions of one session wait for each
\* other's row locks, and all of them for connections.
CallsEnd == <>(\A t \in Calls : pc[t] \in Ended)

L == INSTANCE TurnLog WITH
        Sessions <- Creates, status <- session, log <- messages, size <- count,
        told <- {t \in Turns : pc[t] = "saved"}

\* Sessions open, grow by whole turns and disappear whole; a turn that a caller
\* is told was saved was.
KeepsTurns == L!Spec
=============================================================================
