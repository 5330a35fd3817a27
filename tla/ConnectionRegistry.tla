------------------------- MODULE ConnectionRegistry -------------------------
(***************************************************************************)
(* DatabaseConnectionService (app/services/database_service.py): connect,  *)
(* validate and disconnect, on the ConnectionManager of each worker        *)
(* process, on the pools of connections to the target databases, and on    *)
(* the records in the table database_connections.                          *)
(*                                                                         *)
(* A call of connect stands for the connection id that it makes.  One      *)
(* action is the code from one await that can suspend to the next; the     *)
(* lock of the ConnectionManager is held across none of those and left     *)
(* out.  The get_db_session dependency commits before the response is      *)
(* sent, so that a client knows an id only when its connect is over.       *)
(***************************************************************************)
EXTENDS Naturals, FiniteSets

CONSTANTS Processes,                          \* the uvicorn workers
          Connects, Validates, Disconnects,   \* calls of the three endpoints
          IdOf,                               \* the connection each call is about
          NULL

Calls == Connects \cup Validates \cup Disconnects

Statuses == {"connected", "error", "disconnected"}

ASSUME RegistryAssumption ==
    /\ IdOf \in [Calls -> Connects]
    /\ \A c \in Connects : IdOf[c] = c
    /\ NULL \notin Processes \cup Statuses
    /\ Connects \cap Validates = {} /\ Connects \cap Disconnects = {}
    /\ Validates \cap Disconnects = {}

VARIABLES
    registered,  \* registered[p]: the connections in the ConnectionManager of p
    open,        \* the connections whose engine has connections to its target
    status,      \* status[c]: the committed status of the record of c, or NULL
    \* local to one call
    pc,
    proc,        \* proc[t]: the process that serves t, or NULL
    verdict,     \* verdict[t]: the status that t means to write, or NULL
    loaded,      \* loaded[t]: the status in the record that t selected, or NULL
    locked,      \* the calls whose transaction has written its record
    \* history, read by the properties only
    before,      \* before[t]: the calls that were over when t began
    erased       \* the connections a registry lost in a restart

locals  == <<proc, verdict, loaded>>
history == <<before, erased>>
vars    == <<registered, open, status, pc, proc, verdict, loaded, locked, before, erased>>

\* "lost" is a call whose process was restarted.
Over == {"done", "not_found", "failed", "lost"}

Running(t) == pc[t] \notin Over \cup {"client"}

Init ==
    /\ registered = [p \in Processes |-> {}]
    /\ open = {}
    /\ status = [c \in Connects |-> NULL]
    /\ pc = [t \in Calls |-> "client"]
    /\ proc = [t \in Calls |-> NULL]
    /\ verdict = [t \in Calls |-> NULL]
    /\ loaded = [t \in Calls |-> NULL]
    /\ locked = {}
    /\ before = [t \in Calls |-> {}]
    /\ erased = {}

Goto(t, l) == pc' = [pc EXCEPT ![t] = l]

\* A worker accepts the request.
Begin(t, p) ==
    /\ pc[t] = "client"
    /\ proc' = [proc EXCEPT ![t] = p]
    /\ before' = [before EXCEPT ![t] = {o \in Calls : pc[o] \in Over}]
    /\ UNCHANGED erased

-----------------------------------------------------------------------------
(* connect                                                                 *)

\* The engine, or the MongoDB client, is made without connecting yet.
BuildDriver(t, p) ==
    /\ t \in Connects /\ Begin(t, p)
    /\ Goto(t, "first_ping")
    /\ UNCHANGED <<registered, open, status, verdict, loaded, locked>>

DriverFails(t, p) ==
    /\ t \in Connects /\ Begin(t, p)
    /\ Goto(t, "failed")
    /\ UNCHANGED <<registered, open, status, verdict, loaded, locked>>

\* The entry is registered, and only then the record is made.
Register(t) ==
    /\ pc[t] = "first_ping"
    /\ open' = open \cup {t}
    /\ registered' = [registered EXCEPT ![proc[t]] = @ \cup {t}]
    /\ verdict' = [verdict EXCEPT ![t] = "connected"]
    /\ Goto(t, "insert")
    /\ UNCHANGED <<status, proc, loaded, locked, history>>

\* The driver is disposed again.
FirstPingFails(t) ==
    /\ pc[t] = "first_ping"
    /\ Goto(t, "failed")
    /\ UNCHANGED <<registered, open, status, locals, locked, history>>

Insert(t) ==
    /\ pc[t] = "insert"
    /\ locked' = locked \cup {t}
    /\ Goto(t, "commit")
    /\ UNCHANGED <<registered, open, status, locals, history>>

-----------------------------------------------------------------------------
(* validate and disconnect                                                 *)

\* A client asks about an id that it was given.
Ask(t, p) == Begin(t, p) /\ pc[IdOf[t]] = "done"

NotFound(t, p) ==
    /\ t \in Validates \cup Disconnects /\ Ask(t, p)
    /\ IdOf[t] \notin registered[p]
    /\ Goto(t, "not_found")
    /\ UNCHANGED <<registered, open, status, verdict, loaded, locked>>

GetEntry(t, p) ==
    /\ t \in Validates /\ Ask(t, p)
    /\ IdOf[t] \in registered[p]
    /\ Goto(t, "ping")
    /\ UNCHANGED <<registered, open, status, verdict, loaded, locked>>

\* An engine that has been disposed opens a new pool when it is used.
Ping(t) ==
    /\ pc[t] = "ping"
    /\ open' = open \cup {IdOf[t]}
    /\ verdict' = [verdict EXCEPT ![t] = "connected"]
    /\ Goto(t, "load")
    /\ UNCHANGED <<registered, status, proc, loaded, locked, history>>

\* Mutant: a timeout is recorded under a status of its own.
PingFailsWithTimeout(t) ==
    /\ pc[t] = "ping"
    /\ verdict' = [verdict EXCEPT ![t] = "timeout"]
    /\ Goto(t, "load")
    /\ UNCHANGED <<registered, open, status, proc, loaded, locked, history>>

\* Mutant: a connection that does not answer is dropped from the registry.
PingFailsAndForgets(t) ==
    /\ pc[t] = "ping"
    /\ open' \in {open, open \cup {IdOf[t]}}
    /\ registered' = [registered EXCEPT ![proc[t]] = @ \ {IdOf[t]}]
    /\ verdict' = [verdict EXCEPT ![t] = "error"]
    /\ Goto(t, "load")
    /\ UNCHANGED <<status, proc, loaded, locked, history>>

\* The connection may have been made before the ping failed on it.
PingFails(t) ==
    /\ pc[t] = "ping"
    /\ open' \in {open, open \cup {IdOf[t]}}
    /\ verdict' = [verdict EXCEPT ![t] = "error"]
    /\ Goto(t, "load")
    /\ UNCHANGED <<registered, status, proc, loaded, locked, history>>

\* Mutant: the entry is looked up, not removed.
RemoveEntryLater(t, p) ==
    /\ t \in Disconnects /\ Ask(t, p)
    /\ IdOf[t] \in registered[p]
    /\ Goto(t, "dispose")
    /\ UNCHANGED <<registered, open, status, verdict, loaded, locked>>

RemoveEntry(t, p) ==
    /\ t \in Disconnects /\ Ask(t, p)
    /\ IdOf[t] \in registered[p]
    /\ registered' = [registered EXCEPT ![p] = @ \ {IdOf[t]}]
    /\ Goto(t, "dispose")
    /\ UNCHANGED <<open, status, verdict, loaded, locked>>

\* Mutant: the engine is not disposed.
DisposeNothing(t) ==
    /\ pc[t] = "dispose"
    /\ verdict' = [verdict EXCEPT ![t] = "disconnected"]
    /\ Goto(t, "load")
    /\ UNCHANGED <<registered, open, status, proc, loaded, locked, history>>

Dispose(t) ==
    /\ pc[t] = "dispose"
    /\ open' = open \ {IdOf[t]}
    /\ verdict' = [verdict EXCEPT ![t] = "disconnected"]
    /\ Goto(t, "load")
    /\ UNCHANGED <<registered, status, proc, loaded, locked, history>>

-----------------------------------------------------------------------------
(* The record: SELECT, UPDATE of what changed, COMMIT by get_db_session.   *)

\* Mutant: only a record that says connected is marked.
LoadConnected(t) ==
    /\ pc[t] = "load"
    /\ loaded' = [loaded EXCEPT ![t] = status[IdOf[t]]]
    /\ Goto(t, IF status[IdOf[t]] = "connected" THEN "update" ELSE "done")
    /\ UNCHANGED <<registered, open, status, proc, verdict, locked, history>>

Load(t) ==
    /\ pc[t] = "load"
    /\ loaded' = [loaded EXCEPT ![t] = status[IdOf[t]]]
    /\ Goto(t, IF status[IdOf[t]] = NULL THEN "done" ELSE "update")
    /\ UNCHANGED <<registered, open, status, proc, verdict, locked, history>>

\* The UPDATE waits for the row lock of another transaction.
Update(t) ==
    /\ pc[t] = "update"
    /\ \A o \in locked : IdOf[o] # IdOf[t]
    /\ locked' = locked \cup {t}
    /\ Goto(t, "commit")
    /\ UNCHANGED <<registered, open, status, locals, history>>

\* The unit of work only writes a status that differs from the one it loaded.
\* The reply to a COMMIT that was carried out may be lost.
Commit(t) ==
    /\ pc[t] = "commit"
    /\ status' = [status EXCEPT ![IdOf[t]] = IF verdict[t] = loaded[t] THEN @ ELSE verdict[t]]
    /\ locked' = locked \ {t}
    /\ pc' \in {[pc EXCEPT ![t] = l] : l \in {"done", "failed"}}
    /\ UNCHANGED <<registered, open, locals, history>>

\* Mutant: the transaction of a failed call stays open.
StatementFailsAndHangs(t) ==
    /\ pc[t] \in {"insert", "load", "update", "commit"}
    /\ Goto(t, "failed")
    /\ UNCHANGED <<registered, open, status, locals, locked, history>>

\* get_db_session rolls back; neither the registry nor the pool is undone.
StatementFails(t) ==
    /\ pc[t] \in {"insert", "load", "update", "commit"}
    /\ locked' = locked \ {t}
    /\ Goto(t, "failed")
    /\ UNCHANGED <<registered, open, status, locals, history>>

-----------------------------------------------------------------------------
\* A worker process restarts: its registry, its pools and its calls are gone.
Restart(p) ==
    LET mine == {t \in Calls : proc[t] = p} IN
    /\ registered' = [registered EXCEPT ![p] = {}]
    /\ open' = open \ mine
    /\ pc' = [t \in Calls |-> IF t \in mine /\ Running(t) THEN "lost" ELSE pc[t]]
    /\ locked' = locked \ mine
    /\ erased' = erased \cup registered[p]
    /\ UNCHANGED <<status, locals, before>>

Proceed(t) ==
    \/ Register(t) \/ FirstPingFails(t) \/ Insert(t)
    \/ Ping(t) \/ PingFails(t) \/ Dispose(t)
    \/ Load(t) \/ Update(t) \/ Commit(t)

Accept(t, p) ==
    \/ BuildDriver(t, p) \/ DriverFails(t, p)
    \/ NotFound(t, p) \/ GetEntry(t, p) \/ RemoveEntry(t, p)

Next == \/ \E t \in Calls : Proceed(t) \/ StatementFails(t) \/ \E p \in Processes : Accept(t, p)
        \/ \E p \in Processes : Restart(p)

\* A call that a worker has accepted goes on: pings are bounded by a timeout and
\* the application database answers.  Clients need not call, workers need not
\* restart, and no statement has to fail: nothing bounds the wait for a lock.
Spec == Init /\ [][Next]_vars /\ \A t \in Calls : WF_vars(Proceed(t))

-----------------------------------------------------------------------------
(* Properties.                                                             *)

Labels == {"client", "first_ping", "insert", "ping", "dispose", "load", "update", "commit"}
          \cup Over

TypeOK ==
    /\ registered \in [Processes -> SUBSET Connects]
    /\ open \in SUBSET Connects
    /\ status \in [Connects -> Statuses \cup {NULL}]
    /\ pc \in [Calls -> Labels]
    /\ proc \in [Calls -> Processes \cup {NULL}]
    /\ verdict \in [Calls -> Statuses \cup {NULL}]
    /\ loaded \in [Calls -> Statuses \cup {NULL}]
    /\ locked \in SUBSET Calls
    /\ before \in [Calls -> SUBSET Calls]
    /\ erased \in SUBSET Connects

Registered(c) == \E p \in Processes : c \in registered[p]

\* Neither call was over when the other began.
Overlap(t, o) == pc[t] # "client" /\ pc[o] # "client" /\ t \notin before[o] /\ o \notin before[t]

\* The disconnects that took the entry of c out of the registry.
Removals(c) == {d \in Disconnects : IdOf[d] = c /\ pc[d] \notin {"client", "not_found"}}

\* A connection whose record says disconnected is in no registry.
DisconnectedIsUnregistered ==
    \A c \in Connects : status[c] = "disconnected" => ~Registered(c)

\* One disconnect at most takes the entry of a connection and disposes its engine,
\* however many arrive together, and only one in the process that made it.
TakenOnce ==
    \A c \in Connects : \A d, e \in Removals(c) : d = e /\ proc[d] = proc[c]

\* An engine holds connections to its target only while its entry is
\* registered, or a disconnect is about to dispose it, or when a validate
\* overlapped the disconnect and opened the pool again.
OpenPoolsAreOwned ==
    \A c \in open :
        \/ Registered(c)
        \/ \E d \in Removals(c) :
              \/ pc[d] = "dispose"
              \/ \E v \in Validates : IdOf[v] = c /\ Overlap(v, d)

\* A record says that there is a connection only while there is one, unless its
\* process restarted, the disconnect has not gone through, or a validate that
\* overlapped the disconnect wrote the status it had found before.
RecordsFollowRegistry ==
    \A c \in Connects : status[c] \in {"connected", "error"} =>
        \/ Registered(c)
        \/ c \in erased
        \/ \E d \in Removals(c) :
              \/ pc[d] # "done"
              \/ \E v \in Validates : IdOf[v] = c /\ Overlap(v, d)

\* A client that has connected gets "not found" only from another process than
\* the one that made the connection, after a restart of that one, or when a
\* disconnect has begun.
NotFoundIsJustified ==
    \A t \in Calls : pc[t] = "not_found" =>
        \/ proc[t] # proc[IdOf[t]]
        \/ IdOf[t] \in erased
        \/ \E d \in Removals(IdOf[t]) : t \notin before[d]

\* Every call that was accepted ends: no row lock is kept for ever.
CallsEnd == \A t \in Calls : (pc[t] # "client") ~> (pc[t] \in Over)
=============================================================================
