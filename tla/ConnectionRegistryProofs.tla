----------------------- MODULE ConnectionRegistryProofs -----------------------
(***************************************************************************)
(* Theorems about ConnectionRegistry, for any number of processes,         *)
(* connections and calls.                                                  *)
(***************************************************************************)
EXTENDS ConnectionRegistry, TLAPS

-----------------------------------------------------------------------------
(* The inductive invariant.                                                *)

\* What a call is and what it means to write, by where it is.
Roles ==
    /\ \A t \in Connects :
          /\ pc[t] \notin {"ping", "dispose", "load", "update", "not_found"}
          /\ verdict[t] \in {NULL, "connected"}
          /\ loaded[t] = NULL
    /\ \A t \in Validates :
          /\ pc[t] \notin {"first_ping", "insert", "dispose"}
          /\ verdict[t] \in {NULL, "connected", "error"}
    /\ \A t \in Disconnects :
          /\ pc[t] \notin {"first_ping", "insert", "ping"}
          /\ verdict[t] \in {NULL, "disconnected"}
    /\ \A t \in Calls : pc[t] \in {"insert", "load", "update", "commit"} => verdict[t] # NULL

\* A call has a process once it has begun, it begins after the calls that were
\* over then, and after the connect that made the id it is about.
Started ==
    \A t \in Calls :
        /\ pc[t] = "client" <=> proc[t] = NULL
        /\ \A o \in before[t] : pc[o] \in Over
        /\ t \notin Connects /\ pc[t] # "client" => pc[IdOf[t]] = "done"

\* An entry is kept by the process of its connect until the one disconnect that
\* removes it; without one it is lost in a restart only.
Entries ==
    \A c \in Connects :
        /\ \A p \in Processes : c \in registered[p] => proc[c] = p /\ Removals(c) = {}
        /\ pc[c] \in {"insert", "commit", "done"} =>
              c \in registered[proc[c]] \/ c \in erased \/ Removals(c) # {}
        /\ \A d, e \in Removals(c) : d = e
        /\ \A d \in Removals(c) : proc[d] = proc[c]

\* Only a disconnect that is over has written "disconnected", so that a disconnect
\* never finds it.
Records ==
    /\ \A c \in Connects :
          /\ status[c] = "disconnected" => \E d \in Removals(c) : pc[d] \in Over
          /\ pc[c] = "done" => status[c] # NULL
    /\ \A d \in Disconnects : pc[d] \in {"update", "commit"} => loaded[d] # "disconnected"

\* A validate that got its entry did so before the entry was removed.
Validations ==
    \A v \in Validates :
        /\ pc[v] \notin {"client", "not_found"} => Removals(IdOf[v]) \cap before[v] = {}
        /\ pc[v] = "ping" => \/ IdOf[v] \in registered[proc[v]]
                             \/ Removals(IdOf[v]) # {}

CallsInv == TypeOK /\ Roles /\ Started

EntriesInv == CallsInv /\ Entries /\ Records /\ Validations

RegistryInv ==
    EntriesInv /\ OpenPoolsAreOwned /\ RecordsFollowRegistry /\ NotFoundIsJustified

\* The steps of one call.
Step(t) == Proceed(t) \/ StatementFails(t) \/ \E p \in Processes : Accept(t, p)

LEMMA RegistryInit == Init => RegistryInv
<1> SUFFICES ASSUME Init  PROVE RegistryInv
  OBVIOUS
<1>1. TypeOK
  BY DEF Init, TypeOK, Labels, Over, Statuses
<1>2. \A c \in Connects : Removals(c) = {}
  BY DEF Init, Removals, Calls
<1>3. CallsInv
  BY <1>1, RegistryAssumption DEF Init, CallsInv, Roles, Started, Calls
<1>4. EntriesInv
  BY <1>2, <1>3, RegistryAssumption DEF Init, EntriesInv, Entries, Records, Validations, Calls,
                 Statuses
<1>. QED
  BY <1>4, RegistryAssumption
     DEF Init, RegistryInv, OpenPoolsAreOwned, RecordsFollowRegistry, NotFoundIsJustified, Calls,
         Statuses

-----------------------------------------------------------------------------
(* What a step of one call does.                                           *)

\* It keeps the types.
LEMMA TypeStep ==
    ASSUME NEW t \in Calls, CallsInv, Step(t)
    PROVE  TypeOK'
<1> DEFINE Goal == TypeOK'
<1> USE RegistryAssumption
    DEF CallsInv, Roles, TypeOK, Labels, Over, Statuses, Goto, locals, history, Calls
<1>1. ASSUME NEW p \in Processes, BuildDriver(t, p)  PROVE  Goal
  BY <1>1 DEF BuildDriver, Begin
<1>2. ASSUME NEW p \in Processes, DriverFails(t, p)  PROVE  Goal
  BY <1>2 DEF DriverFails, Begin
<1>3. ASSUME NEW p \in Processes, NotFound(t, p)  PROVE  Goal
  BY <1>3 DEF NotFound, Begin, Ask
<1>4. ASSUME NEW p \in Processes, GetEntry(t, p)  PROVE  Goal
  BY <1>4 DEF GetEntry, Begin, Ask
<1>5. ASSUME NEW p \in Processes, RemoveEntry(t, p)  PROVE  Goal
  BY <1>5 DEF RemoveEntry, Begin, Ask
<1>6. CASE Register(t)
  <2>1. t \in Connects /\ pc' \in [Calls -> Labels] /\ verdict' \in [Calls -> Statuses \cup {NULL}]
    BY <1>6 DEF Register
  <2>2. proc[t] \in Processes
    BY <1>6 DEF Register, Started
  <2>3. registered' \in [Processes -> SUBSET Connects]
    BY <1>6, <2>1, <2>2 DEF Register
  <2>. QED  BY <1>6, <2>1, <2>3 DEF Register
<1>7. CASE FirstPingFails(t)  BY <1>7 DEF FirstPingFails
<1>8. CASE Insert(t)  BY <1>8 DEF Insert
<1>9. CASE Ping(t)  BY <1>9 DEF Ping
<1>10. CASE PingFails(t)  BY <1>10 DEF PingFails
<1>11. CASE Dispose(t)  BY <1>11 DEF Dispose
<1>12. CASE Load(t)  BY <1>12 DEF Load
<1>13. CASE Update(t)  BY <1>13 DEF Update
<1>14. CASE Commit(t)  BY <1>14 DEF Commit
<1>15. CASE StatementFails(t)  BY <1>15 DEF StatementFails
<1>. QED
  BY <1>1, <1>2, <1>3, <1>4, <1>5, <1>6, <1>7, <1>8, <1>9, <1>10, <1>11, <1>12, <1>13, <1>14, <1>15 DEF Step, Proceed, Accept

\* It leaves the local state of the others alone.  A call begins once, moves on
\* until it is over, and loses no connection.
LEMMA OwnState ==
    ASSUME NEW t \in Calls, CallsInv, Step(t)
    PROVE  /\ \A o \in Calls \ {t} :
                 /\ pc'[o] = pc[o] /\ proc'[o] = proc[o] /\ before'[o] = before[o]
                 /\ verdict'[o] = verdict[o] /\ loaded'[o] = loaded[o]
           /\ pc[t] \notin Over /\ pc'[t] # "client"
           /\ pc[t] # "client" =>
                 proc'[t] = proc[t] /\ before'[t] = before[t] /\ pc'[t] # "not_found"
           /\ pc[t] = "client" =>
                 /\ proc'[t] \in Processes
                 /\ before'[t] = {o \in Calls : pc[o] \in Over}
                 /\ t \notin Connects => pc[IdOf[t]] = "done"
           /\ erased' = erased
<1> DEFINE Goal == /\ \A o \in Calls \ {t} :
                         /\ pc'[o] = pc[o] /\ proc'[o] = proc[o] /\ before'[o] = before[o]
                         /\ verdict'[o] = verdict[o] /\ loaded'[o] = loaded[o]
                   /\ pc[t] \notin Over /\ pc'[t] # "client"
                   /\ pc[t] # "client" =>
                         proc'[t] = proc[t] /\ before'[t] = before[t] /\ pc'[t] # "not_found"
                   /\ pc[t] = "client" =>
                         /\ proc'[t] \in Processes
                         /\ before'[t] = {o \in Calls : pc[o] \in Over}
                         /\ t \notin Connects => pc[IdOf[t]] = "done"
                   /\ erased' = erased
<1> USE RegistryAssumption DEF CallsInv, Roles, TypeOK, Over, Goto, locals, history, Calls
<1>1. ASSUME NEW p \in Processes, BuildDriver(t, p)  PROVE  Goal
  BY <1>1 DEF BuildDriver, Begin
<1>2. ASSUME NEW p \in Processes, DriverFails(t, p)  PROVE  Goal
  BY <1>2 DEF DriverFails, Begin
<1>3. ASSUME NEW p \in Processes, NotFound(t, p)  PROVE  Goal
  BY <1>3 DEF NotFound, Begin, Ask
<1>4. ASSUME NEW p \in Processes, GetEntry(t, p)  PROVE  Goal
  BY <1>4 DEF GetEntry, Begin, Ask
<1>5. ASSUME NEW p \in Processes, RemoveEntry(t, p)  PROVE  Goal
  BY <1>5 DEF RemoveEntry, Begin, Ask
<1>6. CASE Register(t)  BY <1>6 DEF Register
<1>7. CASE FirstPingFails(t)  BY <1>7 DEF FirstPingFails
<1>8. CASE Insert(t)  BY <1>8 DEF Insert
<1>9. CASE Ping(t)  BY <1>9 DEF Ping
<1>10. CASE PingFails(t)  BY <1>10 DEF PingFails
<1>11. CASE Dispose(t)  BY <1>11 DEF Dispose
<1>12. CASE Load(t)  BY <1>12 DEF Load
<1>13. CASE Update(t)  BY <1>13 DEF Update
<1>14. CASE Commit(t)  BY <1>14 DEF Commit
<1>15. CASE StatementFails(t)  BY <1>15 DEF StatementFails
<1>. QED
  BY <1>1, <1>2, <1>3, <1>4, <1>5, <1>6, <1>7, <1>8, <1>9, <1>10, <1>11, <1>12, <1>13, <1>14, <1>15 DEF Step, Proceed, Accept

\* Each variable changes, and each label is reached, in few actions.
Effects(t) ==
    /\ registered' = registered \/ Register(t) \/ \E p \in Processes : RemoveEntry(t, p)
    /\ open' = open \/ Register(t) \/ Ping(t) \/ PingFails(t) \/ Dispose(t)
    /\ status' = status \/ Commit(t)
    /\ verdict' = verdict \/ Register(t) \/ Ping(t) \/ PingFails(t) \/ Dispose(t)
    /\ loaded' = loaded \/ Load(t)
    /\ pc'[t] = "first_ping" => t \in Connects
    /\ pc'[t] = "insert" => Register(t)
    /\ pc'[t] = "ping" => \E p \in Processes : GetEntry(t, p)
    /\ pc'[t] = "dispose" => \E p \in Processes : RemoveEntry(t, p)
    /\ pc'[t] = "load" => Ping(t) \/ PingFails(t) \/ Dispose(t)
    /\ pc'[t] = "update" => Load(t)
    /\ pc'[t] = "commit" => pc[t] \in {"insert", "update"} /\ (Insert(t) \/ Update(t))
    /\ pc'[t] = "done" => Load(t) \/ Commit(t)
    /\ pc'[t] = "not_found" => \E p \in Processes : NotFound(t, p)
    /\ pc[t] = "client" /\ t \notin Connects =>
          \E p \in Processes : NotFound(t, p) \/ GetEntry(t, p) \/ RemoveEntry(t, p)

LEMMA StepEffects ==
    ASSUME NEW t \in Calls, CallsInv, Step(t)
    PROVE  Effects(t)
<1> DEFINE Goal == Effects(t)
<1> USE RegistryAssumption DEF CallsInv, Roles, TypeOK, Over, Goto, locals, history, Calls, Effects
<1>1. ASSUME NEW p \in Processes, BuildDriver(t, p)  PROVE  Goal
  BY <1>1 DEF BuildDriver, Begin
<1>2. ASSUME NEW p \in Processes, DriverFails(t, p)  PROVE  Goal
  BY <1>2 DEF DriverFails, Begin
<1>3. ASSUME NEW p \in Processes, NotFound(t, p)  PROVE  Goal
  BY <1>3 DEF NotFound, Begin, Ask
<1>4. ASSUME NEW p \in Processes, GetEntry(t, p)  PROVE  Goal
  BY <1>4 DEF GetEntry, Begin, Ask
<1>5. ASSUME NEW p \in Processes, RemoveEntry(t, p)  PROVE  Goal
  BY <1>5 DEF RemoveEntry, Begin, Ask
<1>6. CASE Register(t)  BY <1>6 DEF Register
<1>7. CASE FirstPingFails(t)  BY <1>7 DEF FirstPingFails
<1>8. CASE Insert(t)  BY <1>8 DEF Insert
<1>9. CASE Ping(t)  BY <1>9 DEF Ping
<1>10. CASE PingFails(t)  BY <1>10 DEF PingFails
<1>11. CASE Dispose(t)  BY <1>11 DEF Dispose
<1>12. CASE Load(t)  BY <1>12 DEF Load
<1>13. CASE Update(t)  BY <1>13 DEF Update
<1>14. CASE Commit(t)  BY <1>14 DEF Commit
<1>15. CASE StatementFails(t)  BY <1>15 DEF StatementFails
<1>. QED
  BY <1>1, <1>2, <1>3, <1>4, <1>5, <1>6, <1>7, <1>8, <1>9, <1>10, <1>11, <1>12, <1>13, <1>14, <1>15 DEF Step, Proceed, Accept

\* One disconnect at most joins those that removed an entry, and none leaves them.
LEMMA RemovalsStep ==
    ASSUME NEW t \in Calls, CallsInv, Step(t), NEW c \in Connects
    PROVE  \/ Removals(c)' = Removals(c)
           \/ /\ \E p \in Processes : RemoveEntry(t, p)
              /\ c = IdOf[t] /\ Removals(c)' = Removals(c) \cup {t}
<1> USE RegistryAssumption DEF Removals, Calls
<1>1. CASE \E p \in Processes : RemoveEntry(t, p)
  <2>1. t \in Disconnects /\ pc[t] = "client" /\ pc'[t] = "dispose"
    BY <1>1 DEF RemoveEntry, Ask, Begin, Goto, CallsInv, TypeOK
  <2>2. \A o \in Disconnects \ {t} : pc'[o] = pc[o]
    BY OwnState
  <2>3. CASE c = IdOf[t]  BY <1>1, <2>1, <2>2, <2>3
  <2>4. CASE c # IdOf[t]  BY <2>1, <2>2, <2>4
  <2>. QED  BY <2>3, <2>4
<1>2. CASE ~\E p \in Processes : RemoveEntry(t, p)
  <2>1. \A o \in Disconnects \ {t} : pc'[o] = pc[o]
    BY OwnState
  <2>2. t \in Disconnects => (pc'[t] \in {"client", "not_found"} <=> pc[t] \in {"client", "not_found"}
                              \/ \E p \in Processes : NotFound(t, p))
    <3>1. \A p \in Processes : NotFound(t, p) => pc'[t] = "not_found" /\ pc[t] = "client"
      BY DEF NotFound, Ask, Begin, Goto, CallsInv, TypeOK
    <3>2. \A p \in Processes : GetEntry(t, p) => t \in Validates
      BY DEF GetEntry
    <3>. QED  BY <1>2, <3>1, <3>2, OwnState, StepEffects DEF Effects, Over
  <2>3. t \in Disconnects => \A p \in Processes : NotFound(t, p) => pc[t] = "client"
    BY DEF NotFound, Ask, Begin
  <2>. QED  BY <2>1, <2>2, <2>3
<1>. QED  BY <1>1, <1>2

-----------------------------------------------------------------------------
(* A restart.                                                              *)

LEMMA RestartFacts ==
    ASSUME NEW p \in Processes, CallsInv, Restart(p)
    PROVE  /\ UNCHANGED <<status, proc, verdict, loaded, before>>
           /\ \A t \in Calls : \/ pc'[t] = pc[t]
                               \/ proc[t] = p /\ pc'[t] = "lost" /\ Running(t)
           /\ \A t \in Calls : proc[t] = p => ~Running(t)'
           /\ \A q \in Processes \ {p} : registered'[q] = registered[q]
           /\ registered'[p] = {} /\ erased' = erased \cup registered[p]
           /\ open' = {c \in open : proc[c] # p}
           /\ \A c \in Connects : Removals(c)' = Removals(c)
<1> USE RegistryAssumption
    DEF CallsInv, TypeOK, Restart, Running, Over, locals, Labels, Calls
<1>1. \A t \in Calls : \/ pc'[t] = pc[t]
                       \/ proc[t] = p /\ pc'[t] = "lost" /\ Running(t)
  OBVIOUS
<1>2. \A c \in Connects : Removals(c)' = Removals(c)
  BY <1>1 DEF Removals
<1>3. \A t \in Calls : proc[t] = p => ~Running(t)'
  OBVIOUS
<1>4. open' = {c \in open : proc[c] # p}
  OBVIOUS
<1>. QED  BY <1>1, <1>2, <1>3, <1>4

LEMMA CallsRestart ==
    ASSUME NEW p \in Processes, CallsInv, Restart(p)
    PROVE  CallsInv'
<1>1. TypeOK'
  <2>1. pc' \in [Calls -> Labels]
    BY DEF CallsInv, TypeOK, Restart, Labels, Over
  <2>2. registered' \in [Processes -> SUBSET Connects]
    BY DEF CallsInv, TypeOK, Restart
  <2>3. open' \in SUBSET Connects /\ locked' \in SUBSET Calls /\ erased' \in SUBSET Connects
    BY DEF CallsInv, TypeOK, Restart
  <2>. QED  BY <2>1, <2>2, <2>3 DEF CallsInv, TypeOK, Restart, locals
<1>2. Roles'
  BY RestartFacts DEF CallsInv, Roles, Calls
<1>3. Started'
  BY RestartFacts, RegistryAssumption DEF CallsInv, Started, Running, Over, Calls, TypeOK
<1>. QED  BY <1>1, <1>2, <1>3 DEF CallsInv

-----------------------------------------------------------------------------
(* The parts of the invariant, one by one.                                 *)

LEMMA CallsStep ==
    ASSUME NEW t \in Calls, CallsInv, Step(t)
    PROVE  CallsInv'
<1>1. TypeOK'
  BY TypeStep
<1>2. Roles'
  <2>1. \A o \in Calls \ {t} : pc'[o] = pc[o] /\ verdict'[o] = verdict[o] /\ loaded'[o] = loaded[o]
    BY OwnState
  <2> DEFINE Role == /\ t \in Connects =>
                           /\ pc'[t] \notin {"ping", "dispose", "load", "update", "not_found"}
                           /\ verdict'[t] \in {NULL, "connected"}
                           /\ loaded'[t] = NULL
                     /\ t \in Validates =>
                           /\ pc'[t] \notin {"first_ping", "insert", "dispose"}
                           /\ verdict'[t] \in {NULL, "connected", "error"}
                     /\ t \in Disconnects =>
                           /\ pc'[t] \notin {"first_ping", "insert", "ping"}
                           /\ verdict'[t] \in {NULL, "disconnected"}
                     /\ pc'[t] \in {"insert", "load", "update", "commit"} => verdict'[t] # NULL
  <2>2. Role
    <3> DEFINE Goal == Role
    <3> USE RegistryAssumption DEF CallsInv, Roles, TypeOK, Over, Statuses, Goto, locals, history, Calls
    <3>1. ASSUME NEW p \in Processes, BuildDriver(t, p)  PROVE  Goal
      BY <3>1 DEF BuildDriver, Begin
    <3>2. ASSUME NEW p \in Processes, DriverFails(t, p)  PROVE  Goal
      BY <3>2 DEF DriverFails, Begin
    <3>3. ASSUME NEW p \in Processes, NotFound(t, p)  PROVE  Goal
      BY <3>3 DEF NotFound, Begin, Ask
    <3>4. ASSUME NEW p \in Processes, GetEntry(t, p)  PROVE  Goal
      BY <3>4 DEF GetEntry, Begin, Ask
    <3>5. ASSUME NEW p \in Processes, RemoveEntry(t, p)  PROVE  Goal
      BY <3>5 DEF RemoveEntry, Begin, Ask
    <3>6. CASE Register(t)  BY <3>6 DEF Register
    <3>7. CASE FirstPingFails(t)  BY <3>7 DEF FirstPingFails
    <3>8. CASE Insert(t)  BY <3>8 DEF Insert
    <3>9. CASE Ping(t)  BY <3>9 DEF Ping
    <3>10. CASE PingFails(t)  BY <3>10 DEF PingFails
    <3>11. CASE Dispose(t)  BY <3>11 DEF Dispose
    <3>12. CASE Load(t)  BY <3>12 DEF Load
    <3>13. CASE Update(t)  BY <3>13 DEF Update
    <3>14. CASE Commit(t)  BY <3>14 DEF Commit
    <3>15. CASE StatementFails(t)  BY <3>15 DEF StatementFails
    <3>. QED
      BY <3>1, <3>2, <3>3, <3>4, <3>5, <3>6, <3>7, <3>8, <3>9, <3>10, <3>11, <3>12, <3>13, <3>14, <3>15 DEF Step, Proceed, Accept
  <2>. QED  BY <2>1, <2>2 DEF CallsInv, Roles, Calls
<1>3. Started'
  <2>1. \A o \in Calls : pc[o] \in Over => pc'[o] = pc[o]
    BY OwnState
  <2>2. \A o \in Calls : pc'[o] = "client" <=> proc'[o] = NULL
    BY OwnState, RegistryAssumption DEF CallsInv, Started
  <2>3. \A o \in Calls : \A x \in before'[o] : x \in Calls /\ pc[x] \in Over
    BY OwnState DEF CallsInv, Started, TypeOK
  <2>4. \A o \in Calls : o \notin Connects /\ pc'[o] # "client" => pc[IdOf[o]] = "done"
    BY OwnState DEF CallsInv, Started
  <2>. QED  BY <2>1, <2>2, <2>3, <2>4, RegistryAssumption DEF Started, Over, Calls
<1>. QED  BY <1>1, <1>2, <1>3 DEF CallsInv

\* A call that has begun keeps its process and its past.
LEMMA Steady ==
    ASSUME NEW t \in Calls, CallsInv, Step(t), NEW o \in Calls, pc[o] # "client"
    PROVE  proc'[o] = proc[o] /\ before'[o] = before[o] /\ pc'[o] # "client"
BY OwnState

\* A connection with a removal is one that a client knows.
LEMMA RemovedIsKnown ==
    ASSUME CallsInv, NEW c \in Connects, NEW d \in Removals(c)
    PROVE  /\ d \in Calls /\ d \in Disconnects /\ d \notin Connects /\ IdOf[d] = c
           /\ pc[d] # "client" /\ pc[d] # "not_found" /\ pc[c] = "done"
BY RegistryAssumption DEF Removals, CallsInv, Started, Calls

\* The entry is added, and removed, where it should be.
LEMMA RegisterFacts ==
    ASSUME NEW t \in Calls, CallsInv, Register(t)
    PROVE  /\ t \in Connects /\ IdOf[t] = t /\ pc[t] = "first_ping" /\ proc[t] \in Processes
           /\ registered'[proc[t]] = registered[proc[t]] \cup {t}
           /\ \A q \in Processes \ {proc[t]} : registered'[q] = registered[q]
           /\ open' = open \cup {t} /\ status' = status /\ pc'[t] = "insert"
BY RegistryAssumption DEF Register, CallsInv, TypeOK, Roles, Started, Goto, Calls

LEMMA RemoveEntryFacts ==
    ASSUME NEW t \in Calls, NEW p \in Processes, CallsInv, RemoveEntry(t, p)
    PROVE  /\ t \in Disconnects /\ t \notin Connects /\ pc[t] = "client" /\ pc'[t] = "dispose"
           /\ proc'[t] = p /\ IdOf[t] \in registered[p] /\ IdOf[t] \in Connects
           /\ pc[IdOf[t]] = "done"
           /\ registered'[p] = registered[p] \ {IdOf[t]}
           /\ \A q \in Processes \ {p} : registered'[q] = registered[q]
           /\ open' = open /\ status' = status
BY RegistryAssumption DEF RemoveEntry, Ask, Begin, CallsInv, TypeOK, Goto, Calls

LEMMA EntriesStep ==
    ASSUME NEW t \in Calls, EntriesInv, Step(t)
    PROVE  Entries'
<1>0. CallsInv /\ Entries
  BY DEF EntriesInv
<1> SUFFICES ASSUME NEW c \in Connects
             PROVE  /\ \A p \in Processes :
                          c \in registered'[p] => proc'[c] = p /\ Removals(c)' = {}
                    /\ pc'[c] \in {"insert", "commit", "done"} =>
                          c \in registered'[proc'[c]] \/ c \in erased' \/ Removals(c)' # {}
                    /\ \A d, e \in Removals(c)' : d = e
                    /\ \A d \in Removals(c)' : proc'[d] = proc'[c]
  BY DEF Entries
<1>c. c \in Calls
  BY DEF Calls
<1>e. /\ \A p \in Processes : c \in registered[p] => proc[c] = p /\ Removals(c) = {}
      /\ pc[c] \in {"insert", "commit", "done"} =>
            c \in registered[proc[c]] \/ c \in erased \/ Removals(c) # {}
      /\ \A d, e \in Removals(c) : d = e
      /\ \A d \in Removals(c) : proc[d] = proc[c]
  BY <1>0 DEF Entries
<1>s. pc[c] # "client" => proc'[c] = proc[c]
  BY <1>0, <1>c, Steady
<1>n. \A p \in Processes : c \in registered[p] => pc[c] # "client"
  BY <1>e, <1>c, <1>0, RegistryAssumption DEF CallsInv, Started
<1>r. erased' = erased
  BY <1>0, OwnState
<1>1. CASE Register(t)
  <2>0. Removals(c)' = Removals(c)
    BY <1>0, <1>1, RemovalsStep, RegisterFacts, RemoveEntryFacts
  <2>1. c = t => Removals(c) = {} /\ proc'[c] = proc[c] /\ proc[c] \in Processes /\ pc[c] = "first_ping"
    BY <1>0, <1>1, <1>s, RegisterFacts, RemovedIsKnown
  <2>2. \A p \in Processes : c \in registered'[p] => c \in registered[p] \/ (c = t /\ p = proc[t])
    BY <1>0, <1>1, RegisterFacts
  <2>3. c \in registered'[proc[c]] \/ c # t
    BY <1>0, <1>1, RegisterFacts
  <2>4. \A p \in Processes : c \in registered[p] => c \in registered'[p]
    BY <1>0, <1>1, RegisterFacts
  <2>5. c # t => pc'[c] = pc[c]
    BY <1>0, <1>c, OwnState
  <2>6. pc[c] # "client" => proc[c] \in Processes
    BY <1>0, <1>c, RegistryAssumption DEF CallsInv, TypeOK, Started
  <2>7. \A p \in Processes : c \in registered'[p] => proc'[c] = p /\ Removals(c)' = {}
    BY <2>0, <2>1, <2>2, <1>e, <1>n, <1>s
  <2>8. pc'[c] \in {"insert", "commit", "done"} =>
           c \in registered'[proc'[c]] \/ c \in erased' \/ Removals(c)' # {}
    <3>1. CASE c = t  BY <3>1, <2>1, <2>3
    <3>2. CASE c # t  BY <3>2, <2>0, <2>4, <2>5, <2>6, <1>e, <1>s, <1>r
    <3>. QED  BY <3>1, <3>2
  <2>9. \A d \in Removals(c)' : proc'[d] = proc'[c]
    BY <1>0, <2>0, <1>e, <1>s, RemovedIsKnown, Steady
  <2>. QED  BY <2>0, <2>7, <2>8, <2>9, <1>e
<1>2. ASSUME NEW p \in Processes, RemoveEntry(t, p), IdOf[t] = c
      PROVE  /\ \A q \in Processes :
                   c \in registered'[q] => proc'[c] = q /\ Removals(c)' = {}
             /\ pc'[c] \in {"insert", "commit", "done"} =>
                   c \in registered'[proc'[c]] \/ c \in erased' \/ Removals(c)' # {}
             /\ \A d, e \in Removals(c)' : d = e
             /\ \A d \in Removals(c)' : proc'[d] = proc'[c]
  <2>1. /\ t \in Disconnects /\ t \notin Connects /\ pc'[t] = "dispose" /\ proc'[t] = p
        /\ c \in registered[p] /\ pc[c] = "done" /\ registered'[p] = registered[p] \ {c}
        /\ \A q \in Processes \ {p} : registered'[q] = registered[q]
    BY <1>0, <1>2, RemoveEntryFacts
  <2>2. Removals(c) = {} /\ proc[c] = p /\ proc'[c] = p
    BY <2>1, <1>e, <1>s
  <2>3. t \in Removals(c)'
    BY <1>2, <2>1 DEF Removals
  <2>4. Removals(c)' = {t}
    BY <1>0, <2>2, <2>3, RemovalsStep
  <2>5. \A q \in Processes : c \notin registered'[q]
    BY <2>1, <1>e
  <2>. QED  BY <2>1, <2>2, <2>4, <2>5
<1>3. CASE /\ ~Register(t)
           /\ registered' = registered \/ \E p \in Processes : RemoveEntry(t, p) /\ IdOf[t] # c
  <2>1. \A p \in Processes : c \in registered'[p] <=> c \in registered[p]
    BY <1>0, <1>3, RemoveEntryFacts
  <2>2. Removals(c)' = Removals(c)
    BY <1>0, <1>e, <1>3, <2>1, RemovalsStep, RemoveEntryFacts
  <2>3. \A p \in Processes : c \in registered'[p] => proc'[c] = p /\ Removals(c)' = {}
    BY <2>1, <2>2, <1>e, <1>n, <1>s
  <2>4. pc'[c] \in {"insert", "commit", "done"} => pc[c] \in {"insert", "commit", "done"}
    <3>1. CASE c # t  BY <3>1, <1>0, <1>c, OwnState
    <3>2. CASE c = t
      <4>1. pc[t] \notin {"load", "update"}
        BY <1>0, <3>2 DEF CallsInv, Roles
      <4>2. ~Load(t) /\ (Commit(t) => pc[t] = "commit")
        BY <4>1 DEF Load, Commit
      <4>. QED  BY <1>0, <3>2, <4>1, <4>2, <1>3, StepEffects DEF Effects
    <3>. QED  BY <3>1, <3>2
  <2>5. pc[c] # "client" => proc[c] \in Processes
    BY <1>0, <1>c, RegistryAssumption DEF CallsInv, TypeOK, Started
  <2>6. pc'[c] \in {"insert", "commit", "done"} =>
           c \in registered'[proc'[c]] \/ c \in erased' \/ Removals(c)' # {}
    BY <2>1, <2>2, <2>4, <2>5, <1>e, <1>s, <1>r
  <2>7. \A d \in Removals(c)' : proc'[d] = proc'[c]
    BY <1>0, <2>2, <1>e, <1>s, RemovedIsKnown, Steady
  <2>. QED  BY <2>2, <2>3, <2>6, <2>7, <1>e
<1>. QED  BY <1>0, <1>1, <1>2, <1>3, StepEffects DEF Effects

LEMMA EntriesRestart ==
    ASSUME NEW p \in Processes, EntriesInv, Restart(p)
    PROVE  Entries'
<1>0. CallsInv /\ Entries
  BY DEF EntriesInv
<1>1. \A c \in Connects : pc[c] \in {"insert", "commit", "done"} => proc[c] \in Processes
  BY <1>0, RegistryAssumption DEF CallsInv, TypeOK, Started, Calls
<1>2. \A c \in Connects : pc'[c] \in {"insert", "commit", "done"} => pc'[c] = pc[c]
  BY <1>0, RestartFacts DEF Calls
<1>. QED  BY <1>0, <1>1, <1>2, RestartFacts, RemovedIsKnown DEF Entries

\* A removal that is over stays one.
LEMMA RecordsStep ==
    ASSUME NEW t \in Calls, EntriesInv, Step(t)
    PROVE  Records'
<1>0. CallsInv /\ Entries /\ Records
  BY DEF EntriesInv
<1>i. IdOf[t] \in Connects
  BY RegistryAssumption
<1>1. ASSUME NEW c \in Connects, status'[c] = "disconnected"
      PROVE  \E d \in Removals(c)' : pc'[d] \in Over
  <2>1. CASE status[c] = "disconnected"
    <3>1. PICK d \in Removals(c) : pc[d] \in Over
      BY <1>0, <2>1 DEF Records
    <3>2. d \in Removals(c)' /\ pc'[d] = pc[d]
      BY <1>0, <3>1, RemovalsStep, RemovedIsKnown, OwnState
    <3>. QED  BY <3>1, <3>2
  <2>2. CASE status[c] # "disconnected"
    <3>1. Commit(t) /\ c = IdOf[t] /\ verdict[t] = "disconnected"
      BY <1>0, <1>1, <2>2, StepEffects DEF Effects, Commit, CallsInv, TypeOK
    <3>2. t \in Disconnects /\ pc'[t] \in {"done", "failed"}
      BY <1>0, <3>1, RegistryAssumption DEF CallsInv, Roles, Commit, TypeOK, Calls, Statuses
    <3>. QED  BY <3>1, <3>2 DEF Removals, Over
  <2>. QED  BY <2>1, <2>2
<1>2. ASSUME NEW c \in Connects, pc'[c] = "done"
      PROVE  status'[c] # NULL
  <2>1. Commit(t) => verdict[t] # NULL
    BY <1>0 DEF Commit, CallsInv, Roles
  <2>2. CASE pc[c] = "done"
    <3>1. status[c] # NULL
      BY <1>0, <2>2 DEF Records
    <3>. QED  BY <1>0, <1>i, <2>1, <3>1, StepEffects DEF Effects, Commit, CallsInv, TypeOK
  <2>3. CASE pc[c] # "done"
    <3>1. c = t
      BY <1>0, <1>2, <2>3, OwnState DEF Calls
    <3>2. Commit(t) /\ IdOf[t] = t
      BY <1>0, <1>2, <3>1, StepEffects, RegistryAssumption DEF Effects, Load, CallsInv, Roles
    <3>3. verdict[t] # loaded[t]
      BY <1>0, <2>1, <3>1, <3>2 DEF CallsInv, Roles
    <3>. QED  BY <1>0, <2>1, <3>1, <3>2, <3>3 DEF Commit, CallsInv, TypeOK
  <2>. QED  BY <2>2, <2>3
<1>3. ASSUME NEW d \in Disconnects, pc'[d] \in {"update", "commit"}
      PROVE  loaded'[d] # "disconnected"
  <2>1. CASE d # t
    BY <1>0, <1>3, <2>1, OwnState DEF Records, Calls
  <2>2. CASE d = t /\ pc'[t] = "update"
    <3>1. Load(t)
      BY <1>0, <2>2, StepEffects DEF Effects
    <3>2. t \in Removals(IdOf[t]) /\ pc[t] \notin Over
      BY <2>2, <3>1 DEF Removals, Load, Over
    <3>3. status[IdOf[t]] # "disconnected"
      BY <1>0, <1>i, <3>2 DEF Records, Entries
    <3>. QED  BY <1>0, <2>2, <3>1, <3>3 DEF Load, CallsInv, TypeOK
  <2>3. CASE d = t /\ pc'[t] = "commit"
    <3>1. pc[t] = "update" /\ (Insert(t) \/ Update(t))
      BY <1>0, <2>3, StepEffects DEF Effects, CallsInv, Roles
    <3>2. loaded' = loaded
      BY <3>1 DEF Insert, Update, locals
    <3>. QED  BY <1>0, <2>3, <3>1, <3>2 DEF Records
  <2>. QED  BY <1>3, <2>1, <2>2, <2>3
<1>. QED  BY <1>1, <1>2, <1>3 DEF Records

LEMMA RecordsRestart ==
    ASSUME NEW p \in Processes, EntriesInv, Restart(p)
    PROVE  Records'
<1>0. CallsInv /\ Records
  BY DEF EntriesInv
<1>1. \A t \in Calls : pc[t] \in Over => pc'[t] = pc[t]
  BY <1>0, RestartFacts DEF Running
<1>2. \A t \in Calls : pc'[t] \in {"done", "update", "commit"} => pc'[t] = pc[t]
  BY <1>0, RestartFacts
<1>. QED  BY <1>0, <1>1, <1>2, RestartFacts, RemovedIsKnown DEF Records, Calls

\* A disconnect that removes the entry later is not over when the validate begins.
LEMMA ValidationsStep ==
    ASSUME NEW t \in Calls, EntriesInv, Step(t)
    PROVE  Validations'
<1>0. CallsInv /\ Entries /\ Validations
  BY DEF EntriesInv
<1> SUFFICES ASSUME NEW v \in Validates
             PROVE  /\ pc'[v] \notin {"client", "not_found"} =>
                          Removals(IdOf[v])' \cap before'[v] = {}
                    /\ pc'[v] = "ping" => \/ IdOf[v] \in registered'[proc'[v]]
                                          \/ Removals(IdOf[v])' # {}
  BY DEF Validations
<1>v. v \in Calls /\ v \notin Disconnects /\ v \notin Connects /\ IdOf[v] \in Connects
  BY RegistryAssumption DEF Calls
<1>1. CASE v = t /\ pc[t] = "client"
  <2>1. PICK p \in Processes : NotFound(t, p) \/ GetEntry(t, p) \/ RemoveEntry(t, p)
    BY <1>0, <1>1, <1>v, StepEffects DEF Effects
  <2>2. CASE NotFound(t, p)
    BY <1>0, <1>1, <2>2 DEF NotFound, Goto, CallsInv, TypeOK
  <2>3. CASE GetEntry(t, p)
    <3>1. IdOf[v] \in registered[p] /\ registered' = registered /\ proc'[v] = p
      BY <1>0, <1>1, <2>3 DEF GetEntry, Ask, Begin, CallsInv, TypeOK
    <3>2. Removals(IdOf[v]) = {}
      BY <1>0, <1>v, <3>1 DEF Entries
    <3>3. Removals(IdOf[v])' = {}
      BY <1>0, <1>1, <1>v, <3>2, RemovalsStep, RemoveEntryFacts
    <3>. QED  BY <3>1, <3>3
  <2>4. ~RemoveEntry(t, p)
    BY <1>0, <1>1, <1>v, RemoveEntryFacts
  <2>. QED  BY <2>1, <2>2, <2>3, <2>4
<1>2. CASE v # t \/ pc[t] # "client"
  <2>1. /\ pc'[v] \notin {"client", "not_found"} => pc[v] \notin {"client", "not_found"}
        /\ pc'[v] \notin {"client", "not_found"} => before'[v] = before[v] /\ proc'[v] = proc[v]
    BY <1>0, <1>v, <1>2, OwnState DEF Over
  <2>2. t \notin before[v]
    BY <1>0, <1>v, OwnState DEF CallsInv, Started
  <2>3. pc'[v] \notin {"client", "not_found"} => Removals(IdOf[v])' \cap before'[v] = {}
    BY <1>0, <1>v, <2>1, <2>2, RemovalsStep DEF Validations
  <2>4. pc'[v] = "ping" => pc[v] = "ping"
    <3>1. CASE v # t  BY <1>0, <1>v, <3>1, OwnState
    <3>2. ~\E p \in Processes : GetEntry(t, p) /\ v = t
      BY <1>2 DEF GetEntry, Ask, Begin
    <3>. QED  BY <1>0, <3>1, <3>2, StepEffects DEF Effects
  <2>5. ASSUME pc'[v] = "ping"
        PROVE  IdOf[v] \in registered'[proc'[v]] \/ Removals(IdOf[v])' # {}
    <3>1. IdOf[v] \in registered[proc[v]] \/ Removals(IdOf[v]) # {}
      BY <1>0, <2>4, <2>5 DEF Validations
    <3>2. proc'[v] = proc[v] /\ proc[v] \in Processes
      BY <1>0, <1>v, <2>1, <2>4, <2>5 DEF CallsInv, Started, TypeOK
    <3>3. CASE Removals(IdOf[v]) # {}
      BY <1>0, <1>v, <3>3, RemovalsStep
    <3>4. CASE IdOf[v] \in registered[proc[v]] /\ \E p \in Processes : RemoveEntry(t, p)
      BY <1>0, <1>v, <3>2, <3>4, RemoveEntryFacts DEF Removals
    <3>5. CASE IdOf[v] \in registered[proc[v]] /\ ~\E p \in Processes : RemoveEntry(t, p)
      BY <1>0, <3>2, <3>5, RegisterFacts, StepEffects DEF Effects
    <3>. QED  BY <3>1, <3>3, <3>4, <3>5
  <2>. QED  BY <2>3, <2>5
<1>. QED  BY <1>1, <1>2

LEMMA ValidationsRestart ==
    ASSUME NEW p \in Processes, EntriesInv, Restart(p)
    PROVE  Validations'
<1>0. CallsInv /\ Validations
  BY DEF EntriesInv
<1>1. \A v \in Validates : v \in Calls /\ IdOf[v] \in Connects
  BY RegistryAssumption DEF Calls
<1>2. \A v \in Validates : pc'[v] \notin {"client", "not_found"} => pc[v] \notin {"client", "not_found"}
  BY <1>0, <1>1, RestartFacts DEF Running, Over
<1>3. \A v \in Validates : pc'[v] = "ping" => pc[v] = "ping" /\ proc[v] # p /\ proc[v] \in Processes
  BY <1>0, <1>1, RestartFacts DEF Running, Over, CallsInv, Started, TypeOK
<1>. QED  BY <1>0, <1>1, <1>2, <1>3, RestartFacts DEF Validations

LEMMA EntriesInvStep ==
    ASSUME NEW t \in Calls, EntriesInv, Step(t)
    PROVE  EntriesInv'
BY CallsStep, EntriesStep, RecordsStep, ValidationsStep DEF EntriesInv

-----------------------------------------------------------------------------
(* The properties.                                                         *)

\* A validate that got its entry overlaps each disconnect that removes it.
LEMMA ValidateOverlaps ==
    ASSUME EntriesInv, NEW v \in Validates, NEW d \in Removals(IdOf[v]),
           pc[v] \notin Over \cup {"client"}
    PROVE  Overlap(v, d)
<1>1. v \in Calls /\ d \in Calls /\ pc[d] # "client"
  BY RegistryAssumption DEF Calls, Removals
<1>2. v \notin before[d]
  BY <1>1 DEF EntriesInv, CallsInv, Started
<1>3. d \notin before[v]
  BY DEF EntriesInv, Validations, Over
<1>. QED  BY <1>1, <1>2, <1>3 DEF Overlap

LEMMA OverlapStep ==
    ASSUME NEW t \in Calls, CallsInv, Step(t), NEW v \in Calls, NEW d \in Calls, Overlap(v, d)
    PROVE  Overlap(v, d)'
BY Steady DEF Overlap

\* An entry stays registered unless this step removes it.
LEMMA RegisteredStep ==
    ASSUME NEW t \in Calls, CallsInv, Step(t), NEW c \in Connects, Registered(c)
    PROVE  \/ Registered(c)'
           \/ t \in Removals(c)' /\ pc'[t] = "dispose"
<1>1. PICK q \in Processes : c \in registered[q]
  BY DEF Registered
<1>2. CASE registered' = registered \/ Register(t)
  BY <1>1, <1>2, RegisterFacts DEF Registered
<1>3. ASSUME NEW p \in Processes, RemoveEntry(t, p)
      PROVE  Registered(c)' \/ (t \in Removals(c)' /\ pc'[t] = "dispose")
  <2>1. CASE c = IdOf[t]
    BY <1>3, <2>1, RemoveEntryFacts DEF Removals
  <2>2. CASE c # IdOf[t]
    BY <1>1, <1>3, <2>2, RemoveEntryFacts DEF Registered
  <2>. QED  BY <2>1, <2>2
<1>. QED  BY <1>2, <1>3, StepEffects DEF Effects

LEMMA OpenStep ==
    ASSUME NEW t \in Calls, EntriesInv, OpenPoolsAreOwned, Step(t)
    PROVE  OpenPoolsAreOwned'
<1>0. CallsInv /\ IdOf[t] \in Connects
  BY RegistryAssumption DEF EntriesInv
<1>t. TypeOK'
  BY <1>0, TypeStep
<1> SUFFICES ASSUME NEW c \in open'
             PROVE  \/ Registered(c)'
                    \/ \E d \in Removals(c)' :
                          \/ pc'[d] = "dispose"
                          \/ \E v \in Validates : IdOf[v] = c /\ Overlap(v, d)'
  BY DEF OpenPoolsAreOwned
<1>c. c \in Connects
  BY <1>t DEF TypeOK
<1>v. Validates \subseteq Calls
  BY DEF Calls
<1>1. CASE c \in open
  <2>1. CASE Registered(c)
    BY <1>0, <1>c, <2>1, RegisteredStep
  <2>2. ASSUME NEW d \in Removals(c), pc[d] = "dispose"
        PROVE  d \in Removals(c)' /\ pc'[d] = "dispose"
    <3>1. d \in Removals(c)' /\ d \in Calls /\ d \in Disconnects /\ IdOf[d] = c
      BY <1>0, <1>c, RemovalsStep, RemovedIsKnown
    <3>2. CASE d # t  BY <1>0, <2>2, <3>1, <3>2, OwnState
    <3>3. CASE d = t
      <4>1. Dispose(t)
        BY <2>2, <3>3 DEF Step, Proceed, Accept, Register, FirstPingFails, Insert, Ping, PingFails,
                          Load, Update, Commit, StatementFails, BuildDriver, DriverFails, NotFound,
                          GetEntry, RemoveEntry, Begin, Ask
      <4>. QED  BY <3>1, <3>3, <4>1 DEF Dispose
    <3>. QED  BY <3>1, <3>2, <3>3
  <2>3. ASSUME NEW d \in Removals(c), NEW v \in Validates, IdOf[v] = c, Overlap(v, d)
        PROVE  d \in Removals(c)' /\ Overlap(v, d)'
    BY <1>0, <1>c, <1>v, <2>3, RemovalsStep, RemovedIsKnown, OverlapStep
  <2>. QED  BY <1>1, <2>1, <2>2, <2>3 DEF OpenPoolsAreOwned
<1>2. CASE c \notin open
  <2>1. CASE Register(t)
    BY <1>0, <1>2, <2>1, RegisterFacts DEF Registered
  <2>2. CASE Ping(t) \/ PingFails(t)
    <3>1. /\ c = IdOf[t] /\ pc[t] = "ping" /\ registered' = registered
      BY <1>2, <2>2 DEF Ping, PingFails
    <3>2. t \in Validates
      BY <1>0, <3>1 DEF CallsInv, Roles, Calls
    <3>3. proc[t] \in Processes /\ (c \in registered[proc[t]] \/ Removals(c) # {})
      BY <1>0, <3>1, <3>2 DEF EntriesInv, Validations, CallsInv, Started, TypeOK
    <3>4. CASE c \in registered[proc[t]]
      BY <3>1, <3>3, <3>4 DEF Registered
    <3>5. ASSUME NEW d \in Removals(c)
          PROVE  d \in Removals(c)' /\ Overlap(t, d)'
      <4>1. Overlap(t, d)
        BY <3>1, <3>2, ValidateOverlaps DEF Over
      <4>. QED  BY <1>0, <1>c, <4>1, RemovalsStep, RemovedIsKnown, OverlapStep
    <3>. QED  BY <3>1, <3>2, <3>3, <3>4, <3>5
  <2>3. CASE Dispose(t)
    BY <1>2, <2>3 DEF Dispose
  <2>. QED  BY <1>0, <1>2, <2>1, <2>2, <2>3, StepEffects DEF Effects
<1>. QED  BY <1>1, <1>2

LEMMA FollowStep ==
    ASSUME NEW t \in Calls, EntriesInv, RecordsFollowRegistry, Step(t)
    PROVE  RecordsFollowRegistry'
<1>0. CallsInv /\ IdOf[t] \in Connects
  BY RegistryAssumption DEF EntriesInv
<1> DEFINE Excused(c) == \/ Registered(c)
                         \/ c \in erased
                         \/ \E d \in Removals(c) :
                               \/ pc[d] # "done"
                               \/ \E v \in Validates : IdOf[v] = c /\ Overlap(v, d)
<1>v. Validates \subseteq Calls
  BY DEF Calls
<1> SUFFICES ASSUME NEW c \in Connects, status'[c] \in {"connected", "error"}
             PROVE  Excused(c)'
  BY DEF RecordsFollowRegistry
<1>1. ASSUME Excused(c), ~(Commit(t) /\ c = IdOf[t] /\ t \in Disconnects)
      PROVE  Excused(c)'
  <2>1. CASE Registered(c)
    <3>1. CASE Registered(c)'  BY <3>1
    <3>2. CASE t \in Removals(c)' /\ pc'[t] = "dispose"  BY <3>2
    <3>. QED  BY <1>0, <2>1, <3>1, <3>2, RegisteredStep
  <2>2. CASE c \in erased
    BY <1>0, <2>2, OwnState
  <2>3. ASSUME NEW d \in Removals(c), pc[d] # "done"
        PROVE  d \in Removals(c)' /\ pc'[d] # "done"
    <3>1. d \in Removals(c)' /\ d \in Calls /\ d \in Disconnects /\ IdOf[d] = c /\ pc[c] = "done"
      BY <1>0, RemovalsStep, RemovedIsKnown
    <3>2. CASE d # t  BY <1>0, <2>3, <3>1, <3>2, OwnState
    <3>3. CASE d = t
      <4>1. status[c] # NULL
        BY <3>1 DEF EntriesInv, Records
      <4>2. Load(t) => pc'[t] # "done"
        BY <1>0, <3>1, <3>3, <4>1 DEF Load, Goto, CallsInv, TypeOK
      <4>. QED  BY <1>0, <1>1, <3>1, <3>3, <4>2, StepEffects DEF Effects
    <3>. QED  BY <3>1, <3>2, <3>3
  <2>4. ASSUME NEW d \in Removals(c), NEW v \in Validates, IdOf[v] = c, Overlap(v, d)
        PROVE  d \in Removals(c)' /\ Overlap(v, d)'
    BY <1>0, <1>v, <2>4, RemovalsStep, RemovedIsKnown, OverlapStep
  <2>. QED  BY <1>1, <2>1, <2>2, <2>3, <2>4
<1>2. CASE ~(Commit(t) /\ c = IdOf[t])
  <2>1. status'[c] = status[c]
    BY <1>0, <1>2, StepEffects DEF Effects, Commit, CallsInv, TypeOK
  <2>. QED  BY <1>1, <1>2, <2>1 DEF RecordsFollowRegistry
<1>3. CASE Commit(t) /\ c = IdOf[t] /\ t \in Disconnects
  <2>1. verdict[t] = "disconnected" /\ loaded[t] # "disconnected"
    BY <1>0, <1>3 DEF Commit, CallsInv, Roles, EntriesInv, Records
  <2>. QED  BY <1>0, <1>3, <2>1 DEF Commit, CallsInv, TypeOK
<1>4. CASE Commit(t) /\ c = IdOf[t] /\ t \in Validates
  <2>1. pc[t] = "commit" /\ pc[c] = "done" /\ t \notin Disconnects
    BY <1>0, <1>4, RegistryAssumption DEF Commit, CallsInv, Started
  <2>2. c \in registered[proc[c]] \/ c \in erased \/ Removals(c) # {}
    BY <2>1 DEF EntriesInv, Entries
  <2>3. proc[c] \in Processes
    BY <1>0, <2>1, RegistryAssumption DEF CallsInv, Started, TypeOK, Calls
  <2>4. \A d \in Removals(c) : Overlap(t, d)
    BY <1>4, <2>1, ValidateOverlaps DEF Over
  <2>5. Excused(c)
    BY <1>4, <2>2, <2>3, <2>4 DEF Registered
  <2>. QED  BY <1>1, <2>1, <2>5
<1>5. CASE Commit(t) /\ c = IdOf[t] /\ t \in Connects
  <2>1. pc[t] = "commit" /\ c = t /\ t \notin Disconnects
    BY <1>5, RegistryAssumption DEF Commit
  <2>2. Removals(c) = {}
    BY <1>0, <2>1, RemovedIsKnown
  <2>3. c \in registered[proc[c]] \/ c \in erased
    BY <2>1, <2>2 DEF EntriesInv, Entries
  <2>4. proc[c] \in Processes
    BY <1>0, <2>1, RegistryAssumption DEF CallsInv, Started, TypeOK, Calls
  <2>. QED  BY <1>1, <2>1, <2>3, <2>4 DEF Registered
<1>. QED  BY <1>2, <1>3, <1>4, <1>5 DEF Calls

LEMMA NotFoundStep ==
    ASSUME NEW t \in Calls, EntriesInv, NotFoundIsJustified, Step(t)
    PROVE  NotFoundIsJustified'
<1>0. CallsInv
  BY DEF EntriesInv
<1> SUFFICES ASSUME NEW x \in Calls, pc'[x] = "not_found"
             PROVE  \/ proc'[x] # proc'[IdOf[x]]
                    \/ IdOf[x] \in erased'
                    \/ \E d \in Removals(IdOf[x])' : x \notin before'[d]
  BY DEF NotFoundIsJustified
<1>i. IdOf[x] \in Connects /\ IdOf[x] \in Calls
  BY RegistryAssumption DEF Calls
<1>r. Removals(IdOf[x]) \subseteq Removals(IdOf[x])'
  BY <1>0, <1>i, RemovalsStep
<1>d. \A d \in Removals(IdOf[x]) : before'[d] = before[d]
  BY <1>0, <1>i, RemovedIsKnown, Steady
<1>e. erased' = erased
  BY <1>0, OwnState
<1>1. CASE pc[x] = "not_found"
  <2>1. x \notin Connects /\ pc[IdOf[x]] = "done"
    BY <1>0, <1>1 DEF CallsInv, Roles, Started
  <2>2. proc'[x] = proc[x] /\ proc'[IdOf[x]] = proc[IdOf[x]]
    BY <1>0, <1>1, <1>i, <2>1, Steady
  <2>. QED  BY <1>1, <1>r, <1>d, <1>e, <2>2 DEF NotFoundIsJustified
<1>2. CASE pc[x] # "not_found"
  <2>1. x = t
    BY <1>0, <1>2, OwnState
  <2>2. PICK p \in Processes : NotFound(t, p)
    BY <1>0, <2>1, StepEffects DEF Effects
  <2>3. /\ pc[x] = "client" /\ pc[IdOf[x]] = "done"
        /\ IdOf[x] \notin registered[p] /\ proc'[x] = p
    BY <1>0, <2>1, <2>2 DEF NotFound, Ask, Begin, CallsInv, TypeOK
  <2>4. proc'[IdOf[x]] = proc[IdOf[x]]
    BY <1>0, <1>i, <2>3, Steady
  <2>5. IdOf[x] \in registered[proc[IdOf[x]]] \/ IdOf[x] \in erased \/ Removals(IdOf[x]) # {}
    BY <1>i, <2>3 DEF EntriesInv, Entries
  <2>6. \A d \in Removals(IdOf[x]) : x \notin before[d]
    BY <1>0, <1>i, <2>3, RemovedIsKnown DEF CallsInv, Started, Over
  <2>. QED  BY <1>r, <1>d, <1>e, <2>3, <2>4, <2>5, <2>6
<1>. QED  BY <1>1, <1>2

\* After a restart the connections of the process are closed and erased.
LEMMA PropertiesRestart ==
    ASSUME NEW p \in Processes, RegistryInv, Restart(p)
    PROVE  OpenPoolsAreOwned' /\ RecordsFollowRegistry' /\ NotFoundIsJustified'
<1>0. CallsInv /\ Entries /\ OpenPoolsAreOwned /\ RecordsFollowRegistry /\ NotFoundIsJustified
  BY DEF RegistryInv, EntriesInv
<1>v. Validates \subseteq Calls
  BY DEF Calls
<1>1. \A c \in Connects : Registered(c) => Registered(c)' \/ (c \in erased' /\ proc[c] = p)
  BY <1>0, RestartFacts DEF Registered, Entries
<1>2. \A v, d \in Calls : Overlap(v, d) => Overlap(v, d)'
  BY <1>0, RestartFacts DEF Overlap
<1>3. \A c \in Connects : \A d \in Removals(c) :
         /\ d \in Removals(c)' /\ d \in Calls /\ proc[d] = proc[c]
         /\ pc[d] # "done" => pc'[d] # "done"
         /\ proc[c] # p => pc'[d] = pc[d]
  BY <1>0, RestartFacts, RemovedIsKnown DEF Entries
<1>4. \A c \in open' : c \in open /\ proc[c] # p
  BY <1>0, RestartFacts
<1>5. OpenPoolsAreOwned'
  <2> SUFFICES ASSUME NEW c \in open'
               PROVE  \/ Registered(c)'
                      \/ \E d \in Removals(c)' :
                            \/ pc'[d] = "dispose"
                            \/ \E v \in Validates : IdOf[v] = c /\ Overlap(v, d)'
    BY DEF OpenPoolsAreOwned
  <2>1. c \in open /\ proc[c] # p /\ c \in Connects
    BY <1>0, <1>4 DEF CallsInv, TypeOK
  <2>2. CASE Registered(c)  BY <1>1, <2>1, <2>2
  <2>3. CASE \E d \in Removals(c) :
                \/ pc[d] = "dispose"
                \/ \E v \in Validates : IdOf[v] = c /\ Overlap(v, d)
    BY <1>2, <1>3, <1>v, <2>1, <2>3
  <2>. QED  BY <1>0, <2>1, <2>2, <2>3 DEF OpenPoolsAreOwned
<1>6. RecordsFollowRegistry'
  <2> SUFFICES ASSUME NEW c \in Connects, status'[c] \in {"connected", "error"}
               PROVE  \/ Registered(c)'
                      \/ c \in erased'
                      \/ \E d \in Removals(c)' :
                            \/ pc'[d] # "done"
                            \/ \E v \in Validates : IdOf[v] = c /\ Overlap(v, d)'
    BY DEF RecordsFollowRegistry
  <2>1. status[c] \in {"connected", "error"} /\ erased \subseteq erased'
    BY <1>0, RestartFacts
  <2>2. CASE Registered(c)  BY <1>1, <2>2
  <2>3. CASE c \in erased  BY <2>1, <2>3
  <2>4. CASE \E d \in Removals(c) :
                \/ pc[d] # "done"
                \/ \E v \in Validates : IdOf[v] = c /\ Overlap(v, d)
    BY <1>2, <1>3, <1>v, <2>4
  <2>. QED  BY <1>0, <2>1, <2>2, <2>3, <2>4 DEF RecordsFollowRegistry
<1>7. NotFoundIsJustified'
  BY <1>0, RestartFacts, RegistryAssumption DEF NotFoundIsJustified
<1>. QED  BY <1>5, <1>6, <1>7

LEMMA RegistryNext == RegistryInv /\ [Next]_vars => RegistryInv'
<1> SUFFICES ASSUME RegistryInv, [Next]_vars  PROVE RegistryInv'
  OBVIOUS
<1>0. EntriesInv /\ CallsInv
  BY DEF RegistryInv, EntriesInv
<1>1. ASSUME NEW t \in Calls, Step(t)  PROVE RegistryInv'
  BY <1>0, <1>1, EntriesInvStep, OpenStep, FollowStep, NotFoundStep DEF RegistryInv
<1>2. ASSUME NEW p \in Processes, Restart(p)  PROVE RegistryInv'
  BY <1>0, <1>2, CallsRestart, EntriesRestart, RecordsRestart, ValidationsRestart,
     PropertiesRestart DEF RegistryInv, EntriesInv
<1>3. CASE UNCHANGED vars
  BY <1>3 DEF vars, RegistryInv, EntriesInv, CallsInv, TypeOK, Roles, Started, Entries, Records,
              Validations, Removals, Registered, Overlap, OpenPoolsAreOwned,
              RecordsFollowRegistry, NotFoundIsJustified
<1>. QED  BY <1>1, <1>2, <1>3 DEF Next, Step

-----------------------------------------------------------------------------
(* The theorems.                                                           *)

\* The strengthened invariant of the registry, the pools and the records holds
\* always, whatever calls, failures and restarts interleave.
THEOREM InductiveInvariant == Spec => []RegistryInv
BY RegistryInit, RegistryNext, PTL DEF Spec

\* Type correctness of connect, validate and disconnect.
THEOREM RegistryTypeOK == Spec => []TypeOK
<1>1. RegistryInv => TypeOK
  BY DEF RegistryInv, EntriesInv, CallsInv
<1>. QED  BY <1>1, InductiveInvariant, PTL

\* A connection whose record says disconnected is in no registry: the disconnect
\* that wrote it removed the only entry, and connect never registers an id again.
THEOREM DisconnectedTheorem == Spec => []DisconnectedIsUnregistered
<1>1. RegistryInv => DisconnectedIsUnregistered
  BY DEF RegistryInv, EntriesInv, Entries, Records, DisconnectedIsUnregistered, Registered
<1>. QED  BY <1>1, InductiveInvariant, PTL

\* The entry of a connection is taken by one disconnect at most, in the process that
\* registered it (ConnectionManager.remove): no engine is disposed twice.
THEOREM TakenOnceTheorem == Spec => []TakenOnce
<1>1. RegistryInv => TakenOnce
  BY DEF RegistryInv, EntriesInv, Entries, TakenOnce
<1>. QED  BY <1>1, InductiveInvariant, PTL

\* Connections to a target are open only while their entry is registered, until
\* the dispose of a disconnect, or because a validate overlapped the disconnect.
THEOREM OpenPoolsTheorem == Spec => []OpenPoolsAreOwned
<1>1. RegistryInv => OpenPoolsAreOwned
  BY DEF RegistryInv
<1>. QED  BY <1>1, InductiveInvariant, PTL

\* A record that says connected or error has an entry, or lost it in one of the
\* ways that RecordsFollowRegistry names.
THEOREM RecordsTheorem == Spec => []RecordsFollowRegistry
<1>1. RegistryInv => RecordsFollowRegistry
  BY DEF RegistryInv
<1>. QED  BY <1>1, InductiveInvariant, PTL

\* "Not found" is answered by another process, after a restart, or once a
\* disconnect has begun, and never otherwise.
THEOREM NotFoundTheorem == Spec => []NotFoundIsJustified
<1>1. RegistryInv => NotFoundIsJustified
  BY DEF RegistryInv
<1>. QED  BY <1>1, InductiveInvariant, PTL
=============================================================================
