-------------------------- MODULE ChatStoreProofs --------------------------
(***************************************************************************)
(* Proofs about ChatStore, for any calls, any page size and any number of  *)
(* connections.                                                            *)
(***************************************************************************)
EXTENDS ChatStore, FiniteSetTheorems, TLAPS

Settle(t) == Commit(t) \/ CommitLost(t)
Quit(t) == Refuse(t) \/ Fails(t) \/ Abandon(t)

TurnLabels == {"think", "insert_user", "increment_user", "insert_assistant",
               "increment_assistant"}

\* A label belongs to calls of certain kinds.
KindsOk ==
    \A t \in Calls :
        /\ pc[t] \in {"insert_first", "increment_first"} => t \in Creates
        /\ pc[t] \in TurnLabels => t \in Turns
        /\ pc[t] = "delete" => t \in Deletes
        /\ pc[t] \in {"count", "select"} => t \in Turns \cup Reads
        /\ pc[t] = "commit" => t \notin Reads

\* Labels at which a call has flushed messages.
Writing == {"increment_user", "insert_assistant", "increment_assistant",
            "increment_first", "commit"}

\* What a transaction has written, from where it is.
WorkOf(t) ==
    /\ pc[t] \in {"increment_user", "increment_first"} =>
           flushed[t] = L!First(t) /\ adds[t] = 0
    /\ pc[t] = "insert_assistant" => flushed[t] = L!First(t) /\ adds[t] = 1
    /\ pc[t] = "increment_assistant" => flushed[t] = L!Both(t) /\ adds[t] = 1
    /\ pc[t] = "commit" /\ t \in Turns => flushed[t] = L!Both(t) /\ adds[t] = 2
    /\ pc[t] = "commit" /\ t \in Creates =>
           \/ flushed[t] = {} /\ adds[t] = 0
           \/ flushed[t] = L!First(t) /\ adds[t] = 1
    /\ pc[t] = "commit" /\ t \in Deletes => flushed[t] = {} /\ adds[t] = 0
    /\ pc[t] \notin Writing => flushed[t] = {} /\ adds[t] = 0
    /\ t \in deleting => t \in Deletes /\ pc[t] = "commit"

WorkOk == \A t \in Calls : WorkOf(t)

\* What is stored was written by calls that are over; only open sessions have
\* something, and a session is there once the call that makes it is over.
RowsOk ==
    \A s \in Creates :
        /\ session[s] # "open" => messages[s] = {} /\ count[s] = 0
        /\ pc[s] \notin Ended => session[s] = "none"
        /\ IsFiniteSet(messages[s])
        /\ \A m \in messages[s] : /\ m[1] \in Creates \cup Turns
                                  /\ SessionOf[m[1]] = s
                                  /\ pc[m[1]] \in Ended

\* What the row locks are for.
LocksOk ==
    /\ \A d \in deleting :
        /\ session[SessionOf[d]] = "open"
        /\ \A o \in Others(d) : flushed[o] = {} /\ adds[o] = 0 /\ o \notin deleting
    /\ \A t \in Turns : flushed[t] # {} => session[SessionOf[t]] = "open"

\* What a deletion has counted was removed, by itself or by another one.
Gone(d) ==
    \E o \in Deletes : /\ SessionOf[o] = SessionOf[d]
                       /\ removed[o] # NULL
                       /\ counted[d] \subseteq removed[o]

Kept(d) == session[SessionOf[d]] = "open" /\ counted[d] \subseteq messages[SessionOf[d]]

ReportsOk ==
    \A d \in Deletes :
        /\ pc[d] \in {"delete", "commit", "deleted"} => seen[d] = Cardinality(counted[d])
        /\ pc[d] \in {"delete", "commit"} => Kept(d) \/ Gone(d)
        /\ pc[d] = "commit" /\ d \notin deleting => Gone(d)
        /\ pc[d] = "deleted" => Gone(d)
        /\ removed[d] # NULL => pc[d] \in Ended

IInv == /\ TypeOK /\ KindsOk /\ WorkOk /\ RowsOk /\ LocksOk /\ CountIsRight /\ ReportsOk

-----------------------------------------------------------------------------
(* What a step leaves alone.                                               *)

\* The names that the proofs refer to.
LEMMA Kinds ==
    /\ \A t \in Calls : SessionOf[t] \in Creates
    /\ Creates \subseteq Calls /\ Turns \subseteq Calls /\ Deletes \subseteq Calls
    /\ Reads \subseteq Calls
    /\ \A c \in Creates : SessionOf[c] = c /\ c \notin Turns /\ c \notin Deletes /\ c \notin Reads
    /\ \A t \in Turns : t \notin Deletes /\ t \notin Reads
    /\ \A d \in Deletes : d \notin Reads
    /\ \A t \in Calls : t \in Creates \/ t \in Turns \/ t \in Deletes \/ t \in Reads
    /\ \A t \in Queries : t \in Turns
BY ChatAssumption DEF ChatAssumption, Calls, Turns

\* A step of one call leaves the local state of the others alone.
LEMMA OwnState ==
    ASSUME TypeOK, NEW t \in Calls, Step(t), NEW o \in Calls, o # t
    PROVE  /\ pc'[o] = pc[o] /\ flushed'[o] = flushed[o] /\ adds'[o] = adds[o]
           /\ o \in deleting' <=> o \in deleting
           /\ o \in Deletes => /\ seen'[o] = seen[o] /\ removed'[o] = removed[o]
                               /\ counted'[o] = counted[o]
<1>1. CASE Settle(t)
    BY <1>1 DEF Settle, Commit, CommitLost, Apply, Forget, Goto, TypeOK, locals
<1>2. CASE Quit(t)
    BY <1>2 DEF Quit, Refuse, Fails, Abandon, RollBack, Forget, Goto, TypeOK, rows, past
<1>3. CASE Find(t) \/ FindForDelete(t) \/ Miss(t) \/ InsertSession(t)
    BY <1>3 DEF Find, FindForDelete, Miss, InsertSession, Begin, Goto, TypeOK, rows, work,
                locals, past
<1>4. CASE CountMessages(t) \/ SelectPage(t) \/ Think(t)
    BY <1>4 DEF CountMessages, SelectPage, Think, Goto, TypeOK, rows, work
<1>5. CASE InsertUser(t) \/ InsertAssistant(t) \/ InsertFirst(t)
    BY <1>5 DEF InsertUser, InsertAssistant, InsertFirst, Insert, Goto, TypeOK, rows, locals,
                past
<1>6. CASE Increment(t) \/ Delete(t)
    BY <1>6 DEF Increment, Delete, Goto, TypeOK, rows, locals, past
<1>. QED BY <1>1, <1>2, <1>3, <1>4, <1>5, <1>6 DEF Step, Proceed, Settle, Quit

\* Only a commit changes rows, or what a deletion is known to have removed.
LEMMA RowsChangeByCommit ==
    ASSUME TypeOK, NEW t \in Calls, Step(t), ~Settle(t)
    PROVE  UNCHANGED rows /\ removed' = removed
BY DEF Step, Proceed, Settle, Find, FindForDelete, Miss, InsertSession, CountMessages,
       SelectPage, Think, InsertUser, InsertAssistant, InsertFirst, Insert, Increment,
       Delete, Refuse, Fails, Abandon, RollBack, rows, past

\* A call that is over takes no step.
LEMMA OverIsOver ==
    ASSUME TypeOK, NEW t \in Calls, Step(t)
    PROVE  pc[t] \notin Ended
BY DEF Step, Proceed, Find, FindForDelete, Miss, InsertSession, Begin, CountMessages,
       SelectPage, Think, InsertUser, InsertAssistant, InsertFirst, Insert, Increment, Delete,
       Commit, CommitLost, Refuse, Fails, Abandon, Ended, Open

-----------------------------------------------------------------------------
(* Type correctness.                                                       *)

\* What a transaction may insert are messages.
LEMMA FirstAndBoth ==
    ASSUME NEW t \in Calls
    PROVE  /\ L!First(t) \in SUBSET Messages /\ L!Both(t) \in SUBSET Messages
           /\ L!First(t) # {} /\ L!Both(t) # {}
           /\ L!Both(t) = L!First(t) \cup {<<t, "assistant">>}
BY DEF L!First, L!Both, Messages, Roles

LEMMA TypeInit == Init => TypeOK
<1> SUFFICES ASSUME Init PROVE TypeOK OBVIOUS
<1>1. /\ session \in [Creates -> {"none", "open", "gone"}]
      /\ messages \in [Creates -> SUBSET Messages] /\ count \in [Creates -> Nat]
    BY DEF Init
<1>2. /\ pc \in [Calls -> {"start"} \cup Open \cup Ended] /\ began \in [Calls -> Nat]
      /\ clock \in Nat
    BY DEF Init
<1>3. /\ flushed \in [Calls -> SUBSET Messages] /\ adds \in [Calls -> 0..2]
      /\ deleting \in SUBSET Deletes
    BY DEF Init
<1>4. /\ seen \in [Deletes -> Nat] /\ asked \in [Reads -> Nat] /\ total \in [Reads -> Nat]
      /\ got \in [Calls -> SUBSET Messages]
    BY DEF Init
<1>5. /\ counted \in [Calls -> SUBSET Messages] /\ listed \in [Calls -> SUBSET Messages]
    BY DEF Init
<1>6. removed \in [Deletes -> (SUBSET Messages) \cup {NULL}]
    BY DEF Init
<1>. QED BY <1>1, <1>2, <1>3, <1>4, <1>5, <1>6 DEF TypeOK

LEMMA TypeStepStart ==
    ASSUME TypeOK, KindsOk, NEW t \in Calls, Find(t) \/ FindForDelete(t) \/ Miss(t) \/ InsertSession(t)
    PROVE  TypeOK'
<1> USE DEF TypeOK, Begin, Goto, Open, Ended
<1>1. CASE Find(t)
    <2>1. pc' \in [Calls -> {"start"} \cup Open \cup Ended] BY <1>1 DEF Find
    <2>2. asked' \in [Reads -> Nat] BY <1>1 DEF Find
    <2>3. began' \in [Calls -> Nat] /\ clock' \in Nat BY <1>1 DEF Find
    <2>. QED BY <1>1, <2>1, <2>2, <2>3 DEF Find, rows, work, past
<1>2. CASE FindForDelete(t)
    <2>1. SessionOf[t] \in Creates BY Kinds
    <2>2. pc' \in [Calls -> {"start"} \cup Open \cup Ended] BY <1>2 DEF FindForDelete
    <2>3. seen' \in [Deletes -> Nat] BY <1>2, <2>1 DEF FindForDelete
    <2>4. counted' \in [Calls -> SUBSET Messages] BY <1>2, <2>1 DEF FindForDelete
    <2>5. began' \in [Calls -> Nat] /\ clock' \in Nat BY <1>2 DEF FindForDelete
    <2>. QED BY <1>2, <2>2, <2>3, <2>4, <2>5 DEF FindForDelete, rows, work
<1>3. CASE Miss(t) \/ InsertSession(t)
    <2>1. pc' \in [Calls -> {"start"} \cup Open \cup Ended] BY <1>3 DEF Miss, InsertSession
    <2>2. began' \in [Calls -> Nat] /\ clock' \in Nat BY <1>3 DEF Miss, InsertSession
    <2>. QED BY <1>3, <2>1, <2>2 DEF Miss, InsertSession, rows, work, locals, past
<1>. QED BY <1>1, <1>2, <1>3

LEMMA TypeStepList ==
    ASSUME TypeOK, NEW t \in Calls, \A s \in Creates : IsFiniteSet(messages[s]),
           CountMessages(t) \/ SelectPage(t) \/ Think(t)
    PROVE  TypeOK'
<1> USE DEF TypeOK, Goto, Open, Ended
<1>1. SessionOf[t] \in Creates BY Kinds
<1>2. CASE CountMessages(t)
    <2>1. Cardinality(messages[SessionOf[t]]) \in Nat BY <1>1, FS_CardinalityType
    <2>2. total' \in [Reads -> Nat] BY <1>2, <2>1 DEF CountMessages
    <2>3. counted' \in [Calls -> SUBSET Messages] BY <1>1, <1>2 DEF CountMessages
    <2>4. pc' \in [Calls -> {"start"} \cup Open \cup Ended] BY <1>2 DEF CountMessages
    <2>. QED BY <1>2, <2>2, <2>3, <2>4 DEF CountMessages, rows, work
<1>3. CASE SelectPage(t)
    <2>1. PICK P \in Pages(messages[SessionOf[t]], Offset(t), Limit(t)) :
              got' = [got EXCEPT ![t] = @ \cup P]
        BY <1>3 DEF SelectPage
    <2>2. P \in SUBSET Messages BY <1>1, <2>1 DEF Pages
    <2>3. got' \in [Calls -> SUBSET Messages] BY <2>1, <2>2
    <2>4. listed' \in [Calls -> SUBSET Messages] BY <1>1, <1>3 DEF SelectPage
    <2>5. pc' \in [Calls -> {"start"} \cup Open \cup Ended] BY <1>3 DEF SelectPage
    <2>. QED BY <1>3, <2>3, <2>4, <2>5 DEF SelectPage, rows, work
<1>4. CASE Think(t)
    <2>1. got' \in [Calls -> SUBSET Messages] BY <1>4 DEF Think
    <2>2. listed' \in [Calls -> SUBSET Messages] BY <1>4 DEF Think
    <2>3. pc' \in [Calls -> {"start"} \cup Open \cup Ended] BY <1>4 DEF Think
    <2>. QED BY <1>4, <2>1, <2>2, <2>3 DEF Think, rows, work
<1>. QED BY <1>2, <1>3, <1>4

LEMMA TypeStepWrite ==
    ASSUME TypeOK, KindsOk, WorkOk, NEW t \in Calls,
           InsertUser(t) \/ InsertAssistant(t) \/ InsertFirst(t) \/ Increment(t) \/ Delete(t)
    PROVE  TypeOK'
<1> USE DEF TypeOK, Goto, Open, Ended
<1>1. CASE InsertUser(t) \/ InsertAssistant(t) \/ InsertFirst(t)
    <2>1. flushed' \in [Calls -> SUBSET Messages]
        BY <1>1 DEF InsertUser, InsertAssistant, InsertFirst, Insert, Messages, Roles
    <2>2. pc' \in [Calls -> {"start"} \cup Open \cup Ended]
        BY <1>1 DEF InsertUser, InsertAssistant, InsertFirst, Insert
    <2>. QED BY <1>1, <2>1, <2>2
         DEF InsertUser, InsertAssistant, InsertFirst, Insert, rows, locals, past
<1>2. CASE Increment(t)
    <2>1. adds[t] \in 0..1 BY <1>2 DEF WorkOk, WorkOf, Increment
    <2>2. adds' \in [Calls -> 0..2] BY <1>2, <2>1 DEF Increment
    <2>3. pc' \in [Calls -> {"start"} \cup Open \cup Ended] BY <1>2 DEF Increment
    <2>. QED BY <1>2, <2>2, <2>3 DEF Increment, rows, locals, past
<1>3. CASE Delete(t)
    <2>1. t \in Deletes BY <1>3 DEF KindsOk, Delete
    <2>2. pc' \in [Calls -> {"start"} \cup Open \cup Ended] BY <1>3 DEF Delete
    <2>. QED BY <1>3, <2>1, <2>2 DEF Delete, rows, locals, past
<1>. QED BY <1>1, <1>2, <1>3

LEMMA TypeStepEnd ==
    ASSUME TypeOK, KindsOk, WorkOk, NEW t \in Calls, Settle(t) \/ Quit(t)
    PROVE  TypeOK'
<1> USE DEF TypeOK, Goto, Open, Ended
<1>1. SessionOf[t] \in Creates BY Kinds
<1>2. Failure(t) \in Ended BY DEF Failure
<1>3. CASE Settle(t)
    <2>1. pc[t] = "commit" /\ Apply(t) /\ Forget(t) BY <1>3 DEF Settle, Commit, CommitLost
    <2>2. Success(t) \in Ended BY <2>1, Kinds DEF Success, KindsOk
    <2>3. pc' \in [Calls -> {"start"} \cup Open \cup Ended]
        BY <1>2, <1>3, <2>2 DEF Settle, Commit, CommitLost
    <2>4. session' \in [Creates -> {"none", "open", "gone"}] BY <1>1, <2>1 DEF Apply
    <2>5. messages' \in [Creates -> SUBSET Messages] BY <1>1, <2>1 DEF Apply
    <2>6. count' \in [Creates -> Nat]
        <3>1. CASE t \in deleting BY <1>1, <2>1, <3>1 DEF Apply
        <3>2. CASE t \notin deleting
            <4>1. count' = [count EXCEPT ![SessionOf[t]] = @ + adds[t]] BY <2>1, <3>2 DEF Apply
            <4>2. adds[t] \in Nat OBVIOUS
            <4>. QED BY <1>1, <4>1, <4>2
        <3>. QED BY <3>1, <3>2
    <2>7. removed' \in [Deletes -> (SUBSET Messages) \cup {NULL}]
        <3>1. CASE t \in deleting BY <1>1, <2>1, <3>1 DEF Apply
        <3>2. CASE t \notin deleting BY <2>1, <3>2 DEF Apply
        <3>. QED BY <3>1, <3>2
    <2>8. /\ flushed' \in [Calls -> SUBSET Messages] /\ adds' \in [Calls -> 0..2]
          /\ deleting' \in SUBSET Deletes
        BY <2>1 DEF Forget
    <2>. QED BY <1>3, <2>3, <2>4, <2>5, <2>6, <2>7, <2>8 DEF Settle, Commit, CommitLost, locals
<1>4. CASE Quit(t)
    <2>1. /\ flushed' \in [Calls -> SUBSET Messages] /\ adds' \in [Calls -> 0..2]
          /\ deleting' \in SUBSET Deletes
        BY <1>4 DEF Quit, Refuse, Fails, Abandon, RollBack, Forget
    <2>2. pc' \in [Calls -> {"start"} \cup Open \cup Ended]
        BY <1>2, <1>4 DEF Quit, Refuse, Fails, Abandon, RollBack
    <2>3. got' \in [Calls -> SUBSET Messages] /\ listed' \in [Calls -> SUBSET Messages]
        BY <1>4 DEF Quit, Refuse, Fails, Abandon, RollBack
    <2>. QED BY <1>4, <2>1, <2>2, <2>3 DEF Quit, Refuse, Fails, Abandon, RollBack, rows
<1>. QED BY <1>3, <1>4

LEMMA TypeStep ==
    ASSUME IInv, NEW t \in Calls, Step(t)
    PROVE  TypeOK'
<1>1. \A s \in Creates : IsFiniteSet(messages[s]) BY DEF IInv, RowsOk
<1>. QED BY <1>1, TypeStepStart, TypeStepList, TypeStepWrite, TypeStepEnd
         DEF IInv, Step, Proceed, Settle, Quit
-----------------------------------------------------------------------------
(* Labels, and what a transaction has written at each.                     *)

LEMMA KindsStep ==
    ASSUME IInv, NEW t \in Calls, Step(t)
    PROVE  KindsOk'
<1> DEFINE K(o, l) == /\ l \in {"insert_first", "increment_first"} => o \in Creates
                      /\ l \in TurnLabels => o \in Turns
                      /\ l = "delete" => o \in Deletes
                      /\ l \in {"count", "select"} => o \in Turns \cup Reads
                      /\ l = "commit" => o \notin Reads
<1>0. TypeOK BY DEF IInv
<1> SUFFICES K(t, pc'[t])
    <2>1. \A o \in Calls : o # t => pc'[o] = pc[o] BY <1>0, OwnState
    <2>. QED BY <2>1 DEF IInv, KindsOk
<1>1. K(t, pc[t]) BY DEF IInv, KindsOk
<1> USE <1>0 DEF TypeOK, Goto, TurnLabels
<1>2. CASE Find(t) \/ FindForDelete(t) \/ Miss(t) \/ InsertSession(t)
    BY <1>2, Kinds DEF Find, FindForDelete, Miss, InsertSession
<1>3. CASE CountMessages(t) \/ SelectPage(t) \/ Think(t)
    BY <1>1, <1>3 DEF CountMessages, SelectPage, Think
<1>4. CASE InsertUser(t) \/ InsertAssistant(t) \/ InsertFirst(t)
    BY <1>1, <1>4 DEF InsertUser, InsertAssistant, InsertFirst, Insert
<1>5. CASE Increment(t) \/ Delete(t)
    BY <1>1, <1>5, Kinds DEF Increment, Delete
<1>6. CASE Settle(t) \/ Quit(t)
    BY <1>6 DEF Settle, Commit, CommitLost, Quit, Refuse, Fails, Abandon, RollBack, Failure,
                Success
<1>. QED BY <1>2, <1>3, <1>4, <1>5, <1>6 DEF Step, Proceed, Settle, Quit

LEMMA WorkStep ==
    ASSUME IInv, NEW t \in Calls, Step(t)
    PROVE  WorkOk'
<1>0. TypeOK /\ WorkOf(t) /\ KindsOk BY DEF IInv, WorkOk
<1> SUFFICES WorkOf(t)'
    <2>1. ASSUME NEW o \in Calls, o # t PROVE WorkOf(o)'
        <3>1. /\ pc'[o] = pc[o] /\ flushed'[o] = flushed[o] /\ adds'[o] = adds[o]
              /\ o \in deleting' <=> o \in deleting
            BY <1>0, <2>1, OwnState
        <3>. QED BY <3>1 DEF IInv, WorkOk, WorkOf
    <2>. QED BY <2>1 DEF WorkOk
<1> USE <1>0 DEF TypeOK, Goto, WorkOf, Writing
<1>1. CASE Find(t) \/ FindForDelete(t) \/ Miss(t) \/ InsertSession(t)
    <2>1. pc[t] = "start" /\ UNCHANGED work
        BY <1>1 DEF Find, FindForDelete, Miss, InsertSession, Begin
    <2>2. pc'[t] \notin Writing \/ (pc'[t] = "commit" /\ t \in Creates)
        <3>1. CASE Find(t) BY <3>1 DEF Find
        <3>2. CASE FindForDelete(t) \/ Miss(t) BY <3>2 DEF FindForDelete, Miss
        <3>3. CASE InsertSession(t) BY <3>3 DEF InsertSession
        <3>. QED BY <1>1, <3>1, <3>2, <3>3
    <2>3. flushed[t] = {} /\ adds[t] = 0 /\ t \notin deleting BY <2>1
    <2>4. flushed'[t] = {} /\ adds'[t] = 0 /\ t \notin deleting' BY <2>1, <2>3 DEF work
    <2>. QED BY <2>2, <2>4, Kinds
<1>2. CASE CountMessages(t) \/ SelectPage(t) \/ Think(t)
    BY <1>2 DEF CountMessages, SelectPage, Think, work
<1>3. CASE InsertUser(t) \/ InsertAssistant(t) \/ InsertFirst(t)
    <2>1. CASE InsertUser(t) \/ InsertFirst(t)
        BY <1>3, <2>1 DEF InsertUser, InsertFirst, Insert, L!First
    <2>2. CASE InsertAssistant(t)
        <3>1. pc[t] = "insert_assistant" /\ pc'[t] = "increment_assistant"
            BY <2>2 DEF InsertAssistant, Insert
        <3>2. flushed'[t] = L!First(t) \cup {<<t, "assistant">>}
            BY <2>2, <3>1 DEF InsertAssistant, Insert
        <3>3. adds'[t] = 1 /\ deleting' = deleting
            BY <2>2, <3>1 DEF InsertAssistant, Insert
        <3>. QED BY <3>1, <3>2, <3>3, FirstAndBoth
    <2>. QED BY <1>3, <2>1, <2>2
<1>4. CASE Increment(t)
    <2>1. flushed'[t] = flushed[t] /\ adds'[t] = adds[t] + 1 /\ deleting' = deleting
        BY <1>4 DEF Increment
    <2>2. CASE pc[t] = "increment_user"
        BY <1>4, <2>1, <2>2 DEF Increment
    <2>3. CASE pc[t] = "increment_assistant"
        BY <1>4, <2>1, <2>3, Kinds DEF Increment, KindsOk, TurnLabels
    <2>4. CASE pc[t] = "increment_first"
        BY <1>4, <2>1, <2>4, Kinds DEF Increment, KindsOk
    <2>. QED BY <1>4, <2>2, <2>3, <2>4 DEF Increment
<1>5. CASE Delete(t)
    BY <1>5, Kinds DEF Delete, KindsOk
<1>6. CASE Settle(t) \/ Quit(t)
    <2>1. Forget(t) /\ pc'[t] \in Ended
        BY <1>6 DEF Settle, Commit, CommitLost, Quit, Refuse, Fails, Abandon, RollBack, Failure,
                    Success, Ended
    <2>. QED BY <2>1 DEF Forget, Ended
<1>. QED BY <1>1, <1>2, <1>3, <1>4, <1>5, <1>6 DEF Step, Proceed, Settle, Quit
-----------------------------------------------------------------------------
(* Rows: what a commit does, by the kind of call.                          *)

Removes(t) ==
    LET s == SessionOf[t] IN
    /\ t \in deleting /\ t \in Deletes /\ session[s] = "open"
    /\ session' = [session EXCEPT ![s] = "gone"]
    /\ messages' = [messages EXCEPT ![s] = {}]
    /\ count' = [count EXCEPT ![s] = 0]
    /\ removed' = [removed EXCEPT ![t] = messages[s]]

Appends(t) ==
    LET s == SessionOf[t] IN
    /\ t \in Turns /\ session[s] = "open"
    /\ session' = session
    /\ messages' = [messages EXCEPT ![s] = @ \cup L!Both(t)]
    /\ count' = [count EXCEPT ![s] = @ + 2]
    /\ removed' = removed

Opens(t) ==
    /\ t \in Creates /\ session[t] = "none"
    /\ session' = [session EXCEPT ![t] = "open"]
    /\ \/ messages' = messages /\ count' = count
       \/ /\ messages' = [messages EXCEPT ![t] = L!First(t)]
          /\ count' = [count EXCEPT ![t] = 1]
    /\ removed' = removed

DoesNothing(t) ==
    t \in Deletes /\ t \notin deleting /\ UNCHANGED rows /\ removed' = removed

LEMMA SettleCases ==
    ASSUME IInv, NEW t \in Calls, Settle(t)
    PROVE  Removes(t) \/ Appends(t) \/ Opens(t) \/ DoesNothing(t)
<1>1. TypeOK /\ KindsOk /\ WorkOf(t) /\ RowsOk /\ LocksOk BY DEF IInv, WorkOk
<1>2. pc[t] = "commit" /\ Apply(t) BY DEF Settle, Commit, CommitLost
<1>3. SessionOf[t] \in Creates /\ t \notin Reads BY <1>1, <1>2, Kinds DEF KindsOk
<1>4. CASE t \in deleting
    <2>1. t \in Deletes /\ session[SessionOf[t]] = "open" BY <1>1, <1>4 DEF WorkOf, LocksOk
    <2>. QED BY <1>2, <1>4, <2>1 DEF Apply, Removes
<1>5. CASE t \notin deleting
    <2> DEFINE s == SessionOf[t]
    <2>1. /\ session' = IF t \in Creates THEN [session EXCEPT ![s] = "open"] ELSE session
          /\ messages' = [messages EXCEPT ![s] = @ \cup flushed[t]]
          /\ count' = [count EXCEPT ![s] = @ + adds[t]]
          /\ removed' = removed
        BY <1>2, <1>5 DEF Apply
    <2>2. CASE t \in Turns
        <3>1. flushed[t] = L!Both(t) /\ adds[t] = 2 BY <1>1, <1>2, <2>2 DEF WorkOf
        <3>2. session[s] = "open" BY <1>1, <2>2, <3>1, FirstAndBoth DEF LocksOk
        <3>3. session' = session BY <2>1, <2>2, Kinds
        <3>. QED BY <2>1, <2>2, <3>1, <3>2, <3>3 DEF Appends
    <2>3. CASE t \in Creates
        <3>1. s = t /\ pc[t] \notin Ended BY <1>2, <2>3, Kinds DEF Ended
        <3>2. session[t] = "none" BY <1>1, <2>3, <3>1 DEF RowsOk
        <3>3. messages[t] = {} /\ count[t] = 0 BY <1>1, <2>3, <3>2 DEF RowsOk
        <3>4. CASE flushed[t] = {} /\ adds[t] = 0
            <4>1. messages' = messages BY <1>1, <2>1, <3>1, <3>3, <3>4 DEF TypeOK
            <4>2. count' = count BY <1>1, <2>1, <3>1, <3>3, <3>4 DEF TypeOK
            <4>. QED BY <2>1, <2>3, <3>1, <3>2, <4>1, <4>2 DEF Opens
        <3>5. CASE flushed[t] = L!First(t) /\ adds[t] = 1
            <4>1. messages' = [messages EXCEPT ![t] = L!First(t)]
                BY <2>1, <3>1, <3>3, <3>5
            <4>2. count' = [count EXCEPT ![t] = 1] BY <2>1, <3>1, <3>3, <3>5
            <4>. QED BY <2>1, <2>3, <3>1, <3>2, <4>1, <4>2 DEF Opens
        <3>. QED BY <1>1, <1>2, <2>3, <3>4, <3>5 DEF WorkOf
    <2>4. CASE t \in Deletes
        <3>1. flushed[t] = {} /\ adds[t] = 0 BY <1>1, <1>2, <2>4 DEF WorkOf
        <3>2. t \notin Creates BY <2>4, Kinds
        <3>3. messages' = messages BY <1>1, <1>3, <2>1, <3>1 DEF TypeOK
        <3>4. count' = count
            <4>1. count[s] + adds[t] = count[s] BY <1>1, <1>3, <3>1 DEF TypeOK
            <4>. QED BY <1>1, <1>3, <2>1, <4>1 DEF TypeOK
        <3>. QED BY <1>5, <2>1, <2>4, <3>2, <3>3, <3>4 DEF DoesNothing, rows
    <2>. QED BY <1>3, <2>2, <2>3, <2>4, Kinds
<1>. QED BY <1>4, <1>5

\* A call that commits is over.
LEMMA SettleEnds ==
    ASSUME TypeOK, NEW t \in Calls, Settle(t)
    PROVE  pc[t] = "commit" /\ pc'[t] \in Ended /\ pc'[t] \in {Success(t), Failure(t)}
BY DEF Settle, Commit, CommitLost, Goto, TypeOK, Success, Failure, Ended
\* A turn that is not there yet makes a session two messages longer.
LEMMA TurnCounts ==
    ASSUME NEW M, NEW t, IsFiniteSet(M), L!Both(t) \cap M = {}
    PROVE  /\ IsFiniteSet(M \cup L!Both(t))
           /\ Cardinality(M \cup L!Both(t)) = Cardinality(M) + 2
<1> DEFINE N == M \cup {<<t, "user">>}
<1>1. <<t, "user">> \notin M /\ <<t, "assistant">> \notin N BY DEF L!Both
<1>2. IsFiniteSet(N) /\ Cardinality(N) = Cardinality(M) + 1 BY <1>1, FS_AddElement
<1>3. /\ IsFiniteSet(N \cup {<<t, "assistant">>})
      /\ Cardinality(N \cup {<<t, "assistant">>}) = Cardinality(N) + 1
    BY <1>1, <1>2, FS_AddElement
<1>4. M \cup L!Both(t) = N \cup {<<t, "assistant">>} BY DEF L!Both
<1>5. Cardinality(M) \in Nat BY FS_CardinalityType
<1> HIDE DEF N
<1>6. Cardinality(N) + 1 = Cardinality(M) + 2 BY <1>2, <1>5
<1>. QED BY <1>3, <1>4, <1>6

LEMMA FirstCounts ==
    ASSUME NEW t
    PROVE  IsFiniteSet(L!First(t)) /\ Cardinality(L!First(t)) = 1
BY FS_Singleton DEF L!First

\* A turn that commits is new.
LEMMA TurnIsNew ==
    ASSUME IInv, NEW t \in Calls, pc[t] \notin Ended
    PROVE  \A s \in Creates : L!Both(t) \cap messages[s] = {}
BY DEF IInv, RowsOk, L!Both

LEMMA RowsStep ==
    ASSUME IInv, NEW t \in Calls, Step(t)
    PROVE  RowsOk' /\ CountIsRight'
<1>1. TypeOK /\ RowsOk /\ CountIsRight BY DEF IInv
<1>2. pc[t] \notin Ended BY <1>1, OverIsOver
<1>3. \A o \in Calls : pc[o] \in Ended => pc'[o] \in Ended BY <1>1, <1>2, OwnState
<1>4. \A s \in Creates : SessionOf[s] = s /\ s \in Calls BY Kinds
<1> SUFFICES ASSUME NEW s \in Creates
             PROVE  /\ session'[s] # "open" => messages'[s] = {} /\ count'[s] = 0
                    /\ pc'[s] \notin Ended => session'[s] = "none"
                    /\ IsFiniteSet(messages'[s])
                    /\ \A m \in messages'[s] : /\ m[1] \in Creates \cup Turns
                                               /\ SessionOf[m[1]] = s
                                               /\ pc'[m[1]] \in Ended
                    /\ count'[s] = Cardinality(messages'[s])
    BY DEF RowsOk, CountIsRight
<1>5. /\ session[s] # "open" => messages[s] = {} /\ count[s] = 0
      /\ pc[s] \notin Ended => session[s] = "none"
      /\ IsFiniteSet(messages[s])
      /\ \A m \in messages[s] : /\ m[1] \in Creates \cup Turns /\ SessionOf[m[1]] = s
                                /\ pc[m[1]] \in Ended
      /\ count[s] = Cardinality(messages[s])
    BY <1>1 DEF RowsOk, CountIsRight
<1>6. \A m \in messages[s] : /\ m[1] \in Creates \cup Turns /\ SessionOf[m[1]] = s
                             /\ pc'[m[1]] \in Ended
    BY <1>3, <1>5, Kinds
<1>7. CASE /\ session'[s] = session[s] /\ messages'[s] = messages[s] /\ count'[s] = count[s]
    BY <1>3, <1>4, <1>5, <1>6, <1>7
<1>8. CASE Settle(t)
    <2>1. pc[t] = "commit" /\ pc'[t] \in Ended BY <1>1, <1>8, SettleEnds
    <2>2. SessionOf[t] \in Creates BY Kinds
    <2>3. CASE Removes(t) /\ s = SessionOf[t]
        <3>1. session'[s] = "gone" /\ messages'[s] = {} /\ count'[s] = 0
            BY <1>1, <2>2, <2>3 DEF Removes, TypeOK
        <3>2. pc'[s] \in Ended
            <4>1. session[s] = "open" BY <2>3 DEF Removes
            <4>. QED BY <1>3, <1>4, <1>5, <4>1
        <3>. QED BY <3>1, <3>2, FS_EmptySet
    <2>4. CASE Appends(t) /\ s = SessionOf[t]
        <3>1. /\ session'[s] = "open" /\ messages'[s] = messages[s] \cup L!Both(t)
              /\ count'[s] = count[s] + 2
            BY <1>1, <2>2, <2>4 DEF Appends, TypeOK
        <3>2. /\ IsFiniteSet(messages'[s])
              /\ Cardinality(messages'[s]) = Cardinality(messages[s]) + 2
            BY <1>2, <1>5, <3>1, TurnIsNew, TurnCounts
        <3>3. \A m \in L!Both(t) : m[1] = t BY DEF L!Both
        <3>4. t \in Turns /\ session[s] = "open" BY <2>4 DEF Appends
        <3>5. \A m \in messages'[s] : /\ m[1] \in Creates \cup Turns /\ SessionOf[m[1]] = s
                                      /\ pc'[m[1]] \in Ended
            BY <1>6, <2>1, <2>4, <3>1, <3>3, <3>4
        <3>6. pc'[s] \in Ended BY <1>3, <1>4, <1>5, <3>4
        <3>. QED BY <1>5, <3>1, <3>2, <3>5, <3>6
    <2>5. CASE Opens(t) /\ s = t
        <3>1. session'[s] = "open" /\ session[s] = "none" BY <1>1, <2>5 DEF Opens, TypeOK
        <3>2. CASE messages'[s] = messages[s] /\ count'[s] = count[s]
            BY <1>4, <1>5, <1>6, <2>1, <2>5, <3>1, <3>2
        <3>3. CASE messages'[s] = L!First(s) /\ count'[s] = 1
            <4>1. \A m \in L!First(s) : m[1] = s BY DEF L!First
            <4>. QED BY <1>4, <2>1, <2>5, <3>1, <3>3, <4>1, FirstCounts
        <3>. QED BY <1>1, <2>5, <3>2, <3>3 DEF Opens, TypeOK
    <2>6. CASE DoesNothing(t) BY <1>7, <2>6 DEF DoesNothing, rows
    <2>7. CASE s # SessionOf[t]
        <3>1. session'[s] = session[s] /\ messages'[s] = messages[s] /\ count'[s] = count[s]
            BY <1>1, <1>4, <1>8, <2>7, SettleCases
            DEF Removes, Appends, Opens, DoesNothing, TypeOK, rows
        <3>. QED BY <1>7, <3>1
    <2>. QED BY <1>4, <1>8, <2>3, <2>4, <2>5, <2>6, <2>7, SettleCases DEF Opens
<1>9. CASE ~Settle(t) BY <1>1, <1>7, <1>9, RowsChangeByCommit DEF rows
<1>. QED BY <1>8, <1>9
-----------------------------------------------------------------------------
(* Row locks, and what deletions report.                                   *)

LEMMA OthersSymmetric ==
    \A t, o \in Calls : o \in Others(t) <=> (o # t /\ SessionOf[o] = SessionOf[t])
BY DEF Others

LEMMA LocksStep ==
    ASSUME IInv, NEW t \in Calls, Step(t)
    PROVE  LocksOk'
<1>1. TypeOK /\ LocksOk /\ WorkOf(t) /\ KindsOk BY DEF IInv, WorkOk
<1>2. deleting \subseteq Calls BY <1>1, Kinds DEF TypeOK
<1>3. \A o \in Calls : o # t => /\ flushed'[o] = flushed[o] /\ adds'[o] = adds[o]
                                /\ o \in deleting' <=> o \in deleting
    BY <1>1, OwnState
<1>4. \A d, o : o \in Others(d) => o \in Calls /\ o # d /\ SessionOf[o] = SessionOf[d]
    BY DEF Others
<1>5. CASE Find(t) \/ FindForDelete(t) \/ Miss(t) \/ InsertSession(t)
    <2>1. UNCHANGED <<rows, work>> BY <1>5 DEF Find, FindForDelete, Miss, InsertSession
    <2>. QED BY <1>1, <2>1 DEF LocksOk, rows, work
<1>6. CASE CountMessages(t) \/ SelectPage(t) \/ Think(t)
    <2>1. UNCHANGED <<rows, work>> BY <1>6 DEF CountMessages, SelectPage, Think
    <2>. QED BY <1>1, <2>1 DEF LocksOk, rows, work
<1>7. CASE InsertUser(t) \/ InsertAssistant(t) \/ InsertFirst(t)
    <2>1. /\ MayInsert(t) /\ (t \in Turns => session[SessionOf[t]] = "open")
          /\ UNCHANGED <<session, adds, deleting>> /\ pc[t] # "commit"
        BY <1>7 DEF InsertUser, InsertAssistant, InsertFirst, Insert, rows
    <2>2. t \notin deleting BY <1>1, <2>1 DEF WorkOf
    <2>3. \A d \in deleting : t \notin Others(d)
        BY <1>2, <1>4, <2>1 DEF MayInsert, Others
    <2>4. \A d \in deleting : \A o \in Others(d) : o # t BY <2>3
    <2>. QED BY <1>1, <1>3, <1>4, <2>1, <2>4, Kinds DEF LocksOk
<1>8. CASE Increment(t)
    <2>1. MayUpdate(t) /\ UNCHANGED <<session, flushed, deleting>>
        BY <1>8 DEF Increment, rows
    <2>2. \A d \in deleting : \A o \in Others(d) : o # t
        BY <1>2, <1>4, <2>1 DEF MayUpdate, Others
    <2>. QED BY <1>1, <1>3, <1>4, <2>1, <2>2 DEF LocksOk
<1>9. CASE Delete(t)
    <2>1. MayDelete(t) /\ UNCHANGED <<session, flushed, adds>> BY <1>9 DEF Delete, rows
    <2>2. \A d \in deleting : \A o \in Others(d) : o # t
        BY <1>2, <1>4, <2>1 DEF MayDelete, Others
    <2>3. deleting' = deleting \/ (deleting' = deleting \cup {t} /\ session[SessionOf[t]] = "open")
        BY <1>9 DEF Delete
    <2>4. t \notin Others(t) BY <1>4
    <2>. QED BY <1>1, <1>3, <1>4, <2>1, <2>2, <2>3, <2>4 DEF LocksOk, MayDelete
<1>10. CASE Quit(t)
    <2>1. UNCHANGED session /\ Forget(t) BY <1>10 DEF Quit, Refuse, Fails, Abandon, RollBack, rows
    <2>2. flushed'[t] = {} /\ adds'[t] = 0 /\ deleting' = deleting \ {t}
        BY <1>1, <2>1 DEF Forget, TypeOK
    <2>. QED BY <1>1, <1>3, <1>4, <2>1, <2>2, Kinds DEF LocksOk
<1>11. CASE Settle(t)
    <2>1. Forget(t) BY <1>11 DEF Settle, Commit, CommitLost
    <2>2. flushed'[t] = {} /\ adds'[t] = 0 /\ deleting' = deleting \ {t}
        BY <1>1, <2>1 DEF Forget, TypeOK
    <2>3. ASSUME NEW o \in Calls, o # t, o \in deleting \/ (o \in Turns /\ flushed[o] # {}),
                 session[SessionOf[o]] = "open"
          PROVE  session'[SessionOf[o]] = "open"
        <3>1. SessionOf[o] \in Creates /\ SessionOf[t] \in Creates BY Kinds
        <3>2. CASE Removes(t)
            <4>1. o \notin Others(t) BY <1>1, <2>3, <3>2 DEF LocksOk, Removes
            <4>2. SessionOf[o] # SessionOf[t] BY <2>3, <4>1, OthersSymmetric
            <4>. QED BY <1>1, <2>3, <3>1, <3>2, <4>2 DEF Removes, TypeOK
        <3>3. CASE Appends(t) BY <2>3, <3>3 DEF Appends
        <3>4. CASE Opens(t) BY <1>1, <2>3, <3>1, <3>4 DEF Opens, TypeOK
        <3>5. CASE DoesNothing(t) BY <2>3, <3>5 DEF DoesNothing, rows
        <3>. QED BY <1>11, <3>2, <3>3, <3>4, <3>5, SettleCases
    <2>4. \A d \in deleting' : d \in deleting /\ d # t /\ d \in Calls BY <1>2, <2>2
    <2>5. \A d \in deleting' : session'[SessionOf[d]] = "open"
        BY <1>1, <2>3, <2>4 DEF LocksOk
    <2>6. \A d \in deleting' : \A o \in Others(d) : flushed'[o] = {} /\ adds'[o] = 0 /\ o \notin deleting'
        BY <1>1, <1>3, <1>4, <2>2, <2>4 DEF LocksOk
    <2>7. \A u \in Turns : flushed'[u] # {} => session'[SessionOf[u]] = "open"
        BY <1>1, <1>3, <2>2, <2>3, Kinds DEF LocksOk
    <2>. QED BY <2>5, <2>6, <2>7 DEF LocksOk
<1>. QED BY <1>5, <1>6, <1>7, <1>8, <1>9, <1>10, <1>11 DEF Step, Proceed, Settle, Quit

\* What has been removed stays removed.
LEMMA GoneStays ==
    ASSUME IInv, NEW t \in Calls, Step(t), NEW d \in Deletes, Gone(d), counted'[d] = counted[d]
    PROVE  Gone(d)'
<1>1. TypeOK /\ ReportsOk BY DEF IInv
<1>2. PICK o \in Deletes : /\ SessionOf[o] = SessionOf[d] /\ removed[o] # NULL
                           /\ counted[d] \subseteq removed[o]
    BY DEF Gone
<1>3. o # t BY <1>1, <1>2, OverIsOver DEF ReportsOk
<1>4. removed'[o] = removed[o] BY <1>1, <1>3, OwnState, Kinds
<1>. QED BY <1>2, <1>4 DEF Gone

\* What a deletion has counted stays, or is removed.
LEMMA KeptOrGoneStays ==
    ASSUME IInv, NEW t \in Calls, Step(t), NEW d \in Deletes, Kept(d) \/ Gone(d),
           counted'[d] = counted[d]
    PROVE  /\ Kept(d)' \/ Gone(d)'
           /\ Removes(t) /\ SessionOf[t] = SessionOf[d] => Gone(d)'
<1>1. TypeOK BY DEF IInv
<1>2. SessionOf[d] \in Creates /\ SessionOf[t] \in Creates BY Kinds
<1>3. CASE Gone(d) BY <1>3, GoneStays
<1>4. CASE Kept(d)
    <2>1. session[SessionOf[d]] = "open" /\ counted[d] \subseteq messages[SessionOf[d]]
        BY <1>4 DEF Kept
    <2>2. CASE UNCHANGED rows /\ ~Removes(t) BY <2>1, <2>2 DEF Kept, rows
    <2>3. CASE Removes(t) /\ SessionOf[t] = SessionOf[d]
        <3>1. t \in Deletes /\ removed'[t] = messages[SessionOf[d]]
            BY <1>1, <2>3 DEF Removes, TypeOK
        <3>2. messages[SessionOf[d]] # NULL
            BY <1>1, <1>2, ChatAssumption DEF ChatAssumption, TypeOK, Messages, Roles
        <3>3. Gone(d)' BY <2>1, <2>3, <3>1, <3>2 DEF Gone
        <3>. QED BY <3>3
    <2>4. CASE Removes(t) /\ SessionOf[t] # SessionOf[d]
        BY <1>1, <1>2, <2>1, <2>4 DEF Removes, TypeOK, Kept
    <2>5. CASE Appends(t)
        <3>1. ~Removes(t) BY <2>5, Kinds DEF Appends, Removes
        <3>. QED BY <1>1, <1>2, <2>1, <2>5, <3>1 DEF Appends, TypeOK, Kept
    <2>6. CASE Opens(t)
        <3>1. ~Removes(t) /\ t # SessionOf[d] BY <2>1, <2>6, Kinds DEF Opens, Removes
        <3>. QED BY <1>1, <1>2, <2>1, <2>6, <3>1 DEF Opens, TypeOK, Kept
    <2>7. CASE DoesNothing(t) BY <2>2, <2>7 DEF DoesNothing, Removes
    <2>8. CASE ~Settle(t)
        <3>1. UNCHANGED rows BY <1>1, <2>8, RowsChangeByCommit
        <3>2. ~Removes(t) BY <1>1, <1>2, <3>1 DEF Removes, TypeOK, rows
        <3>. QED BY <2>2, <3>1, <3>2
    <2>. QED BY <2>3, <2>4, <2>5, <2>6, <2>7, <2>8, SettleCases
<1>. QED BY <1>3, <1>4
LEMMA ReportsStep ==
    ASSUME IInv, NEW t \in Calls, Step(t)
    PROVE  ReportsOk'
<1>1. TypeOK /\ KindsOk /\ ReportsOk /\ CountIsRight BY DEF IInv
<1>2. pc[t] \notin Ended BY <1>1, OverIsOver
<1> DEFINE R(d) == /\ pc[d] \in {"delete", "commit", "deleted"} => seen[d] = Cardinality(counted[d])
                   /\ pc[d] \in {"delete", "commit"} => Kept(d) \/ Gone(d)
                   /\ pc[d] = "commit" /\ d \notin deleting => Gone(d)
                   /\ pc[d] = "deleted" => Gone(d)
                   /\ removed[d] # NULL => pc[d] \in Ended
<1>3. \A d \in Deletes : R(d) BY <1>1 DEF ReportsOk
<1> SUFFICES ASSUME NEW d \in Deletes PROVE R(d)' BY DEF ReportsOk
<1>4. R(d) BY <1>3
<1>5. d \in Calls /\ SessionOf[d] \in Creates BY Kinds
<1>6. CASE d # t
    <2>1. /\ pc'[d] = pc[d] /\ seen'[d] = seen[d] /\ counted'[d] = counted[d]
          /\ removed'[d] = removed[d] /\ (d \in deleting' <=> d \in deleting)
        BY <1>1, <1>5, <1>6, OwnState
    <2>2. Gone(d) => Gone(d)' BY <2>1, GoneStays
    <2>3. Kept(d) \/ Gone(d) => Kept(d)' \/ Gone(d)' BY <2>1, KeptOrGoneStays
    <2>. QED BY <1>4, <2>1, <2>2, <2>3
<1>7. CASE d = t
    <2>1. t \in Deletes /\ t \notin Turns /\ t \notin Creates /\ t \notin Reads BY <1>7, Kinds
    <2>2. removed[t] = NULL BY <1>2, <1>4, <1>7
    <2>3. CASE FindForDelete(t)
        <3>1. pc'[t] = "delete" /\ removed' = removed /\ UNCHANGED rows
            BY <1>1, <2>3 DEF FindForDelete, Goto, TypeOK
        <3>2. seen'[t] = count[SessionOf[t]] /\ counted'[t] = messages[SessionOf[t]]
            BY <1>1, <2>1, <2>3 DEF FindForDelete, TypeOK
        <3>3. seen'[t] = Cardinality(counted'[t]) BY <1>1, <1>5, <1>7, <3>2 DEF CountIsRight
        <3>4. Kept(t)' BY <2>3, <3>1, <3>2 DEF FindForDelete, Kept, rows
        <3>. QED BY <1>7, <2>2, <3>1, <3>3, <3>4
    <2>4. CASE Miss(t)
        <3>1. pc'[t] = "not_found" /\ removed' = removed
            BY <1>1, <2>4 DEF Miss, Goto, TypeOK, past
        <3>. QED BY <1>7, <2>2, <3>1
    <2>5. CASE Delete(t)
        <3>1. /\ pc[t] = "delete" /\ pc'[t] = "commit" /\ UNCHANGED <<seen, counted, removed>>
              /\ UNCHANGED rows
            BY <1>1, <2>5 DEF Delete, Goto, TypeOK, locals, past
        <3>2. seen'[t] = Cardinality(counted'[t]) BY <1>4, <1>7, <3>1
        <3>3. Kept(t)' \/ Gone(t)' BY <1>4, <1>7, <3>1 DEF Kept, Gone, rows
        <3>4. t \notin deleting' => session[SessionOf[t]] # "open" BY <2>5 DEF Delete
        <3>5. t \notin deleting' => Gone(t)' BY <3>1, <3>3, <3>4 DEF Kept, rows
        <3>. QED BY <1>7, <2>2, <3>1, <3>2, <3>3, <3>5
    <2>6. CASE Settle(t)
        <3>1. pc[t] = "commit" /\ pc'[t] \in Ended BY <1>1, <2>6, SettleEnds
        <3>2. UNCHANGED <<seen, counted>> BY <2>6 DEF Settle, Commit, CommitLost, locals
        <3>3. Gone(t)'
            <4>1. CASE Removes(t) BY <1>4, <1>7, <2>1, <3>1, <3>2, <4>1, KeptOrGoneStays
            <4>2. CASE DoesNothing(t)
                <5>1. Gone(t) BY <1>4, <1>7, <3>1, <4>2 DEF DoesNothing
                <5>. QED BY <2>1, <3>2, <5>1, GoneStays
            <4>. QED BY <2>1, <2>6, <4>1, <4>2, SettleCases DEF Appends, Opens
        <3>. QED BY <1>4, <1>7, <3>1, <3>2, <3>3 DEF Ended
    <2>7. CASE Quit(t)
        <3>1. pc'[t] = "failed" /\ UNCHANGED removed
            BY <1>1, <2>1, <2>7
            DEF Quit, Refuse, Fails, Abandon, RollBack, Goto, TypeOK, Failure, Turns
        <3>. QED BY <1>7, <2>2, <3>1
    <2>8. CASE CountMessages(t) \/ SelectPage(t) \/ Think(t)
        BY <1>1, <2>1, <2>8, Kinds DEF CountMessages, SelectPage, Think, KindsOk, TurnLabels
    <2>9. CASE InsertUser(t) \/ InsertAssistant(t) \/ InsertFirst(t)
        BY <1>1, <2>1, <2>9
        DEF InsertUser, InsertAssistant, InsertFirst, Insert, KindsOk, TurnLabels
    <2>10. CASE Increment(t) BY <1>1, <2>1, <2>10 DEF Increment, KindsOk, TurnLabels
    <2>11. CASE Find(t) \/ InsertSession(t) BY <2>1, <2>11 DEF Find, InsertSession
    <2>. QED BY <2>3, <2>4, <2>5, <2>6, <2>7, <2>8, <2>9, <2>10, <2>11
         DEF Step, Proceed, Settle, Quit
<1>. QED BY <1>6, <1>7

-----------------------------------------------------------------------------
(* The invariant holds always.                                             *)

LEMMA IInvInit == Init => IInv
<1> SUFFICES ASSUME Init PROVE IInv OBVIOUS
<1>1. TypeOK BY TypeInit
<1>2. KindsOk BY DEF Init, KindsOk, TurnLabels
<1>3. WorkOk BY DEF Init, WorkOk, WorkOf, Writing
<1>4. RowsOk BY FS_EmptySet DEF Init, RowsOk
<1>5. LocksOk BY Kinds DEF Init, LocksOk
<1>6. CountIsRight BY FS_EmptySet DEF Init, CountIsRight
<1>7. ReportsOk BY Kinds DEF Init, ReportsOk
<1>. QED BY <1>1, <1>2, <1>3, <1>4, <1>5, <1>6, <1>7 DEF IInv

\* The strengthened invariant is inductive.
THEOREM InductiveInvariant == Spec => []IInv
<1>1. Init => IInv BY IInvInit
<1>2. IInv /\ [Next]_vars => IInv'
    <2>1. ASSUME IInv, NEW t \in Calls, Step(t) PROVE IInv'
        BY <2>1, TypeStep, KindsStep, WorkStep, RowsStep, LocksStep, ReportsStep DEF IInv
    <2>2. ASSUME IInv, UNCHANGED vars PROVE IInv'
        BY <2>2 DEF vars, IInv, TypeOK, KindsOk, WorkOk, WorkOf, RowsOk, LocksOk, CountIsRight,
                    ReportsOk, Kept, Gone, Others
    <2>. QED BY <2>1, <2>2 DEF Next
<1>. QED BY <1>1, <1>2, PTL DEF Spec

\* Type correctness.
THEOREM ChatTypeOK == Spec => []TypeOK
<1>1. IInv => TypeOK BY DEF IInv
<1>. QED BY <1>1, InductiveInvariant, PTL

\* message_count is the number of messages, whatever overlaps, fails or is
\* abandoned.
THEOREM CountTheorem == Spec => []CountIsRight
<1>1. IInv => CountIsRight BY DEF IInv
<1>. QED BY <1>1, InductiveInvariant, PTL

\* What a deletion reports is gone, and was as many messages as it says.
THEOREM ReportsTheorem == Spec => []ReportsAreRemoved
<1>1. IInv => ReportsAreRemoved BY DEF IInv, ReportsOk, ReportsAreRemoved, Gone
<1>. QED BY <1>1, InductiveInvariant, PTL

-----------------------------------------------------------------------------
(* Histories.                                                              *)

\* A history grows until it is deleted, and a deleted one stays empty.
LEMMA HistoryGrows ==
    ASSUME IInv, NEW t \in Calls, Step(t), NEW s \in Creates
    PROVE  \/ session'[s] = "gone" /\ messages'[s] = {}
           \/ /\ session[s] # "gone" /\ session'[s] # "gone"
              /\ messages[s] \subseteq messages'[s]
<1>1. TypeOK /\ RowsOk BY DEF IInv
<1>2. session[s] # "open" => messages[s] = {} BY <1>1 DEF RowsOk
<1>3. CASE session'[s] = session[s] /\ messages'[s] = messages[s] BY <1>2, <1>3
<1>4. CASE Settle(t)
    <2>1. SessionOf[t] \in Creates /\ (t \in Creates => SessionOf[t] = t) BY Kinds
    <2>2. CASE Removes(t) BY <1>1, <1>3, <2>1, <2>2 DEF Removes, TypeOK
    <2>3. CASE Appends(t) BY <1>1, <1>3, <2>1, <2>3 DEF Appends, TypeOK
    <2>4. CASE Opens(t)
        <3>1. s # t => session'[s] = session[s] /\ messages'[s] = messages[s]
            BY <1>1, <2>4 DEF Opens, TypeOK
        <3>2. s = t => session[s] = "none" /\ session'[s] = "open"
            BY <1>1, <2>4 DEF Opens, TypeOK
        <3>. QED BY <1>2, <1>3, <3>1, <3>2
    <2>5. CASE DoesNothing(t) BY <1>3, <2>5 DEF DoesNothing, rows
    <2>. QED BY <1>4, <2>2, <2>3, <2>4, <2>5, SettleCases
<1>5. CASE ~Settle(t) BY <1>1, <1>3, <1>5, RowsChangeByCommit DEF rows
<1>. QED BY <1>4, <1>5

-----------------------------------------------------------------------------
(* Row locks do not form a circle.                                         *)

\* Of the calls of one session, one at most has raised message_count.
OneUpdater == \A t \in Calls : \A o \in Others(t) : adds[t] = 0 \/ adds[o] = 0

LEMMA OneUpdaterStep ==
    ASSUME IInv, OneUpdater, NEW t \in Calls, Step(t)
    PROVE  OneUpdater'
<1>1. TypeOK BY DEF IInv
<1>2. \A o \in Calls : o # t => adds'[o] = adds[o] BY <1>1, OwnState
<1>3. \A o, p : o \in Others(p) => o \in Calls /\ o # p BY DEF Others
<1> SUFFICES ASSUME NEW p \in Calls, NEW o \in Others(p)
             PROVE  adds'[p] = 0 \/ adds'[o] = 0
    BY DEF OneUpdater, Others
<1>4. adds[p] = 0 \/ adds[o] = 0 BY DEF OneUpdater
<1>5. CASE Increment(t)
    <2>1. \A u \in Others(t) : adds[u] = 0 BY <1>5 DEF Increment, MayUpdate
    <2>2. CASE t = p BY <1>2, <1>3, <2>1, <2>2
    <2>3. CASE t = o
        <3>1. p \in Others(t) BY <2>3, OthersSymmetric
        <3>. QED BY <1>2, <1>3, <2>1, <2>3, <3>1
    <2>4. CASE t # p /\ t # o BY <1>2, <1>3, <1>4, <2>4
    <2>. QED BY <2>2, <2>3, <2>4
<1>6. CASE ~Increment(t)
    <2>1. adds'[t] = adds[t] \/ adds'[t] = 0
        BY <1>1, <1>6
           DEF TypeOK, Step, Proceed, Find, FindForDelete, Miss, InsertSession, CountMessages,
               SelectPage, Think, InsertUser, InsertAssistant, InsertFirst, Insert, Delete,
               Commit, CommitLost, Refuse, Fails, Abandon, RollBack, Forget, work
    <2>. QED BY <1>2, <1>3, <1>4, <2>1
<1>. QED BY <1>5, <1>6

LEMMA LocksInvariant == Spec => [](IInv /\ OneUpdater)
<1>1. Init => OneUpdater BY DEF Init, OneUpdater, Others
<1>2. IInv /\ OneUpdater /\ [Next]_vars => OneUpdater'
    <2>1. ASSUME OneUpdater, UNCHANGED vars PROVE OneUpdater'
        BY <2>1 DEF vars, OneUpdater, Others
    <2>. QED BY <2>1, OneUpdaterStep DEF Next
<1>. QED BY <1>1, <1>2, InductiveInvariant, PTL DEF Spec

\* A deletion that has its lock has only its commit left.
LEMMA DeletingGoes ==
    ASSUME IInv, NEW o \in Calls, o \in deleting
    PROVE  Holds(o) /\ ~Waits(o)
BY DEF IInv, WorkOk, WorkOf, Holds, Waits

\* So has, in the end, a call that has raised message_count: a deletion is not
\* waiting for the commit beside it, and nobody else has raised the count.
LEMMA UpdaterGoes ==
    ASSUME IInv, OneUpdater, NEW o \in Calls, adds[o] # 0
    PROVE  Holds(o) /\ ~Waits(o)
<1>1. TypeOK /\ WorkOf(o) /\ LocksOk /\ KindsOk BY DEF IInv, WorkOk
<1>2. pc[o] \in {"insert_assistant", "increment_assistant", "commit"}
    BY <1>1 DEF WorkOf, Writing
<1>3. \A p \in Others(o) : p \notin deleting
    <2>1. ASSUME NEW p \in Others(o), p \in deleting PROVE FALSE
        <3>1. p \in Calls /\ o \in Others(p) BY OthersSymmetric DEF Others
        <3>. QED BY <1>1, <2>1, <3>1 DEF LocksOk
    <2>. QED BY <2>1
<1>4. \A p \in Others(o) : adds[p] = 0 BY DEF OneUpdater
<1>5. MayInsert(o) /\ MayUpdate(o) BY <1>3, <1>4 DEF MayInsert, MayUpdate
<1>. QED BY <1>2, <1>5 DEF Holds, Waits

\* And so has one that has inserted, if nobody in its session has raised the count.
LEMMA WriterGoes ==
    ASSUME IInv, NEW o \in Calls, flushed[o] # {}, \A p \in Others(o) : adds[p] = 0,
           adds[o] = 0
    PROVE  Holds(o) /\ ~Waits(o)
<1>1. TypeOK /\ WorkOf(o) /\ LocksOk /\ KindsOk BY DEF IInv, WorkOk
<1>2. pc[o] \in {"increment_user", "increment_first", "commit"}
    BY <1>1 DEF WorkOf, Writing
<1>3. \A p \in Others(o) : p \notin deleting
    <2>1. ASSUME NEW p \in Others(o), p \in deleting PROVE FALSE
        <3>1. p \in Calls /\ o \in Others(p) BY OthersSymmetric DEF Others
        <3>. QED BY <1>1, <2>1, <3>1 DEF LocksOk
    <2>. QED BY <2>1
<1>4. MayUpdate(o) BY <1>3 DEF MayUpdate
<1>. QED BY <1>2, <1>4 DEF Holds, Waits

\* Who waits for a row waits for a call that goes on.
LEMMA WaitsForOneThatGoes ==
    ASSUME IInv, OneUpdater, NEW t \in Calls, Waits(t)
    PROVE  \E o \in Others(t) : Holds(o) /\ ~Waits(o)
<1>1. TypeOK /\ WorkOf(t) BY DEF IInv, WorkOk
<1>2. \A o \in Others(t) : o \in Calls BY DEF Others
<1>3. CASE \E o \in Others(t) : o \in deleting BY <1>2, <1>3, DeletingGoes
<1>4. CASE \E o \in Others(t) : adds[o] # 0 BY <1>2, <1>4, UpdaterGoes
<1>5. CASE \A o \in Others(t) : o \notin deleting /\ adds[o] = 0
    <2>1. pc[t] = "delete" /\ adds[t] = 0
        BY <1>1, <1>5 DEF Waits, MayInsert, MayUpdate, WorkOf, Writing
    <2>2. PICK o \in Others(t) : flushed[o] # {} BY <1>5, <2>1 DEF Waits, MayDelete
    <2>3. \A p \in Others(o) : adds[p] = 0
        <3>1. \A p \in Others(o) : p = t \/ p \in Others(t) BY <2>2 DEF Others
        <3>. QED BY <1>5, <2>1, <3>1
    <2>4. Holds(o) /\ ~Waits(o) BY <1>2, <1>5, <2>2, <2>3, WriterGoes
    <2>. QED BY <2>2, <2>4
<1>. QED BY <1>3, <1>4, <1>5

\* No deadlock among the transactions on the chat history, however many turns,
\* deletions and reads of however many sessions there are: PostgreSQL never has to
\* end one, and connections come back.
THEOREM NobodyIsStuckTheorem == Spec => []NobodyIsStuck
<1>1. IInv /\ OneUpdater => NobodyIsStuck
    <2> SUFFICES ASSUME IInv, OneUpdater PROVE NobodyIsStuck OBVIOUS
    <2>1. \A t \in Calls : Waits(t) => \E o \in Others(t) : Holds(o) /\ ~Waits(o)
        BY WaitsForOneThatGoes
    <2>2. ASSUME ~FreeConnection PROVE \E t \in Calls : pc[t] \in Open /\ ~Waits(t)
        <3>1. PoolSize \in Nat \ {0} BY ChatAssumption DEF ChatAssumption
        <3>2. {t \in Calls : pc[t] \in Open} # {}
            BY <2>2, <3>1, FS_EmptySet DEF FreeConnection
        <3>3. PICK t \in Calls : pc[t] \in Open BY <3>2
        <3>4. CASE Waits(t)
            <4>1. PICK o \in Others(t) : Holds(o) /\ ~Waits(o) BY <2>1, <3>4
            <4>2. o \in Calls BY DEF Others
            <4>3. pc[o] \in Open
                BY <4>1, <4>2 DEF Holds, IInv, WorkOk, WorkOf, Writing, Open
            <4>. QED BY <4>1, <4>2, <4>3
        <3>. QED BY <3>3, <3>4
    <2>. QED BY <2>1, <2>2 DEF NobodyIsStuck
<1>. QED BY <1>1, LocksInvariant, PTL

-----------------------------------------------------------------------------
(* The chat history implements the log of turns.                           *)

\* A caller is told that a turn was saved by its commit only.
LEMMA ToldByCommit ==
    ASSUME TypeOK, NEW t \in Calls, Step(t), ~(t \in Turns /\ Settle(t))
    PROVE  pc'[t] = "saved" <=> pc[t] = "saved"
<1>1. pc[t] # "saved" BY OverIsOver DEF Ended
<1> USE DEF Goto, TypeOK
<1>2. CASE Settle(t)
    BY <1>1, <1>2, Kinds DEF Settle, Commit, CommitLost, Success, Failure
<1>3. CASE Quit(t)
    BY <1>1, <1>3 DEF Quit, Refuse, Fails, Abandon, RollBack, Failure
<1>4. CASE Find(t) \/ FindForDelete(t) \/ Miss(t) \/ InsertSession(t)
    BY <1>1, <1>4 DEF Find, FindForDelete, Miss, InsertSession
<1>5. CASE CountMessages(t) \/ SelectPage(t) \/ Think(t)
    BY <1>1, <1>5 DEF CountMessages, SelectPage, Think
<1>6. CASE InsertUser(t) \/ InsertAssistant(t) \/ InsertFirst(t)
    BY <1>1, <1>6 DEF InsertUser, InsertAssistant, InsertFirst, Insert
<1>7. CASE Increment(t) \/ Delete(t) BY <1>1, <1>7 DEF Increment, Delete
<1>. QED BY <1>2, <1>3, <1>4, <1>5, <1>6, <1>7 DEF Step, Proceed, Settle, Quit

Told == {t \in Turns : pc[t] = "saved"}

\* Every step is a step of the log, or changes nothing in it.
LEMMA LogStep ==
    ASSUME IInv, NEW t \in Calls, Step(t)
    PROVE  L!Next \/ UNCHANGED L!vars
<1>1. TypeOK /\ RowsOk BY DEF IInv
<1>2. \A o \in Calls : o # t => pc'[o] = pc[o] BY <1>1, OwnState
<1>3. SessionOf[t] \in Creates BY Kinds
<1>4. ~(t \in Turns /\ Settle(t)) => Told' = Told
    BY <1>1, <1>2, ToldByCommit, Kinds DEF Told
<1>5. CASE Settle(t)
    <2>1. CASE Removes(t)
        <3>1. Told' = Told BY <1>4, <2>1, Kinds DEF Removes
        <3>2. L!Remove(SessionOf[t]) BY <2>1, <3>1 DEF Removes, L!Remove, Told
        <3>. QED BY <1>3, <3>2 DEF L!Next
    <2>2. CASE Appends(t)
        <3>1. t \in Turns /\ pc[t] \notin Ended BY <1>1, <2>2, OverIsOver DEF Appends
        <3>2. L!Both(t) \cap messages[SessionOf[t]] = {} BY <1>3, <3>1, TurnIsNew
        <3>3. Told' \in {Told, Told \cup {t}}
            <4>1. pc'[t] = "saved" => Told' = Told \cup {t} BY <1>2, <3>1, Kinds DEF Told
            <4>2. pc'[t] # "saved" => Told' = Told BY <1>2, <3>1, Kinds DEF Told, Ended
            <4>. QED BY <4>1, <4>2
        <3>4. L!Append(t) BY <2>2, <3>2, <3>3 DEF Appends, L!Append, Told
        <3>. QED BY <3>1, <3>4 DEF L!Next
    <2>3. CASE Opens(t)
        <3>1. Told' = Told BY <1>4, <2>3, Kinds DEF Opens
        <3>2. messages[t] = {} /\ count[t] = 0 BY <1>1, <2>3 DEF Opens, RowsOk
        <3>3. L!Open(t) BY <2>3, <3>1, <3>2 DEF Opens, L!Open, Told
        <3>. QED BY <2>3, <3>3 DEF L!Next, Opens
    <2>4. CASE DoesNothing(t)
        <3>1. Told' = Told BY <1>4, <2>4, Kinds DEF DoesNothing
        <3>. QED BY <2>4, <3>1 DEF DoesNothing, rows, L!vars, Told
    <2>. QED BY <1>5, <2>1, <2>2, <2>3, <2>4, SettleCases
<1>6. CASE ~Settle(t)
    <2>1. UNCHANGED rows BY <1>1, <1>6, RowsChangeByCommit
    <2>. QED BY <1>4, <1>6, <2>1 DEF rows, L!vars, Told
<1>. QED BY <1>5, <1>6

\* Sessions open, grow by whole turns and disappear whole; who is told that a
\* turn was saved is told the truth.
THEOREM TurnsTheorem == Spec => KeepsTurns
<1>1. Init => L!Init BY Kinds DEF Init, L!Init
<1>2. IInv /\ [Next]_vars => [L!Next]_(L!vars)
    <2>1. ASSUME IInv, NEW t \in Calls, Step(t) PROVE L!Next \/ UNCHANGED L!vars
        BY <2>1, LogStep
    <2>2. ASSUME UNCHANGED vars PROVE UNCHANGED L!vars BY <2>2 DEF vars, L!vars
    <2>. QED BY <2>1, <2>2 DEF Next
<1>. QED BY <1>1, <1>2, InductiveInvariant, PTL DEF Spec, KeepsTurns, L!Spec

\* A turn that its caller is told was saved is in the history, both its messages,
\* until the session is deleted: no later turn, deletion, failure or lost reply
\* takes it out (the commit of the turn comes before the COMPLETE frame of a stream
\* and before the answer of process_query).
SavedTurnsStay ==
    \A t \in Turns : pc[t] = "saved" =>
        \/ session[SessionOf[t]] = "gone"
        \/ L!Both(t) \subseteq messages[SessionOf[t]]

LEMMA SavedStep ==
    ASSUME IInv, SavedTurnsStay, NEW t \in Calls, Step(t)
    PROVE  SavedTurnsStay'
<1>1. TypeOK BY DEF IInv
<1> SUFFICES ASSUME NEW u \in Turns, pc'[u] = "saved"
             PROVE  \/ session'[SessionOf[u]] = "gone"
                    \/ L!Both(u) \subseteq messages'[SessionOf[u]]
    BY DEF SavedTurnsStay, L!Both
<1>2. u \in Calls /\ SessionOf[u] \in Creates BY Kinds
<1>3. CASE pc[u] = "saved"
    <2>1. session[SessionOf[u]] = "gone" \/ L!Both(u) \subseteq messages[SessionOf[u]]
        BY <1>3 DEF SavedTurnsStay
    <2>. QED BY <1>2, <2>1, HistoryGrows
<1>4. CASE pc[u] # "saved"
    <2>1. u = t BY <1>1, <1>2, <1>4, OwnState
    <2>2. Settle(t) BY <1>1, <1>4, <2>1, ToldByCommit
    <2>3. Appends(t) BY <2>1, <2>2, SettleCases, Kinds DEF Removes, Opens, DoesNothing
    <2>. QED BY <1>1, <1>2, <2>1, <2>3 DEF Appends, TypeOK
<1>. QED BY <1>3, <1>4

\* What the code told a caller was saved (COMPLETE, an answered query) stays in the
\* history as long as the session does.
THEOREM SavedTurnsTheorem == Spec => []SavedTurnsStay
<1>1. Init => SavedTurnsStay BY Kinds DEF Init, SavedTurnsStay
<1>2. IInv /\ SavedTurnsStay /\ [Next]_vars => SavedTurnsStay'
    <2>1. ASSUME SavedTurnsStay, UNCHANGED vars PROVE SavedTurnsStay'
        BY <2>1 DEF vars, SavedTurnsStay, L!Both
    <2>. QED BY <2>1, SavedStep DEF Next
<1>. QED BY <1>1, <1>2, InductiveInvariant, PTL DEF Spec
=============================================================================
