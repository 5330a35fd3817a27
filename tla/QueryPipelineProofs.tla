------------------------ MODULE QueryPipelineProofs ------------------------
(***************************************************************************)
(* Theorems about QueryPipeline, for any number of streams, connections,   *)
(* sessions, questions and SQL texts.                                      *)
(***************************************************************************)
EXTENDS QueryPipeline, TLAPS

-----------------------------------------------------------------------------
(* Type correctness.                                                       *)

LEMMA FramesDef ==
    P!Frames = {"NOTHING", "RECEIVED", "EXTRACTING_SCHEMA", "SCHEMA_EXTRACTED",
                "GENERATING_SQL", "VALIDATING_SQL", "EXECUTING", "COMPLETE", "ERROR"}
BY DEF P!Frames, P!Stages, P!Final

LEMMA TypeInit == Init => TypeOK
BY PipelineAssumption, FramesDef DEF Init, TypeOK, Labels, Over

\* An error ends a stream with values of the right type.
LEMMA FailType ==
    ASSUME NEW r \in Requests, TypeOK,
           NEW c \in EarlyCodes \cup LateCodes, NEW F \in SUBSET FaultKinds,
           Fail(r, c, F)
    PROVE  /\ pc' \in [Requests -> Labels]
           /\ sent' \in [Requests -> P!Frames]
           /\ code' \in [Requests -> EarlyCodes \cup LateCodes \cup {"none"}]
           /\ faults' \in [Requests -> SUBSET FaultKinds]
BY FramesDef DEF Fail, Goto, Send, Blame, TypeOK, Labels, Over

\* A statement of the lookup leaves the transaction as it was or opens or
\* aborts it.
LEMMA TxType ==
    ASSUME NEW r \in Requests, TypeOK, \E t \in {tx[r], "open", "aborted"} : SetTx(r, t)
    PROVE  tx' \in [Requests -> {"none", "open", "aborted"}]
BY DEF TypeOK, SetTx

\* A candidate of r is a request stored for the connection of r.
LEMMA CandidateFacts ==
    ASSUME NEW r \in Requests, TypeOK, NEW a \in Candidates(r)
    PROVE  /\ a \in Requests /\ a # NULL
           /\ a \in cache[ConnOf[r]]
           /\ <<QuestionOf[r], QuestionOf[a]>> \in Similar
<1>1. cache[ConnOf[r]] \subseteq Requests
  BY PipelineAssumption, ConnOf[r] \in Connections DEF TypeOK
<1>. QED  BY <1>1, PipelineAssumption DEF Candidates

LEMMA TypeStep ==
    ASSUME NEW r \in Requests, TypeOK, Step(r),
           pc[r] = "execute" => sql[r] \in ValidSql
    PROVE  TypeOK'
<1> USE PipelineAssumption, FramesDef
    DEF TypeOK, Goto, Send, SetTx, Blame, shared, history, Labels, Over, HasSession, Roles
<1>1. CASE Receive(r)  BY <1>1 DEF Receive
<1>2. CASE ReceiveUnknown(r)  BY <1>2, FailType DEF ReceiveUnknown, EarlyCodes, FaultKinds
<1>3. CASE FindSession(r)  BY <1>3 DEF FindSession
<1>4. CASE MissSession(r)  BY <1>4, FailType DEF MissSession, EarlyCodes, FaultKinds
<1>5. CASE LookupHit(r)
  <2>1. PICK a \in Candidates(r) : hit' = [hit EXCEPT ![r] = a]
    BY <1>5 DEF LookupHit
  <2>. QED  BY <1>5, <2>1, CandidateFacts, TxType DEF LookupHit
<1>6. CASE LookupMiss(r)  BY <1>6, TxType DEF LookupMiss
<1>7. CASE LookupFault(r)  BY <1>7, TxType DEF LookupFault, FaultKinds
<1>8. CASE UseSchema(r)  BY <1>8 DEF UseSchema
<1>9. CASE LoseConnection(r)  BY <1>9, FailType DEF LoseConnection, EarlyCodes, FaultKinds
<1>10. CASE ReadHistory(r)  BY <1>10 DEF ReadHistory
<1>11. CASE LoseHistory(r)  BY <1>11, FailType DEF LoseHistory, EarlyCodes, FaultKinds
<1>12. CASE Generate(r)  BY <1>12 DEF Generate
<1>13. CASE GenerateNothing(r)  BY <1>13, FailType DEF GenerateNothing, EarlyCodes, FaultKinds
<1>14. CASE Accept(r)  BY <1>14 DEF Accept
<1>15. CASE Reject(r)
  <2>1. CASE attempts[r] < MaxRefinements
    <3>1. attempts[r] + 1 \in 0..MaxRefinements
      BY <2>1
    <3>2. attempts' = [attempts EXCEPT ![r] = attempts[r] + 1]
      BY <1>15, <2>1 DEF Reject
    <3>3. attempts' \in [Requests -> 0..MaxRefinements]
      BY <3>1, <3>2
    <3>4. Goto(r, "refine") /\ UNCHANGED <<sent, code, faults>>
      BY <1>15, <2>1 DEF Reject
    <3>5. UNCHANGED <<shared, tx, sql, pending, ran, hit, saved>>
      BY <1>15 DEF Reject
    <3>6. pc' \in [Requests -> Labels]
      BY <3>4
    <3>. QED  BY <3>3, <3>4, <3>5, <3>6
  <2>2. CASE ~(attempts[r] < MaxRefinements)
    <3>1. Fail(r, "SQL_VALIDATION_FAILED", {}) /\ UNCHANGED attempts
      BY <1>15, <2>2 DEF Reject
    <3>. QED  BY <1>15, <3>1, FailType DEF Reject, EarlyCodes, FaultKinds
  <2>. QED  BY <2>1, <2>2
<1>16. CASE Refine(r)  BY <1>16 DEF Refine
<1>17. CASE RefineFails(r)  BY <1>17, FailType DEF RefineFails, EarlyCodes, FaultKinds
<1>18. CASE StartRun(r)  BY <1>18 DEF StartRun
<1>19. CASE NoEngine(r)  BY <1>19, FailType DEF NoEngine, EarlyCodes, FaultKinds
<1>20. CASE RunSucceeds(r)  BY <1>20 DEF RunSucceeds
<1>21. CASE RunFails(r)  BY <1>21, FailType DEF RunFails, LateCodes, FaultKinds
<1>22. CASE WriteUser(r)  BY <1>22 DEF WriteUser, WriteMessage, MayWrite
<1>23. CASE WriteAssistant(r)  BY <1>23 DEF WriteAssistant, WriteMessage, MayWrite
<1>24. CASE CommitTurn(r)  BY <1>24 DEF CommitTurn
<1>25. CASE RollBackTurn(r)  BY <1>25 DEF RollBackTurn, UndoTurn, FaultKinds
<1>26. CASE Complete(r)  BY <1>26 DEF Complete
<1>27. CASE BuildFails(r)  BY <1>27, FailType DEF BuildFails, LateCodes, FaultKinds
<1>28. CASE WriteBack(r)  BY <1>28 DEF WriteBack
<1>29. CASE WriteBackFails(r)  BY <1>29 DEF WriteBackFails, FaultKinds
<1>30. CASE StubSchema(r)  BY <1>30 DEF StubSchema
<1>31. CASE StartExtraction(r)  BY <1>31 DEF StartExtraction
<1>32. CASE ExtractSchema(r)  BY <1>32 DEF ExtractSchema
<1>33. CASE ExtractionFails(r)  BY <1>33, FailType DEF ExtractionFails, EarlyCodes, FaultKinds
<1>34. CASE SessionFault(r)  BY <1>34, FailType DEF SessionFault, EarlyCodes, FaultKinds
<1>35. CASE HistoryRefused(r)  BY <1>35, FailType DEF HistoryRefused, EarlyCodes, FaultKinds
<1>36. CASE RefuseTurn(r)  BY <1>36 DEF RefuseTurn, UndoTurn, MayWrite, FaultKinds
<1>. QED
  BY <1>1, <1>2, <1>3, <1>4, <1>5, <1>6, <1>7, <1>8, <1>9, <1>10, <1>11,
     <1>12, <1>13, <1>14, <1>15, <1>16, <1>17, <1>18, <1>19, <1>20, <1>21, <1>22,
     <1>23, <1>24, <1>25, <1>26, <1>27, <1>28, <1>29, <1>30, <1>31, <1>32,
     <1>33, <1>34, <1>35, <1>36 DEF Step, Proceed, Suffer

LEMMA TypeWorld == TypeOK /\ World => TypeOK'
<1> SUFFICES ASSUME TypeOK, World PROVE TypeOK'
  OBVIOUS
<1> USE PipelineAssumption
    DEF TypeOK, shared, history, Cancel, Running, Labels, Over
<1>1. ASSUME NEW r \in Requests, ClientLeaves(r) PROVE TypeOK'
  BY <1>1 DEF ClientLeaves
<1>2. ASSUME NEW c \in Connections, Disconnect(c) PROVE TypeOK'
  BY <1>2 DEF Disconnect
<1>3. CASE Restart
  BY <1>3 DEF Restart
<1>4. ASSUME NEW s \in Sessions, DeleteSession(s) PROVE TypeOK'
  BY <1>4 DEF DeleteSession
<1>. QED  BY <1>1, <1>2, <1>3, <1>4 DEF World

-----------------------------------------------------------------------------
(* A step of one stream does not touch the local state of another.         *)

LEMMA OwnState ==
    ASSUME NEW r \in Requests, TypeOK, Step(r), NEW o \in Requests, o # r
    PROVE  /\ pc'[o] = pc[o] /\ sent'[o] = sent[o] /\ code'[o] = code[o]
           /\ tx'[o] = tx[o] /\ sql'[o] = sql[o] /\ pending'[o] = pending[o]
           /\ ran'[o] = ran[o] /\ hit'[o] = hit[o]
           /\ saved'[o] = saved[o] /\ faults'[o] = faults[o]
<1> USE DEF TypeOK, Goto, Send, SetTx, Blame, shared, history
<1>1. CASE Receive(r)  BY <1>1 DEF Receive
<1>2. CASE ReceiveUnknown(r)  BY <1>2 DEF ReceiveUnknown, Fail
<1>3. CASE FindSession(r)  BY <1>3 DEF FindSession
<1>4. CASE MissSession(r)  BY <1>4 DEF MissSession, Fail
<1>5. CASE LookupHit(r)  BY <1>5 DEF LookupHit
<1>6. CASE LookupMiss(r)  BY <1>6 DEF LookupMiss
<1>7. CASE LookupFault(r)  BY <1>7 DEF LookupFault
<1>8. CASE UseSchema(r)  BY <1>8 DEF UseSchema
<1>9. CASE LoseConnection(r)  BY <1>9 DEF LoseConnection, Fail
<1>10. CASE ReadHistory(r)  BY <1>10 DEF ReadHistory
<1>11. CASE LoseHistory(r)  BY <1>11 DEF LoseHistory, Fail
<1>12. CASE Generate(r)  BY <1>12 DEF Generate
<1>13. CASE GenerateNothing(r)  BY <1>13 DEF GenerateNothing, Fail
<1>14. CASE Accept(r)  BY <1>14 DEF Accept
<1>15. CASE Reject(r)  BY <1>15 DEF Reject, Fail
<1>16. CASE Refine(r)  BY <1>16 DEF Refine
<1>17. CASE RefineFails(r)  BY <1>17 DEF RefineFails, Fail
<1>18. CASE StartRun(r)  BY <1>18 DEF StartRun
<1>19. CASE NoEngine(r)  BY <1>19 DEF NoEngine, Fail
<1>20. CASE RunSucceeds(r)  BY <1>20 DEF RunSucceeds
<1>21. CASE RunFails(r)  BY <1>21 DEF RunFails, Fail
<1>22. CASE WriteUser(r)  BY <1>22 DEF WriteUser, WriteMessage, MayWrite
<1>23. CASE WriteAssistant(r)  BY <1>23 DEF WriteAssistant, WriteMessage, MayWrite
<1>24. CASE CommitTurn(r)  BY <1>24 DEF CommitTurn
<1>25. CASE RollBackTurn(r)  BY <1>25 DEF RollBackTurn, UndoTurn
<1>26. CASE Complete(r)  BY <1>26 DEF Complete
<1>27. CASE BuildFails(r)  BY <1>27 DEF BuildFails, Fail
<1>28. CASE WriteBack(r)  BY <1>28 DEF WriteBack
<1>29. CASE WriteBackFails(r)  BY <1>29 DEF WriteBackFails
<1>30. CASE StubSchema(r)  BY <1>30 DEF StubSchema
<1>31. CASE StartExtraction(r)  BY <1>31 DEF StartExtraction
<1>32. CASE ExtractSchema(r)  BY <1>32 DEF ExtractSchema
<1>33. CASE ExtractionFails(r)  BY <1>33 DEF ExtractionFails, Fail
<1>34. CASE SessionFault(r)  BY <1>34 DEF SessionFault, Fail
<1>35. CASE HistoryRefused(r)  BY <1>35 DEF HistoryRefused, Fail
<1>36. CASE RefuseTurn(r)  BY <1>36 DEF RefuseTurn, UndoTurn, MayWrite
<1>. QED
  BY <1>1, <1>2, <1>3, <1>4, <1>5, <1>6, <1>7, <1>8, <1>9, <1>10, <1>11,
     <1>12, <1>13, <1>14, <1>15, <1>16, <1>17, <1>18, <1>19, <1>20, <1>21,
     <1>22, <1>23, <1>24, <1>25, <1>26, <1>27, <1>28, <1>29, <1>30, <1>31, <1>32,
     <1>33, <1>34, <1>35, <1>36 DEF Step, Proceed, Suffer

-----------------------------------------------------------------------------
(* The inductive invariant.  None of the properties is inductive by        *)
(* itself: what a stream may still do depends on where it is suspended.    *)

BeforeRun == {"received", "session", "lookup", "schema", "extracting", "history",
              "generate", "validate", "refine", "execute"}

AfterRun == {"user_message", "assistant_message", "commit", "answer"}

\* Where a stream in a session has read its history, and not yet stored its result.
Sound == {"generate", "validate", "refine", "execute", "running"} \cup AfterRun

\* The last frame of a stream, by where it is suspended.
FrameOk(r) ==
    /\ pc[r] = "received" => sent[r] = "NOTHING"
    /\ pc[r] \in {"session", "lookup"} => sent[r] = "RECEIVED"
    /\ pc[r] \in {"schema", "extracting"} => sent[r] = "EXTRACTING_SCHEMA"
    /\ pc[r] = "history" => sent[r] = "SCHEMA_EXTRACTED"
    /\ pc[r] = "generate" => sent[r] = "GENERATING_SQL"
    /\ pc[r] \in {"validate", "refine"} => sent[r] = "VALIDATING_SQL"
    /\ pc[r] \in {"execute", "running"} \cup AfterRun => sent[r] = "EXECUTING"
    /\ pc[r] = "write_back" => sent[r] = "COMPLETE"
    /\ pc[r] = "done" => sent[r] \in {"COMPLETE", "ERROR"}
    /\ code[r] # "none" => pc[r] = "done" /\ sent[r] = "ERROR"

\* What a stream has sent to its target database.
RunOk(r) ==
    /\ ran[r] # NULL => sql[r] \in ValidSql /\ ran[r] = Clean[sql[r]]
    /\ pc[r] = "execute" => sql[r] \in ValidSql
    /\ pc[r] \in BeforeRun => ran[r] = NULL
    /\ pc[r] \in AfterRun \cup {"running", "write_back"} => ran[r] # NULL
    /\ pc[r] \notin Over => hit[r] = NULL
    /\ code[r] \in EarlyCodes => ran[r] = NULL
    /\ sent[r] = "COMPLETE" => (hit[r] = NULL <=> ran[r] # NULL)
    /\ hit[r] # NULL => sent[r] = "COMPLETE"

\* How far the turn of a stream has been saved.
TurnOk(r) ==
    /\ pc[r] \notin {"assistant_message", "commit"} => pending[r] = {}
    /\ pc[r] = "assistant_message" => pending[r] = {"user"}
    /\ pc[r] = "commit" => pending[r] = Roles
    /\ pending[r] # {} => SessionOf[r] \in sessions
    /\ pc[r] \in AfterRun \ {"answer"} => HasSession(r)
    /\ (HasSession(r) /\ pc[r] \in Sound) => tx[r] # "aborted"
    /\ saved[r] # "no" => ran[r] # NULL /\ pc[r] \in {"answer", "write_back"} \cup Over
    /\ saved[r] = "failed" => "app_db" \in faults[r] \/ SessionOf[r] \notin sessions
    /\ (HasSession(r) /\ pc[r] \in {"answer", "write_back"}) => saved[r] # "no"
    /\ (HasSession(r) /\ sent[r] = "COMPLETE" /\ hit[r] = NULL) => saved[r] # "no"
    /\ \A role \in Roles : <<r, role>> \in messages =>
          /\ saved[r] = "yes"
          /\ SessionOf[r] \in sessions
          /\ \A other \in Roles : <<r, other>> \in messages

\* A stream whose result may be served to others: it is past all its steps
\* that could change the facts below.
Served(a) == /\ a \in Requests
             /\ pc[a] \in Over /\ code[a] = "none"
             /\ sent[a] = "COMPLETE" /\ hit[a] = NULL /\ ran[a] # NULL

CacheOk ==
    \A c \in Connections : \A a \in cache[c] : Served(a) /\ ConnOf[a] = c

HitOk(r) == hit[r] # NULL =>
    /\ Served(hit[r])
    /\ ConnOf[hit[r]] = ConnOf[r]
    /\ <<QuestionOf[r], QuestionOf[hit[r]]>> \in Similar

IInv == /\ TypeOK
        /\ \A r \in Requests : FrameOk(r) /\ RunOk(r) /\ TurnOk(r) /\ HitOk(r)
        /\ CacheOk

\* What the stream of a hit is answered with.
LEMMA HitIsCandidate ==
    ASSUME NEW r \in Requests, TypeOK, LookupHit(r)
    PROVE  /\ hit' \in [Requests -> Requests \cup {NULL}]
           /\ hit'[r] # NULL
           /\ hit'[r] \in cache[ConnOf[r]]
           /\ <<QuestionOf[r], QuestionOf[hit'[r]]>> \in Similar
<1>1. PICK a \in Candidates(r) : hit' = [hit EXCEPT ![r] = a]
  BY DEF LookupHit
<1>2. hit'[r] = a
  BY <1>1 DEF TypeOK
<1>. QED  BY <1>1, <1>2, CandidateFacts DEF TypeOK

-----------------------------------------------------------------------------
(* What a step of r does to the predicates of r.                           *)

LEMMA FrameStep ==
    ASSUME NEW r \in Requests, TypeOK, FrameOk(r), RunOk(r), TurnOk(r), Step(r)
    PROVE  FrameOk(r)'
<1> USE DEF TypeOK, FrameOk, Goto, Send, Over, AfterRun
<1>1. CASE Receive(r)  BY <1>1 DEF Receive
<1>2. CASE ReceiveUnknown(r)  BY <1>2 DEF ReceiveUnknown, Fail
<1>3. CASE FindSession(r)  BY <1>3 DEF FindSession
<1>4. CASE MissSession(r)  BY <1>4 DEF MissSession, Fail
<1>5. CASE LookupHit(r)  BY <1>5 DEF LookupHit
<1>6. CASE LookupMiss(r)  BY <1>6 DEF LookupMiss
<1>7. CASE LookupFault(r)  BY <1>7 DEF LookupFault
<1>8. CASE UseSchema(r)  BY <1>8 DEF UseSchema
<1>9. CASE LoseConnection(r)  BY <1>9 DEF LoseConnection, Fail
<1>10. CASE ReadHistory(r)  BY <1>10 DEF ReadHistory
<1>11. CASE LoseHistory(r)  BY <1>11 DEF LoseHistory, Fail
<1>12. CASE Generate(r)  BY <1>12 DEF Generate
<1>13. CASE GenerateNothing(r)  BY <1>13 DEF GenerateNothing, Fail
<1>14. CASE Accept(r)  BY <1>14 DEF Accept
<1>15. CASE Reject(r)  BY <1>15 DEF Reject, Fail
<1>16. CASE Refine(r)  BY <1>16 DEF Refine
<1>17. CASE RefineFails(r)  BY <1>17 DEF RefineFails, Fail
<1>18. CASE StartRun(r)  BY <1>18 DEF StartRun
<1>19. CASE NoEngine(r)  BY <1>19 DEF NoEngine, Fail
<1>20. CASE RunSucceeds(r)  BY <1>20 DEF RunSucceeds
<1>21. CASE RunFails(r)  BY <1>21 DEF RunFails, Fail
<1>22. CASE WriteUser(r)  BY <1>22 DEF WriteUser, WriteMessage, MayWrite
<1>23. CASE WriteAssistant(r)  BY <1>23 DEF WriteAssistant, WriteMessage, MayWrite
<1>24. CASE CommitTurn(r)  BY <1>24 DEF CommitTurn
<1>25. CASE RollBackTurn(r)  BY <1>25 DEF RollBackTurn, UndoTurn
<1>26. CASE Complete(r)  BY <1>26 DEF Complete
<1>27. CASE BuildFails(r)  BY <1>27 DEF BuildFails, Fail
<1>28. CASE WriteBack(r)  BY <1>28 DEF WriteBack
<1>29. CASE WriteBackFails(r)  BY <1>29 DEF WriteBackFails
<1>30. CASE StubSchema(r)  BY <1>30 DEF StubSchema
<1>31. CASE StartExtraction(r)  BY <1>31 DEF StartExtraction
<1>32. CASE ExtractSchema(r)  BY <1>32 DEF ExtractSchema
<1>33. CASE ExtractionFails(r)  BY <1>33 DEF ExtractionFails, Fail
<1>34. CASE SessionFault(r)  BY <1>34 DEF SessionFault, Fail
<1>35. CASE HistoryRefused(r)  BY <1>35 DEF HistoryRefused, Fail
<1>36. CASE RefuseTurn(r)  BY <1>36 DEF RefuseTurn, UndoTurn, MayWrite
<1>. QED
  BY <1>1, <1>2, <1>3, <1>4, <1>5, <1>6, <1>7, <1>8, <1>9, <1>10, <1>11,
     <1>12, <1>13, <1>14, <1>15, <1>16, <1>17, <1>18, <1>19, <1>20, <1>21,
     <1>22, <1>23, <1>24, <1>25, <1>26, <1>27, <1>28, <1>29, <1>30, <1>31, <1>32,
     <1>33, <1>34, <1>35, <1>36 DEF Step, Proceed, Suffer

LEMMA RunStep ==
    ASSUME NEW r \in Requests, TypeOK, FrameOk(r), RunOk(r), TurnOk(r), Step(r)
    PROVE  RunOk(r)'
<1> USE PipelineAssumption
    DEF TypeOK, FrameOk, RunOk, Goto, Send, shared, history, Over, BeforeRun, AfterRun,
        EarlyCodes, LateCodes
<1>1. CASE Receive(r)  BY <1>1 DEF Receive
<1>2. CASE ReceiveUnknown(r)  BY <1>2 DEF ReceiveUnknown, Fail
<1>3. CASE FindSession(r)  BY <1>3 DEF FindSession
<1>4. CASE MissSession(r)  BY <1>4 DEF MissSession, Fail
<1>5. CASE LookupHit(r)
  <2>1. hit'[r] # NULL /\ hit' \in [Requests -> Requests \cup {NULL}]
    BY <1>5, HitIsCandidate
  <2>. QED  BY <1>5, <2>1 DEF LookupHit
<1>6. CASE LookupMiss(r)  BY <1>6 DEF LookupMiss
<1>7. CASE LookupFault(r)  BY <1>7 DEF LookupFault
<1>8. CASE UseSchema(r)  BY <1>8 DEF UseSchema
<1>9. CASE LoseConnection(r)  BY <1>9 DEF LoseConnection, Fail
<1>10. CASE ReadHistory(r)  BY <1>10 DEF ReadHistory
<1>11. CASE LoseHistory(r)  BY <1>11 DEF LoseHistory, Fail
<1>12. CASE Generate(r)  BY <1>12 DEF Generate
<1>13. CASE GenerateNothing(r)  BY <1>13 DEF GenerateNothing, Fail
<1>14. CASE Accept(r)  BY <1>14 DEF Accept
<1>15. CASE Reject(r)  BY <1>15 DEF Reject, Fail
<1>16. CASE Refine(r)  BY <1>16 DEF Refine
<1>17. CASE RefineFails(r)  BY <1>17 DEF RefineFails, Fail
<1>18. CASE StartRun(r)  BY <1>18 DEF StartRun
<1>19. CASE NoEngine(r)  BY <1>19 DEF NoEngine, Fail
<1>20. CASE RunSucceeds(r)  BY <1>20 DEF RunSucceeds
<1>21. CASE RunFails(r)  BY <1>21 DEF RunFails, Fail
<1>22. CASE WriteUser(r)  BY <1>22 DEF WriteUser, WriteMessage, MayWrite
<1>23. CASE WriteAssistant(r)  BY <1>23 DEF WriteAssistant, WriteMessage, MayWrite
<1>24. CASE CommitTurn(r)  BY <1>24 DEF CommitTurn
<1>25. CASE RollBackTurn(r)  BY <1>25 DEF RollBackTurn, UndoTurn
<1>26. CASE Complete(r)  BY <1>26 DEF Complete
<1>27. CASE BuildFails(r)  BY <1>27 DEF BuildFails, Fail
<1>28. CASE WriteBack(r)  BY <1>28 DEF WriteBack
<1>29. CASE WriteBackFails(r)  BY <1>29 DEF WriteBackFails
<1>30. CASE StubSchema(r)  BY <1>30 DEF StubSchema
<1>31. CASE StartExtraction(r)  BY <1>31 DEF StartExtraction
<1>32. CASE ExtractSchema(r)  BY <1>32 DEF ExtractSchema
<1>33. CASE ExtractionFails(r)  BY <1>33 DEF ExtractionFails, Fail
<1>34. CASE SessionFault(r)  BY <1>34 DEF SessionFault, Fail
<1>35. CASE HistoryRefused(r)  BY <1>35 DEF HistoryRefused, Fail
<1>36. CASE RefuseTurn(r)  BY <1>36 DEF RefuseTurn, UndoTurn, MayWrite
<1>. QED
  BY <1>1, <1>2, <1>3, <1>4, <1>5, <1>6, <1>7, <1>8, <1>9, <1>10, <1>11,
     <1>12, <1>13, <1>14, <1>15, <1>16, <1>17, <1>18, <1>19, <1>20, <1>21,
     <1>22, <1>23, <1>24, <1>25, <1>26, <1>27, <1>28, <1>29, <1>30, <1>31, <1>32,
     <1>33, <1>34, <1>35, <1>36 DEF Step, Proceed, Suffer

LEMMA TurnStep ==
    ASSUME NEW r \in Requests, TypeOK, FrameOk(r), RunOk(r), TurnOk(r), Step(r)
    PROVE  TurnOk(r)'
<1> USE PipelineAssumption
    DEF TypeOK, FrameOk, RunOk, TurnOk, Goto, Send, Blame, shared, history, HasSession, SetTx, Over,
        BeforeRun, AfterRun, Sound, Roles
<1>1. CASE Receive(r)  BY <1>1 DEF Receive
<1>2. CASE ReceiveUnknown(r)  BY <1>2 DEF ReceiveUnknown, Fail
<1>3. CASE FindSession(r)  BY <1>3 DEF FindSession
<1>4. CASE MissSession(r)  BY <1>4 DEF MissSession, Fail
<1>5. CASE LookupHit(r)
  <2>1. hit'[r] # NULL /\ hit' \in [Requests -> Requests \cup {NULL}]
    BY <1>5, HitIsCandidate
  <2>. QED  BY <1>5, <2>1 DEF LookupHit
<1>6. CASE LookupMiss(r)  BY <1>6 DEF LookupMiss
<1>7. CASE LookupFault(r)  BY <1>7 DEF LookupFault
<1>8. CASE UseSchema(r)  BY <1>8 DEF UseSchema
<1>9. CASE LoseConnection(r)  BY <1>9 DEF LoseConnection, Fail
<1>10. CASE ReadHistory(r)  BY <1>10 DEF ReadHistory
<1>11. CASE LoseHistory(r)  BY <1>11 DEF LoseHistory, Fail
<1>12. CASE Generate(r)  BY <1>12 DEF Generate
<1>13. CASE GenerateNothing(r)  BY <1>13 DEF GenerateNothing, Fail
<1>14. CASE Accept(r)  BY <1>14 DEF Accept
<1>15. CASE Reject(r)  BY <1>15 DEF Reject, Fail
<1>16. CASE Refine(r)  BY <1>16 DEF Refine
<1>17. CASE RefineFails(r)  BY <1>17 DEF RefineFails, Fail
<1>18. CASE StartRun(r)  BY <1>18 DEF StartRun
<1>19. CASE NoEngine(r)  BY <1>19 DEF NoEngine, Fail
<1>20. CASE RunSucceeds(r)  BY <1>20 DEF RunSucceeds
<1>21. CASE RunFails(r)  BY <1>21 DEF RunFails, Fail
<1>22. CASE WriteUser(r)  BY <1>22 DEF WriteUser, WriteMessage, MayWrite
<1>23. CASE WriteAssistant(r)  BY <1>23 DEF WriteAssistant, WriteMessage, MayWrite
<1>24. CASE CommitTurn(r)  BY <1>24 DEF CommitTurn
<1>25. CASE RollBackTurn(r)  BY <1>25 DEF RollBackTurn, UndoTurn
<1>26. CASE Complete(r)  BY <1>26 DEF Complete
<1>27. CASE BuildFails(r)  BY <1>27 DEF BuildFails, Fail
<1>28. CASE WriteBack(r)  BY <1>28 DEF WriteBack
<1>29. CASE WriteBackFails(r)  BY <1>29 DEF WriteBackFails
<1>30. CASE StubSchema(r)  BY <1>30 DEF StubSchema
<1>31. CASE StartExtraction(r)  BY <1>31 DEF StartExtraction
<1>32. CASE ExtractSchema(r)  BY <1>32 DEF ExtractSchema
<1>33. CASE ExtractionFails(r)  BY <1>33 DEF ExtractionFails, Fail
<1>34. CASE SessionFault(r)  BY <1>34 DEF SessionFault, Fail
<1>35. CASE HistoryRefused(r)  BY <1>35 DEF HistoryRefused, Fail
<1>36. CASE RefuseTurn(r)  BY <1>36 DEF RefuseTurn, UndoTurn, MayWrite
<1>. QED
  BY <1>1, <1>2, <1>3, <1>4, <1>5, <1>6, <1>7, <1>8, <1>9, <1>10, <1>11,
     <1>12, <1>13, <1>14, <1>15, <1>16, <1>17, <1>18, <1>19, <1>20, <1>21,
     <1>22, <1>23, <1>24, <1>25, <1>26, <1>27, <1>28, <1>29, <1>30, <1>31, <1>32,
     <1>33, <1>34, <1>35, <1>36 DEF Step, Proceed, Suffer

-----------------------------------------------------------------------------
(* What a step of r does to the rest of the invariant.                     *)

LEMMA StepShared ==
    ASSUME NEW r \in Requests, TypeOK, Step(r)
    PROVE  /\ pc[r] \notin Over
           /\ sessions' = sessions
           /\ messages' = messages \/ CommitTurn(r)
           /\ cache' = cache \/ WriteBack(r) \/ WriteBackFails(r)
<1> USE DEF TypeOK, Goto, Send, shared, history, Over
<1>1. CASE Receive(r)  BY <1>1 DEF Receive
<1>2. CASE ReceiveUnknown(r)  BY <1>2 DEF ReceiveUnknown, Fail
<1>3. CASE FindSession(r)  BY <1>3 DEF FindSession
<1>4. CASE MissSession(r)  BY <1>4 DEF MissSession, Fail
<1>5. CASE LookupHit(r)  BY <1>5 DEF LookupHit
<1>6. CASE LookupMiss(r)  BY <1>6 DEF LookupMiss
<1>7. CASE LookupFault(r)  BY <1>7 DEF LookupFault
<1>8. CASE UseSchema(r)  BY <1>8 DEF UseSchema
<1>9. CASE LoseConnection(r)  BY <1>9 DEF LoseConnection, Fail
<1>10. CASE ReadHistory(r)  BY <1>10 DEF ReadHistory
<1>11. CASE LoseHistory(r)  BY <1>11 DEF LoseHistory, Fail
<1>12. CASE Generate(r)  BY <1>12 DEF Generate
<1>13. CASE GenerateNothing(r)  BY <1>13 DEF GenerateNothing, Fail
<1>14. CASE Accept(r)  BY <1>14 DEF Accept
<1>15. CASE Reject(r)  BY <1>15 DEF Reject, Fail
<1>16. CASE Refine(r)  BY <1>16 DEF Refine
<1>17. CASE RefineFails(r)  BY <1>17 DEF RefineFails, Fail
<1>18. CASE StartRun(r)  BY <1>18 DEF StartRun
<1>19. CASE NoEngine(r)  BY <1>19 DEF NoEngine, Fail
<1>20. CASE RunSucceeds(r)  BY <1>20 DEF RunSucceeds
<1>21. CASE RunFails(r)  BY <1>21 DEF RunFails, Fail
<1>22. CASE WriteUser(r)  BY <1>22 DEF WriteUser, WriteMessage, MayWrite
<1>23. CASE WriteAssistant(r)  BY <1>23 DEF WriteAssistant, WriteMessage, MayWrite
<1>24. CASE CommitTurn(r)  BY <1>24 DEF CommitTurn
<1>25. CASE RollBackTurn(r)  BY <1>25 DEF RollBackTurn, UndoTurn
<1>26. CASE Complete(r)  BY <1>26 DEF Complete
<1>27. CASE BuildFails(r)  BY <1>27 DEF BuildFails, Fail
<1>28. CASE WriteBack(r)  BY <1>28 DEF WriteBack
<1>29. CASE WriteBackFails(r)  BY <1>29 DEF WriteBackFails
<1>30. CASE StubSchema(r)  BY <1>30 DEF StubSchema
<1>31. CASE StartExtraction(r)  BY <1>31 DEF StartExtraction
<1>32. CASE ExtractSchema(r)  BY <1>32 DEF ExtractSchema
<1>33. CASE ExtractionFails(r)  BY <1>33 DEF ExtractionFails, Fail
<1>34. CASE SessionFault(r)  BY <1>34 DEF SessionFault, Fail
<1>35. CASE HistoryRefused(r)  BY <1>35 DEF HistoryRefused, Fail
<1>36. CASE RefuseTurn(r)  BY <1>36 DEF RefuseTurn, UndoTurn, MayWrite
<1>. QED
  BY <1>1, <1>2, <1>3, <1>4, <1>5, <1>6, <1>7, <1>8, <1>9, <1>10, <1>11,
     <1>12, <1>13, <1>14, <1>15, <1>16, <1>17, <1>18, <1>19, <1>20, <1>21,
     <1>22, <1>23, <1>24, <1>25, <1>26, <1>27, <1>28, <1>29, <1>30, <1>31, <1>32,
     <1>33, <1>34, <1>35, <1>36 DEF Step, Proceed, Suffer

LEMMA ServedStable ==
    ASSUME NEW r \in Requests, TypeOK, Step(r), NEW a, Served(a)
    PROVE  Served(a)'
<1>1. a \in Requests /\ a # r
  BY StepShared DEF Served
<1>. QED  BY <1>1, OwnState DEF Served

LEMMA CacheStep ==
    ASSUME NEW r \in Requests, TypeOK, FrameOk(r), RunOk(r), CacheOk, Step(r)
    PROVE  CacheOk'
<1>1. CASE cache' = cache
  BY <1>1, ServedStable DEF CacheOk
<1>2. CASE WriteBack(r) \/ WriteBackFails(r)
  <2>1. Served(r)'
    BY <1>2 DEF WriteBack, WriteBackFails, Served, TypeOK, FrameOk, RunOk, Goto, Send,
       history, Over
  <2>2. PICK kept \in SUBSET {r} : cache' = [cache EXCEPT ![ConnOf[r]] = @ \cup kept]
    BY <1>2 DEF WriteBack, WriteBackFails
  <2>3. ASSUME NEW c \in Connections, NEW a \in cache'[c]
        PROVE  Served(a)' /\ ConnOf[a] = c
    <3>1. a \in cache[c] \/ (a = r /\ c = ConnOf[r])
      BY <2>2, <2>3 DEF TypeOK
    <3>. QED  BY <2>1, <3>1, ServedStable DEF CacheOk
  <2>. QED  BY <2>3 DEF CacheOk
<1>. QED  BY <1>1, <1>2, StepShared

LEMMA HitStep ==
    ASSUME NEW r \in Requests, TypeOK, RunOk(r), HitOk(r), CacheOk, Step(r)
    PROVE  HitOk(r)'
<1>1. hit[r] = NULL
  BY StepShared DEF RunOk
<1>2. CASE LookupHit(r)
  <2>1. /\ hit'[r] \in cache[ConnOf[r]]
        /\ <<QuestionOf[r], QuestionOf[hit'[r]]>> \in Similar
    BY <1>2, HitIsCandidate
  <2>2. Served(hit'[r]) /\ ConnOf[hit'[r]] = ConnOf[r]
    BY <2>1, PipelineAssumption DEF CacheOk
  <2>. QED  BY <2>1, <2>2, ServedStable DEF HitOk
<1>3. CASE ~LookupHit(r)
  <2>1. hit'[r] = hit[r]
    BY <1>3 DEF Step, Proceed, Suffer, history, Receive, ReceiveUnknown, FindSession, MissSession, LookupMiss,
       LookupFault, UseSchema, LoseConnection, StubSchema, StartExtraction,
       ExtractSchema, ExtractionFails, SessionFault, HistoryRefused, RefuseTurn, UndoTurn, ReadHistory, LoseHistory,
       Generate, GenerateNothing, Accept, Reject, Refine,
       RefineFails, StartRun, NoEngine, RunSucceeds, RunFails,
       WriteUser, WriteAssistant, CommitTurn, RollBackTurn,
       Complete, BuildFails, WriteBack, WriteBackFails, WriteMessage
  <2>. QED  BY <1>1, <2>1 DEF HitOk
<1>. QED  BY <1>2, <1>3

\* A step of r leaves the predicates of another stream as they were.
LEMMA OthersStep ==
    ASSUME NEW r \in Requests, TypeOK, Step(r), NEW o \in Requests, o # r,
           FrameOk(o), RunOk(o), TurnOk(o), HitOk(o)
    PROVE  FrameOk(o)' /\ RunOk(o)' /\ TurnOk(o)' /\ HitOk(o)'
<1>1. /\ pc'[o] = pc[o] /\ sent'[o] = sent[o] /\ code'[o] = code[o]
      /\ sql'[o] = sql[o] /\ pending'[o] = pending[o] /\ ran'[o] = ran[o] /\ tx'[o] = tx[o]
      /\ hit'[o] = hit[o] /\ saved'[o] = saved[o] /\ faults'[o] = faults[o]
  BY OwnState
<1>2. FrameOk(o)'
  BY <1>1 DEF FrameOk
<1>3. RunOk(o)'
  BY <1>1 DEF RunOk
<1>4. \A role \in Roles : <<o, role>> \in messages' <=> <<o, role>> \in messages
  BY StepShared DEF CommitTurn
<1>5. TurnOk(o)'
  BY <1>1, <1>4, StepShared DEF TurnOk, HasSession
<1>6. HitOk(o)'
  BY <1>1, ServedStable DEF HitOk
<1>. QED  BY <1>2, <1>3, <1>5, <1>6

LEMMA InvStep ==
    ASSUME IInv, NEW r \in Requests, Step(r)
    PROVE  IInv'
<1>1. TypeOK'
  BY TypeStep DEF IInv, RunOk
<1>2. CacheOk'
  BY CacheStep DEF IInv
<1>3. ASSUME NEW o \in Requests
      PROVE  FrameOk(o)' /\ RunOk(o)' /\ TurnOk(o)' /\ HitOk(o)'
  <2>1. CASE o = r
    BY <2>1, FrameStep, RunStep, TurnStep, HitStep DEF IInv
  <2>2. CASE o # r
    BY <2>2, OthersStep DEF IInv
  <2>. QED  BY <2>1, <2>2
<1>. QED  BY <1>1, <1>2, <1>3 DEF IInv

-----------------------------------------------------------------------------
(* What the world does to the invariant.                                   *)

\* Streams that are stopped keep their history, and streams that are not keep
\* everything.
LEMMA CancelInv ==
    ASSUME IInv, NEW R \in SUBSET Requests, \A r \in R : Running(r),
           Cancel(R), UNCHANGED <<sessions, messages, cache>>
    PROVE  /\ \A r \in Requests : FrameOk(r)' /\ RunOk(r)' /\ TurnOk(r)' /\ HitOk(r)'
           /\ CacheOk'
<1>1. ASSUME NEW a, Served(a) PROVE Served(a)'
  BY <1>1 DEF Cancel, Served, Running, history, Over
<1>2. CacheOk'
  BY <1>1 DEF IInv, CacheOk
<1>3. ASSUME NEW r \in Requests
      PROVE  FrameOk(r)' /\ RunOk(r)' /\ TurnOk(r)' /\ HitOk(r)'
  <2>1. FrameOk(r) /\ RunOk(r) /\ TurnOk(r) /\ HitOk(r)
    BY DEF IInv
  <2>2. FrameOk(r)'
    BY <2>1 DEF Cancel, FrameOk, Running, AfterRun, Over
  <2>3. RunOk(r)'
    BY <2>1 DEF Cancel, RunOk, Running, history, BeforeRun, AfterRun, Over
  <2>4. TurnOk(r)'
    BY <2>1 DEF Cancel, TurnOk, Running, history, HasSession, AfterRun, Sound, Over
  <2>5. HitOk(r)'
    BY <1>1, <2>1 DEF Cancel, HitOk, history
  <2>. QED  BY <2>2, <2>3, <2>4, <2>5
<1>. QED  BY <1>2, <1>3

LEMMA InvWorld == IInv /\ World => IInv'
<1> SUFFICES ASSUME IInv, World PROVE IInv'
  OBVIOUS
<1>1. TypeOK'
  BY TypeWorld DEF IInv
<1>2. ASSUME NEW r \in Requests, ClientLeaves(r) PROVE IInv'
  BY <1>1, <1>2, CancelInv DEF IInv, ClientLeaves, shared
<1>3. ASSUME NEW c \in Connections, Disconnect(c) PROVE IInv'
  BY <1>1, <1>3 DEF Disconnect, IInv, FrameOk, RunOk, TurnOk, HitOk, CacheOk, Served,
     history, HasSession
<1>4. CASE Restart
  BY <1>1, <1>4, CancelInv DEF IInv, Restart
<1>5. ASSUME NEW s \in Sessions, DeleteSession(s) PROVE IInv'
  <2>1. ASSUME NEW r \in Requests PROVE TurnOk(r)'
    BY <1>5, PipelineAssumption
    DEF DeleteSession, Locked, IInv, TypeOK, TurnOk, history, HasSession
  <2>. QED  BY <1>1, <1>5, <2>1
     DEF DeleteSession, IInv, FrameOk, RunOk, HitOk, CacheOk, Served, history
<1>. QED  BY <1>2, <1>3, <1>4, <1>5 DEF World

LEMMA InvInit == Init => IInv
<1> SUFFICES ASSUME Init PROVE IInv
  OBVIOUS
<1>1. TypeOK
  BY TypeInit
<1>. QED  BY <1>1, PipelineAssumption
  DEF Init, IInv, FrameOk, RunOk, TurnOk, HitOk, CacheOk, HasSession, BeforeRun,
      AfterRun, Sound, Over, EarlyCodes

LEMMA InvStutter == IInv /\ UNCHANGED vars => IInv'
BY DEF vars, IInv, TypeOK, FrameOk, RunOk, TurnOk, HitOk, CacheOk, Served, HasSession

\* The invariant holds in every state of every instance of the pipeline.
THEOREM InductiveInvariant == Spec => []IInv
<1>1. IInv /\ [Next]_vars => IInv'
  BY InvStep, InvWorld, InvStutter DEF Next
<1>. QED  BY <1>1, InvInit, PTL DEF Spec

-----------------------------------------------------------------------------
(* The properties the runs check.                                          *)

\* Every variable of the pipeline stays in its range.
THEOREM PipelineTypeOK == Spec => []TypeOK
<1>1. IInv => TypeOK
  BY DEF IInv
<1>. QED  BY <1>1, InductiveInvariant, PTL

\* Lines 445-531: only the cleaned form of a validated SQL text is ever sent to
\* a target database.
THEOREM ValidSqlTheorem == Spec => []OnlyValidSqlRuns
<1>1. IInv => OnlyValidSqlRuns
  BY DEF IInv, RunOk, OnlyValidSqlRuns
<1>. QED  BY <1>1, InductiveInvariant, PTL

\* The error frames of the stages before EXECUTING are safe to retry on.
THEOREM EarlyErrorsTheorem == Spec => []EarlyErrorsLeaveNoTrace
<1>1. IInv => EarlyErrorsLeaveNoTrace
  <2> SUFFICES ASSUME IInv, NEW r \in Requests, code[r] \in EarlyCodes
               PROVE  /\ ran[r] = NULL
                      /\ pending[r] = {} /\ \A role \in Roles : <<r, role>> \notin messages
                      /\ \A c \in Connections : r \notin cache[c]
    BY DEF EarlyErrorsLeaveNoTrace
  <2>1. ran[r] = NULL
    BY DEF IInv, RunOk
  <2>2. code[r] # "none"
    BY DEF EarlyCodes
  <2>3. pc[r] = "done"
    BY <2>2 DEF IInv, FrameOk
  <2>4. pending[r] = {}
    BY <2>3 DEF IInv, TurnOk
  <2>5. ASSUME NEW role \in Roles PROVE <<r, role>> \notin messages
    BY <2>1 DEF IInv, TurnOk
  <2>6. ASSUME NEW c \in Connections PROVE r \notin cache[c]
    BY <2>1, PipelineAssumption DEF IInv, CacheOk, Served
  <2>. QED  BY <2>1, <2>4, <2>5, <2>6
<1>. QED  BY <1>1, InductiveInvariant, PTL

\* Lines 594-616: a turn is in the chat tables as a whole or not at all.
THEOREM WholeTurnsTheorem == Spec => []TurnsAreWhole
<1>1. IInv => TurnsAreWhole
  BY DEF IInv, TurnOk, TurnsAreWhole
<1>. QED  BY <1>1, InductiveInvariant, PTL

\* Lines 594-637: no turn of a stream that ran its query is lost silently.
THEOREM FreshAnswersTheorem == Spec => []FreshAnswersAreSaved
<1>1. IInv => FreshAnswersAreSaved
  BY DEF IInv, TypeOK, TurnOk, FreshAnswersAreSaved
<1>. QED  BY <1>1, InductiveInvariant, PTL

\* Lines 203-282 and 640-653: what the cache serves was completed for another
\* client of the same connection.
THEOREM CacheTheorem == Spec => []CacheServesCompletedAnswers
<1>1. IInv => CacheServesCompletedAnswers
  <2> SUFFICES ASSUME IInv PROVE CacheServesCompletedAnswers
    OBVIOUS
  <2>1. ASSUME NEW c \in Connections, NEW a \in cache[c]
        PROVE  /\ ConnOf[a] = c
               /\ sent[a] = "COMPLETE" /\ hit[a] = NULL /\ ran[a] # NULL
    BY <2>1 DEF IInv, CacheOk, Served
  <2>2. ASSUME NEW r \in Requests, hit[r] # NULL
        PROVE  /\ ConnOf[hit[r]] = ConnOf[r]
               /\ <<QuestionOf[r], QuestionOf[hit[r]]>> \in Similar
               /\ sent[hit[r]] = "COMPLETE" /\ ran[hit[r]] # NULL
               /\ ran[r] = NULL
    BY <2>2 DEF IInv, HitOk, Served, RunOk
  <2>. QED  BY <2>1, <2>2 DEF CacheServesCompletedAnswers
<1>. QED  BY <1>1, InductiveInvariant, PTL

-----------------------------------------------------------------------------
(* Failures of the cache.                                                  *)

Harmless(r) == (~HasSession(r) /\ code[r] \in OutageCodes) => faults[r] \ {"cache"} # {}

LEMMA FailHarmless ==
    ASSUME TypeOK, NEW r \in Requests, NEW c, NEW F, Fail(r, c, F),
           c \notin OutageCodes \/ \E f \in F : f # "cache"
    PROVE  Harmless(r)'
<1>1. code'[r] = c /\ faults'[r] = faults[r] \cup F
  BY DEF Fail, Blame, TypeOK
<1>2. CASE c \notin OutageCodes
  BY <1>1, <1>2 DEF Harmless
<1>3. CASE \E f \in F : f # "cache"
  <2>1. PICK f \in F : f # "cache"
    BY <1>3
  <2>2. f \in faults'[r] \ {"cache"}
    BY <1>1, <2>1
  <2>. QED  BY <2>2 DEF Harmless
<1>. QED  BY <1>2, <1>3

\* A step that fails has something to blame besides the cache, unless it fails on
\* the transaction of a session; any other step only adds to what is blamed.
LEMMA HarmlessStep ==
    ASSUME TypeOK, NEW r \in Requests, Step(r), Harmless(r)
    PROVE  Harmless(r)'
<1> USE DEF TypeOK, Goto, Send, SetTx, Blame, shared, history, HasSession, OutageCodes
<1>1. ASSUME code' = code, faults[r] \subseteq faults'[r]
      PROVE  Harmless(r)'
  BY <1>1 DEF Harmless
<1>2. CASE ReceiveUnknown(r) \/ MissSession(r) \/ SessionFault(r)
  BY <1>2, FailHarmless DEF ReceiveUnknown, MissSession, SessionFault
<1>3. CASE LoseConnection(r) \/ ExtractionFails(r)
  BY <1>3, FailHarmless DEF LoseConnection, ExtractionFails
<1>4. CASE HistoryRefused(r) \/ LoseHistory(r)
  <2>1. CASE HasSession(r)
    BY <1>4, <2>1 DEF HistoryRefused, LoseHistory, Harmless
  <2>2. CASE ~HasSession(r)
    BY <1>4, <2>2, FailHarmless DEF HistoryRefused, LoseHistory
  <2>. QED  BY <2>1, <2>2
<1>5. CASE GenerateNothing(r) \/ RefineFails(r)
  BY <1>5, FailHarmless DEF GenerateNothing, RefineFails
<1>6. CASE Reject(r)
  BY <1>6 DEF Reject, Fail, Harmless
<1>7. CASE NoEngine(r) \/ RunFails(r) \/ BuildFails(r)
  BY <1>7, FailHarmless DEF NoEngine, RunFails, BuildFails
<1>8. CASE \/ Receive(r) \/ FindSession(r) \/ LookupHit(r) \/ LookupMiss(r) \/ LookupFault(r)
           \/ UseSchema(r) \/ StubSchema(r) \/ StartExtraction(r) \/ ExtractSchema(r)
           \/ ReadHistory(r) \/ Generate(r) \/ Accept(r) \/ Refine(r)
  BY <1>1, <1>8 DEF Receive, FindSession, LookupHit, LookupMiss, LookupFault, UseSchema,
     StubSchema, StartExtraction, ExtractSchema, ReadHistory, Generate, Accept, Refine
<1>9. CASE \/ StartRun(r) \/ RunSucceeds(r) \/ WriteUser(r) \/ WriteAssistant(r)
           \/ CommitTurn(r) \/ RefuseTurn(r) \/ RollBackTurn(r) \/ Complete(r)
           \/ WriteBack(r) \/ WriteBackFails(r)
  BY <1>1, <1>9 DEF StartRun, RunSucceeds, WriteUser, WriteAssistant, WriteMessage,
     CommitTurn, RefuseTurn, RollBackTurn, UndoTurn, Complete, WriteBack, WriteBackFails
<1>. QED  BY <1>2, <1>3, <1>4, <1>5, <1>6, <1>7, <1>8, <1>9 DEF Step, Proceed, Suffer

\* Lines 203-289: without a session a failing cache is never the only reason why
\* a request fails.
THEOREM CacheFaultsTheorem == Spec => []CacheFaultsHarmlessWithoutSession
<1> USE DEF CacheFaultsHarmlessWithoutSession
<1>1. Init => CacheFaultsHarmlessWithoutSession
  BY DEF Init, OutageCodes
<1>2. IInv /\ CacheFaultsHarmlessWithoutSession /\ [Next]_vars
      => CacheFaultsHarmlessWithoutSession'
  <2> SUFFICES ASSUME IInv, CacheFaultsHarmlessWithoutSession, [Next]_vars
               PROVE  CacheFaultsHarmlessWithoutSession'
    OBVIOUS
  <2>1. ASSUME NEW r \in Requests, Step(r) PROVE CacheFaultsHarmlessWithoutSession'
    <3>1. Harmless(r)'
      BY <2>1, HarmlessStep DEF IInv, Harmless
    <3>2. ASSUME NEW o \in Requests, o # r
          PROVE  code'[o] = code[o] /\ faults'[o] = faults[o]
      BY <2>1, <3>2, OwnState DEF IInv
    <3>. QED  BY <3>1, <3>2 DEF Harmless, HasSession
  <2>2. CASE World \/ UNCHANGED vars
    <3>1. UNCHANGED <<code, faults>>
      BY <2>2 DEF World, ClientLeaves, Cancel, Disconnect, Restart, DeleteSession, history, vars
    <3>. QED  BY <3>1 DEF HasSession
  <2>. QED  BY <2>1, <2>2 DEF Next
<1>. QED  BY <1>1, <1>2, InductiveInvariant, PTL DEF Spec

-----------------------------------------------------------------------------
(* The pipeline implements the protocol its clients see.                   *)

ProtocolGone == {r \in Requests : pc[r] = "cancelled"}

LEMMA ContractInit == Init => P!ProtocolInit
BY DEF Init, P!ProtocolInit

\* A step of a stream that yields no frame is a stutter of the protocol, one
\* that yields a frame is a step of it.
LEMMA ContractStep ==
    ASSUME IInv, NEW r \in Requests, Step(r)
    PROVE  P!ProtocolNext \/ UNCHANGED P!protocolVars
<1>1. /\ pc[r] \notin Over /\ TypeOK /\ FrameOk(r)
  BY StepShared DEF IInv
<1>2. pc'[r] # "cancelled" /\ ProtocolGone' = ProtocolGone /\ r \notin ProtocolGone
  <2>1. pc'[r] # "cancelled"
    BY <1>1 DEF Step, Proceed, Suffer, Goto, TypeOK, Receive, ReceiveUnknown, FindSession, MissSession, LookupHit,
       LookupMiss, LookupFault, UseSchema, LoseConnection, StubSchema,
       StartExtraction, ExtractSchema, ExtractionFails, SessionFault, HistoryRefused,
       RefuseTurn, UndoTurn, ReadHistory,
       LoseHistory, Generate, GenerateNothing, Accept, Reject,
       Refine, RefineFails, StartRun, NoEngine, RunSucceeds,
       RunFails, WriteUser, WriteAssistant, CommitTurn,
       RollBackTurn, Complete, BuildFails, WriteBack,
       WriteBackFails, WriteMessage, Fail
  <2>2. \A o \in Requests : o # r => pc'[o] = pc[o]
    BY <1>1, OwnState
  <2>. QED  BY <1>1, <2>1, <2>2 DEF ProtocolGone, Over
<1>3. ASSUME NEW f, Send(r, f) PROVE P!Emit(r, f)
  BY <1>2, <1>3 DEF Send, P!Emit, ProtocolGone
<1>4. ASSUME NEW c, NEW F, Fail(r, c, F), sent[r] \notin {"COMPLETE", "ERROR"}
      PROVE  P!ProtocolNext
  BY <1>3, <1>4 DEF Fail, P!Fail, P!Final, P!ProtocolStep, P!ProtocolNext
<1>5. ASSUME sent' = sent PROVE UNCHANGED P!protocolVars
  BY <1>2, <1>5 DEF P!protocolVars, ProtocolGone
<1>6. ASSUME NEW i \in 1..6, sent[r] = P!Stages[i], Send(r, P!Stages[i + 1])
      PROVE  P!ProtocolNext
  BY <1>3, <1>6 DEF P!Progress, P!ProtocolStep, P!ProtocolNext
<1>7. /\ P!Stages[1] = "NOTHING" /\ P!Stages[2] = "RECEIVED"
      /\ P!Stages[3] = "EXTRACTING_SCHEMA" /\ P!Stages[4] = "SCHEMA_EXTRACTED"
      /\ P!Stages[5] = "GENERATING_SQL" /\ P!Stages[6] = "VALIDATING_SQL"
      /\ P!Stages[7] = "EXECUTING"
  BY DEF P!Stages
<1>8. ASSUME sent[r] \in {"RECEIVED", "EXECUTING"}, Send(r, "COMPLETE")
      PROVE  P!ProtocolNext
  BY <1>3, <1>8 DEF P!Answer, P!ProtocolStep, P!ProtocolNext
<1>9. CASE Receive(r)
  <2>1. 1 \in 1..6 /\ sent[r] = P!Stages[1] /\ Send(r, P!Stages[1 + 1])
    BY <1>1, <1>7, <1>9 DEF Receive, FrameOk
  <2>. QED  BY <2>1, <1>6
<1>10. CASE ReceiveUnknown(r)
  BY <1>1, <1>4, <1>10 DEF ReceiveUnknown, FrameOk
<1>11. CASE FindSession(r)
  BY <1>5, <1>11 DEF FindSession
<1>12. CASE MissSession(r) \/ SessionFault(r)
  BY <1>1, <1>4, <1>12 DEF MissSession, SessionFault, FrameOk
<1>13. CASE LookupHit(r)
  BY <1>1, <1>8, <1>13 DEF LookupHit, FrameOk
<1>14. CASE LookupMiss(r)
  <2>1. 2 \in 1..6 /\ sent[r] = P!Stages[2] /\ Send(r, P!Stages[2 + 1])
    BY <1>1, <1>7, <1>14 DEF LookupMiss, FrameOk
  <2>. QED  BY <2>1, <1>6
<1>15. CASE LookupFault(r)
  <2>1. 2 \in 1..6 /\ sent[r] = P!Stages[2] /\ Send(r, P!Stages[2 + 1])
    BY <1>1, <1>7, <1>15 DEF LookupFault, FrameOk
  <2>. QED  BY <2>1, <1>6
<1>16. CASE UseSchema(r) \/ StubSchema(r) \/ ExtractSchema(r)
  <2>1. 3 \in 1..6 /\ sent[r] = P!Stages[3] /\ Send(r, P!Stages[3 + 1])
    BY <1>1, <1>7, <1>16 DEF UseSchema, StubSchema, ExtractSchema, FrameOk
  <2>. QED  BY <2>1, <1>6
<1>17. CASE LoseConnection(r) \/ ExtractionFails(r)
  BY <1>1, <1>4, <1>17 DEF LoseConnection, ExtractionFails, FrameOk
<1>18. CASE ReadHistory(r)
  <2>1. 4 \in 1..6 /\ sent[r] = P!Stages[4] /\ Send(r, P!Stages[4 + 1])
    BY <1>1, <1>7, <1>18 DEF ReadHistory, FrameOk
  <2>. QED  BY <2>1, <1>6
<1>19. CASE LoseHistory(r) \/ HistoryRefused(r)
  BY <1>1, <1>4, <1>19 DEF LoseHistory, HistoryRefused, FrameOk
<1>20. CASE Generate(r)
  <2>1. 5 \in 1..6 /\ sent[r] = P!Stages[5] /\ Send(r, P!Stages[5 + 1])
    BY <1>1, <1>7, <1>20 DEF Generate, FrameOk
  <2>. QED  BY <2>1, <1>6
<1>21. CASE GenerateNothing(r)
  BY <1>1, <1>4, <1>21 DEF GenerateNothing, FrameOk
<1>22. CASE Accept(r)
  <2>1. 6 \in 1..6 /\ sent[r] = P!Stages[6] /\ Send(r, P!Stages[6 + 1])
    BY <1>1, <1>7, <1>22 DEF Accept, FrameOk
  <2>. QED  BY <2>1, <1>6
<1>23. CASE Reject(r)
  BY <1>1, <1>4, <1>5, <1>23 DEF Reject, FrameOk
<1>24. CASE Refine(r)
  BY <1>5, <1>24 DEF Refine
<1>25. CASE RefineFails(r)
  BY <1>1, <1>4, <1>25 DEF RefineFails, FrameOk
<1>26. CASE StartRun(r)
  BY <1>5, <1>26 DEF StartRun
<1>27. CASE NoEngine(r)
  BY <1>1, <1>4, <1>27 DEF NoEngine, FrameOk
<1>28. CASE RunSucceeds(r)
  BY <1>5, <1>28 DEF RunSucceeds
<1>29. CASE RunFails(r)
  BY <1>1, <1>4, <1>29 DEF RunFails, FrameOk
<1>30. CASE WriteUser(r)
  BY <1>5, <1>30 DEF WriteUser, WriteMessage
<1>31. CASE WriteAssistant(r)
  BY <1>5, <1>31 DEF WriteAssistant, WriteMessage
<1>32. CASE CommitTurn(r)
  BY <1>5, <1>32 DEF CommitTurn
<1>33. CASE RefuseTurn(r) \/ RollBackTurn(r)
  BY <1>5, <1>33 DEF RefuseTurn, RollBackTurn, UndoTurn
<1>34. CASE Complete(r)
  BY <1>1, <1>8, <1>34 DEF Complete, FrameOk, AfterRun
<1>35. CASE BuildFails(r)
  BY <1>1, <1>4, <1>35 DEF BuildFails, FrameOk, AfterRun
<1>36. CASE WriteBack(r)
  BY <1>5, <1>36 DEF WriteBack
<1>37. CASE WriteBackFails(r)
  BY <1>5, <1>37 DEF WriteBackFails
<1>38. CASE StartExtraction(r)
  BY <1>5, <1>38 DEF StartExtraction
<1>. QED
  BY <1>9, <1>10, <1>11, <1>12, <1>13, <1>14, <1>15, <1>16, <1>17, <1>18,
     <1>19, <1>20, <1>21, <1>22, <1>23, <1>24, <1>25, <1>26, <1>27, <1>28,
     <1>29, <1>30, <1>31, <1>32, <1>33, <1>34, <1>35, <1>36, <1>37, <1>38
  DEF Step, Proceed, Suffer

\* A hang-up and a restart end streams without a frame; the other steps of the
\* world change nothing a client sees.
LEMMA ContractWorld ==
    ASSUME IInv, World
    PROVE  P!ProtocolNext \/ UNCHANGED P!protocolVars
<1>1. TypeOK
  BY DEF IInv
<1>2. ASSUME NEW R \in SUBSET Requests, Cancel(R)
      PROVE  P!ProtocolNext
  <2>1. ProtocolGone' = ProtocolGone \cup R
    BY <1>1, <1>2 DEF ProtocolGone, Cancel, TypeOK
  <2>2. sent' = sent
    BY <1>2 DEF Cancel
  <2>3. P!HangUp(R)
    BY <2>1, <2>2 DEF P!HangUp, ProtocolGone
  <2>. QED  BY <2>3 DEF P!ProtocolNext
<1>3. ASSUME UNCHANGED <<sent, pc>> PROVE UNCHANGED P!protocolVars
  BY <1>3 DEF P!protocolVars
<1>4. ASSUME NEW r \in Requests, ClientLeaves(r) PROVE P!ProtocolNext
  BY <1>2, <1>4 DEF ClientLeaves
<1>5. CASE Restart
  BY <1>2, <1>5 DEF Restart
<1>6. ASSUME NEW c \in Connections, Disconnect(c) PROVE UNCHANGED P!protocolVars
  BY <1>3, <1>6 DEF Disconnect
<1>7. ASSUME NEW s \in Sessions, DeleteSession(s) PROVE UNCHANGED P!protocolVars
  BY <1>3, <1>7 DEF DeleteSession
<1>. QED  BY <1>4, <1>5, <1>6, <1>7 DEF World

LEMMA ContractNext == IInv /\ [Next]_vars => [P!ProtocolNext]_(P!protocolVars)
<1> SUFFICES ASSUME IInv, [Next]_vars
             PROVE  P!ProtocolNext \/ UNCHANGED P!protocolVars
  OBVIOUS
<1>1. CASE UNCHANGED vars
  BY <1>1 DEF vars, P!protocolVars
<1>2. CASE Next
  BY <1>2, ContractStep, ContractWorld DEF Next
<1>. QED  BY <1>1, <1>2

\* Whatever the streams and the world do, and for any number of them, each
\* client sees its frames in the order of the stages and none after a final one.
THEOREM ContractTheorem == Spec => StreamContract
BY ContractNext, ContractInit, InductiveInvariant, PTL
   DEF Spec, StreamContract, P!ProtocolSpec

\* COMPLETE and ERROR are final and a client that has left gets no more frames:
\* what the protocol says of a stream once it is over (run_query_pipeline returns
\* after each of its final frames).
NothingFollows ==
    \A r \in Requests : sent[r] \in {"COMPLETE", "ERROR"} \/ pc[r] = "cancelled" =>
        sent'[r] = sent[r]

\* run_query_pipeline sends no frame after the final one of a stream, and never a
\* second final one.
THEOREM FinalTheorem == Spec => [][NothingFollows]_vars
<1>1. ASSUME TypeOK, NEW q \in Requests, P!ProtocolStep(q) PROVE NothingFollows
  <2>1. PICK f : P!Emit(q, f)
    BY <1>1 DEF P!ProtocolStep, P!Progress, P!Answer, P!Fail
  <2>2. pc[q] # "cancelled" /\ \A r \in Requests : r # q => sent'[r] = sent[r]
    BY <1>1, <2>1 DEF P!Emit, TypeOK
  <2>3. sent[q] \notin {"COMPLETE", "ERROR"}
    BY <1>1 DEF P!ProtocolStep, P!Progress, P!Answer, P!Fail, P!Final, P!Stages
  <2>. QED  BY <2>2, <2>3 DEF NothingFollows
<1>2. TypeOK /\ [P!ProtocolNext]_(P!protocolVars) => NothingFollows
  BY <1>1 DEF P!ProtocolNext, P!HangUp, P!protocolVars, NothingFollows
<1>3. IInv => TypeOK
  BY DEF IInv
<1>. QED  BY <1>2, <1>3, ContractNext, InductiveInvariant, PTL DEF Spec
=============================================================================
