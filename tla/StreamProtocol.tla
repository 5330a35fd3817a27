--------------------------- MODULE StreamProtocol ---------------------------
(***************************************************************************)
(* What a client of POST /api/v1/chat/query may rely on: the order of the  *)
(* SSE frames of one stream, seen from outside.  A stream announces its    *)
(* stages one after the other, skipping none; it is answered either from   *)
(* the cache, right after RECEIVED, or after the query was run; it can     *)
(* fail at any stage; and COMPLETE and ERROR are final.  A client that     *)
(* hangs up gets no more frames.                                           *)
(***************************************************************************)
EXTENDS Naturals

CONSTANT Requests      \* the calls of the endpoint

VARIABLES sent,        \* sent[r]: the last frame of stream r
          gone         \* the streams that ended without a final frame

protocolVars == <<sent, gone>>

\* The frames in the order of the stages.  The schema stage sends two frames,
\* the second one with the real table count (here SCHEMA_EXTRACTED).
Stages == << "NOTHING", "RECEIVED", "EXTRACTING_SCHEMA", "SCHEMA_EXTRACTED",
             "GENERATING_SQL", "VALIDATING_SQL", "EXECUTING" >>

Final == {"COMPLETE", "ERROR"}

Frames == {Stages[i] : i \in 1..7} \cup Final

ProtocolTypeOK == /\ sent \in [Requests -> Frames]
                  /\ gone \in SUBSET Requests

-----------------------------------------------------------------------------
ProtocolInit == /\ sent = [r \in Requests |-> "NOTHING"]
                /\ gone = {}

Emit(r, f) == /\ r \notin gone
              /\ sent' = [sent EXCEPT ![r] = f]
              /\ UNCHANGED gone

\* The stream announces its next stage.
Progress(r) == \E i \in 1..6 : sent[r] = Stages[i] /\ Emit(r, Stages[i + 1])

\* The stream is answered, from the cache or with the result of the query.
Answer(r) == sent[r] \in {"RECEIVED", "EXECUTING"} /\ Emit(r, "COMPLETE")

\* The stream ends with an error, wherever it was.
Fail(r) == sent[r] \notin Final /\ Emit(r, "ERROR")

\* Streams end without a final frame: the client hung up, or the process died.
HangUp(R) == /\ gone' = gone \cup R
             /\ UNCHANGED sent

ProtocolStep(r) == Progress(r) \/ Answer(r) \/ Fail(r)

ProtocolNext == \/ \E r \in Requests : ProtocolStep(r)
                \/ \E R \in SUBSET Requests : HangUp(R)

\* The contract.  It asks for no progress: a target that never answers the query
\* for its schema may leave a stream silent.
ProtocolSpec == ProtocolInit /\ [][ProtocolNext]_protocolVars
=============================================================================
