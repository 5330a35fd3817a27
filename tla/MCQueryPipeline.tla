-------------------------- MODULE MCQueryPipeline --------------------------
(***************************************************************************)
(* Small instances of QueryPipeline for TLC.                               *)
(***************************************************************************)
EXTENDS QueryPipeline

CONSTANTS r1, r2, c1, c2, s1, q1, q2, good, bad, empty, goodClean, otherClean

\* Two streams of one session, on one connection.
MCSameConn    == [r \in Requests |-> c1]
MCSameSession == [r \in Requests |-> s1]

\* r1 belongs to a session and asks the MongoDB connection c2; r2 has no
\* session and asks c1.
MCOneInSession == [r \in Requests |-> IF r = r1 THEN s1 ELSE NULL]
MCTwoConns     == [r \in Requests |-> IF r = r1 THEN c2 ELSE c1]

\* The streams ask different questions, which are similar enough for a hit.
MCQuestions  == [r \in Requests |-> IF r = r1 THEN q1 ELSE q2]
MCAllSimilar == Questions \X Questions

MCClean == [s \in Answers |-> IF s = good THEN goodClean ELSE otherClean]
=============================================================================
