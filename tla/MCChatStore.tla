---------------------------- MODULE MCChatStore ----------------------------
(***************************************************************************)
(* Small instances of ChatStore for TLC.                                   *)
(***************************************************************************)
EXTENDS ChatStore

CONSTANTS c1, t1, q1, d1, d2, r1

\* Everything is about one session.
MCSessionOf == [t \in Calls |-> c1]
=============================================================================
