------------------------ MODULE MCConnectionRegistry ------------------------
(***************************************************************************)
(* A small instance of ConnectionRegistry for TLC.                         *)
(***************************************************************************)
EXTENDS ConnectionRegistry

CONSTANTS p1, p2, c1, v1, d1, d2

\* Everything is about one connection.
MCIdOf == [t \in Calls |-> c1]
=============================================================================
