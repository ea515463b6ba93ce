------------------------------ MODULE MCGateway ------------------------------
(***************************************************************************)
(* Instance of Gateway for TLC: connections, sessions and turns are        *)
(* interchangeable.                                                        *)
(***************************************************************************)
EXTENDS Gateway

Symmetry == Permutations(Conns) \cup Permutations(Sessions) \cup Permutations(Turns)
=============================================================================
