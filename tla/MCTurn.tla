------------------------------- MODULE MCTurn -------------------------------
(***************************************************************************)
(* Instances of Turn for TLC.                                              *)
(***************************************************************************)
EXTENDS Turn, TLC

CONSTANTS t1, t2, s1

\* Every turn is a turn of the one session: they share its queue and its file.
OneSession == [t \in Turns |-> s1]
TurnSymmetry == Permutations(Turns)
=============================================================================
