------------------------------ MODULE MCContext ------------------------------
(***************************************************************************)
(* Instance of Context for TLC: a budget of a few tokens, light and heavy  *)
(* entries, system prompts that leave room, just room for a heavy entry,   *)
(* or none.                                                                *)
(***************************************************************************)
EXTENDS Context

MCWeights == {1, 4}
MCCallWeights == {0, 4}
MCResultWeights == {1, 7}
MCSummaryWeights == {1, 4}
MCSystemWeights == {2, 4, 9}
=============================================================================
