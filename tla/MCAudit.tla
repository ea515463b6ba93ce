------------------------------- MODULE MCAudit -------------------------------
(***************************************************************************)
(* Instance of Audit for TLC: explicit flushes are interchangeable.        *)
(***************************************************************************)
EXTENDS Audit

Symmetry == Permutations(Calls)
=============================================================================
