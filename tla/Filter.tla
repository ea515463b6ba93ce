------------------------------- MODULE Filter -------------------------------
(***************************************************************************)
(* Array.prototype.filter, which also stands for a Map without a key, and  *)
(* for a search of a mailbox.                                              *)
(***************************************************************************)
EXTENDS Naturals, Sequences

\* The elements of s that are in S, in their order.
Kept(s, S) ==
  LET f[i \in 0..Len(s)] ==
        IF i = 0 THEN <<>> ELSE IF s[i] \in S THEN Append(f[i - 1], s[i]) ELSE f[i - 1]
  IN f[Len(s)]
=============================================================================
