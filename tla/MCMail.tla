------------------------------- MODULE MCMail -------------------------------
(***************************************************************************)
(* Instance of Mail for TLC.                                               *)
(***************************************************************************)
EXTENDS Mail
=============================================================================
