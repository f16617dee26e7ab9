------------------------------ MODULE MCStream ------------------------------
(* An instance of Stream for TLC. *)
EXTENDS Stream

\* The stream's window binds, the session's does, or both at once.
MCWindows == {<<2, 3>>, <<3, 2>>, <<4, 4>>}
=============================================================================
