---------------------------- MODULE MCSupervisor ----------------------------
(* Three children, two crashes: one may come before the stop signal, one   *)
(* after it, to the same child or to different ones.                       *)
EXTENDS Supervisor
=============================================================================
