---------------------------- MODULE MCSupervisor ----------------------------
(* A worker, one more number for its descendants or strangers, and each of the three endings. *)
EXTENDS Supervisor
=============================================================================
