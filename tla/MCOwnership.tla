----------------------------- MODULE MCOwnership -----------------------------
(* Two attach processes, one stop process and two owners in turn.           *)
EXTENDS Ownership

=============================================================================
