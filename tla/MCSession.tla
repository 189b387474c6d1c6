------------------------------ MODULE MCSession ------------------------------
(* The session owner's loop on small instances. *)
EXTENDS Session
=============================================================================
