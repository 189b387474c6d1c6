----------------------------- MODULE MCTakeover -----------------------------
(* Two managers that contend for one thread of the shared runtime. *)
EXTENDS Takeover
=============================================================================
