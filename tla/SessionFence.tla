---------------------------- MODULE SessionFence ----------------------------
(****************************************************************************)
(* What one client identity is promised: owners take turns, each turn has   *)
(* at most one app-server, which ends before its turn does and never comes  *)
(* back, and at most one client at a time writes to it.                     *)
(****************************************************************************)

CONSTANTS Clients, Owners, None

VARIABLES
    holder,  \* the owner whose turn it is, or None
    phase,   \* "free", "claimed", "running", "spent"
    writer   \* the client that writes to the app-server, or None

vars == <<holder, phase, writer>>

Init == holder = None /\ phase = "free" /\ writer = None

Claim == \E o \in Owners :
    /\ phase = "free" /\ phase' = "claimed"
    /\ holder' = o
    /\ UNCHANGED writer

Start == /\ phase = "claimed" /\ phase' = "running"
         /\ UNCHANGED <<holder, writer>>

Grant == \E c \in Clients :
    /\ phase = "running" /\ writer = None
    /\ writer' = c
    /\ UNCHANGED <<holder, phase>>

Revoke == /\ writer # None /\ writer' = None
          /\ UNCHANGED <<holder, phase>>

Halt == /\ phase = "running" /\ phase' = "spent"
        /\ writer' = None
        /\ UNCHANGED holder

Release == /\ phase \in {"claimed", "spent"} /\ phase' = "free"
           /\ holder' = None
           /\ UNCHANGED writer

Next == Claim \/ Start \/ Grant \/ Revoke \/ Halt \/ Release

Spec == Init /\ [][Next]_vars

=============================================================================
