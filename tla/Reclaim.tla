------------------------------- MODULE Reclaim -------------------------------
(****************************************************************************)
(* The two decisions the owner asks for in every turn of its loop: the      *)
(* reclaim controller (src/src/reclaim.rs) and the descriptor policy        *)
(* (src/src/fd_guard.rs).  Both are functions of what they are given.       *)
(****************************************************************************)
EXTENDS Naturals

CONSTANTS
    IdleAfter,  \* idle time after which an idle drain begins
    DrainFor,   \* how long a drain lasts before it reclaims
    Warn, Recycle, Hard,  \* descriptor thresholds
    IdleFor     \* idle time a soft recycle needs

ASSUME ReclaimAssumption ==
    /\ IdleAfter \in Nat /\ DrainFor \in Nat /\ IdleFor \in Nat
    /\ Warn \in Nat /\ Recycle \in Nat /\ Hard \in Nat
    /\ 0 < Warn /\ Warn < Recycle /\ Recycle < Hard

Reasons == {"archive", "idle"}

\* What the controller looks at: a protocol snapshot and how long the client has been idle.
Snapshots == [active : Nat, reliable : BOOLEAN, generation : Nat, idle : Nat, epoch : Nat]

NoDrain == [reason |-> "none", at |-> 0, generation |-> 0]

Drains == [reason : Reasons, at : Nat, generation : Nat]

Controllers == [seen : Nat, drain : Drains \cup {NoDrain}]

NewController == [seen |-> 0, drain |-> NoDrain]

Draining(c) == c.drain.reason \in Reasons

Quiet(s) == s.reliable /\ s.active = 0

\* Work, an unreliable observation or any client activity since the drain began.
Cancels(d, s) == ~Quiet(s) \/ s.generation # d.generation

Larger(m, n) == IF m >= n THEN m ELSE n

Answer(c, action, reason) == [controller |-> c, action |-> action, reason |-> reason]

\* A drain is cancelled, reclaims when its time is over, or goes on.
ContinueDrain(c, now, s) ==
    IF Cancels(c.drain, s) THEN Answer([c EXCEPT !.drain = NoDrain], "cancelled", c.drain.reason)
    ELSE IF now - c.drain.at >= DrainFor THEN Answer(c, "reclaim", c.drain.reason)
    ELSE Answer(c, "none", "none")

\* An archive epoch not seen before comes first; it is seen even when it starts nothing else.
StartDrain(c, now, s) ==
    LET reason == IF s.epoch > c.seen THEN "archive"
                  ELSE IF s.idle >= IdleAfter THEN "idle" ELSE "none"
        seen == Larger(c.seen, s.epoch)
    IN  IF reason = "none" THEN Answer([c EXCEPT !.seen = seen], "none", "none")
        ELSE Answer([seen |-> seen,
                     drain |-> [reason |-> reason, at |-> now, generation |-> s.generation]],
                    "started", reason)

Evaluate(c, now, s) ==
    IF Draining(c) THEN ContinueDrain(c, now, s)
    ELSE IF Quiet(s) THEN StartDrain(c, now, s)
    ELSE Answer(c, "none", "none")

FdAction(count, active, idle) ==
    CASE count >= Hard -> "hard"
      [] Recycle <= count /\ count < Hard /\ active = 0 /\ idle >= IdleFor -> "recycle"
      [] Warn <= count /\ count < Hard /\ ~(Recycle <= count /\ active = 0 /\ idle >= IdleFor) -> "warn"
      [] OTHER -> "healthy"

=============================================================================
