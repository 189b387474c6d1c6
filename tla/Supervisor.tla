----------------------------- MODULE Supervisor -----------------------------
(****************************************************************************)
(* Who ends a worker, when, and how (src/src/supervisor.rs and the guardian *)
(* of src/src/session.rs).  One of three processes is at work:              *)
(*   legacy    run(): the loop of the single-process mode and its ending;   *)
(*   guardian  guard_worker(): samples its registry, cleans up on drop;     *)
(*   owner     Runtime::drop after the guardian has failed.                 *)
(* Looking at the process table and signalling what was seen are two steps. *)
(* One tick of the clock is one turn of the legacy loop.                    *)
(****************************************************************************)
EXTENDS ProcessTree, Reclaim, Sequences

CONSTANTS
    EofGrace,    \* CODEX_MANAGED_EOF_GRACE_SECS
    TermGrace,   \* CODEX_MANAGED_TERM_GRACE_SECS
    MaxActivity  \* bound: chunks from the client

ASSUME SupervisorAssumption ==
    EofGrace \in Nat /\ TermGrace \in Nat /\ MaxActivity \in Nat

VARIABLES
    role,
    todo,        \* the steps the supervisor has still to take
    left,        \* ticks left of the present wait
    targets,     \* the groups it is about to signal
    registry,    \* its ProcessRegistry
    blind,       \* history: the last sample of the registry failed
    client,      \* the client's input: open, closed, or noticed to be closed
    sinceEof,    \* ticks since eof_at
    obs,         \* what the protocol observer says
    idle,        \* ticks since the client's last activity, at most IdleAfter
    quiet,       \* ticks since any activity, at most IdleFor
    controller,  \* the reclaim controller
    drained      \* ticks since the drain began

plan == <<role, todo, left, targets>>
sampling == <<registry, blind>>
session == <<client, sinceEof, obs, idle, quiet, controller, drained>>
vars == <<world, plan, sampling, session>>

Steps == {"poll", "sample", "sleep", "watch", "regTerm", "term", "tree", "grace", "kill", "reap",
          "sweep", "regKill", "nap", "joinOutput", "waitServer"}

\* terminate_group, cleanup_remaining_group, and the endings they are part of.
Terminate == <<"tree", "grace", "kill", "reap">>
Sweep == <<"sweep", "kill">>
LegacyEnd == Sweep \o <<"joinOutput", "waitServer">>
GuardianEnd == <<"regTerm", "term">> \o Terminate \o Sweep \o <<"regKill", "kill">>
OwnerEnd == <<"regTerm", "term", "nap", "regKill", "kill">>

Done == todo = <<>>
At(step) == todo # <<>> /\ Head(todo) = step
Advance == todo' = Tail(todo)

\* The child whose exit terminate_group waits for.
Child == IF role = "legacy" THEN Proxy ELSE Root

TypeOK ==
    /\ WorldOK
    /\ role \in {"legacy", "guardian", "owner"}
    /\ todo \in Seq(Steps) /\ left \in 0..TermGrace /\ targets \subseteq Pids
    /\ registry.known \subseteq Pids \X Pids \X (1..MaxStarts) /\ registry.stamp \in 0..MaxStarts
    /\ blind \in BOOLEAN
    /\ client \in {"open", "closed", "noticed"} /\ sinceEof \in Nat
    /\ obs \in [active : 0..1, reliable : BOOLEAN, generation : 0..MaxActivity, epoch : 0..MaxActivity]
    /\ idle \in 0..IdleAfter /\ quiet \in 0..IdleFor
    /\ controller \in Controllers /\ drained \in 0..DrainFor

\* The owner's registry was sampled once, when the guardian had reported the worker.
Init ==
    /\ \/ role = "legacy" /\ InitWorld(1, {Root, Proxy}) /\ todo = <<"poll">>
       \/ role = "guardian" /\ InitWorld(0, {Root}) /\ todo = <<"watch">>
       \/ role = "owner" /\ InitWorld(0, {}) /\ todo = <<"watch">>
    /\ left = 0 /\ targets = {} /\ blind = FALSE
    /\ registry = IF role = "owner" THEN Refresh(NewRegistry) ELSE NewRegistry
    /\ client = "open" /\ sinceEof = 0
    /\ obs = [active |-> 0, reliable |-> TRUE, generation |-> 0, epoch |-> 0]
    /\ idle = 0 /\ quiet = 0 /\ controller = NewController /\ drained = 0

-----------------------------------------------------------------------------
(* The loop of run().                                                       *)

LoopOver(ending) == todo' = ending /\ UNCHANGED <<role, left, targets>>

\* A child that has exited ends the loop; what is left of the worker is swept.
LegacySeesExit ==
    /\ At("poll")
    /\ Reap(IF table[Proxy].zombie THEN Proxy ELSE Root)
    /\ LoopOver(LegacyEnd)
    /\ UNCHANGED <<sampling, session>>

BothRun == ~table[Proxy].zombie /\ ~table[Root].zombie

\* eof_at is set in the turn that finds the input closed.
Noticed == IF client = "closed" THEN "noticed" ELSE client

EofOver == Noticed = "noticed" /\ sinceEof >= EofGrace

LegacyEofExpires ==
    /\ At("poll") /\ BothRun /\ EofOver
    /\ client' = Noticed
    /\ LoopOver(Terminate \o LegacyEnd)
    /\ UNCHANGED <<world, sampling, sinceEof, obs, idle, quiet, controller, drained>>

\* The observer is asked without the client's copier being held off.
LegacyEvaluates ==
    LET snapshot == [active |-> obs.active, reliable |-> obs.reliable, generation |-> obs.generation,
                     idle |-> idle, epoch |-> obs.epoch]
        answer == Evaluate(controller, drained, snapshot)
    IN  /\ At("poll") /\ BothRun /\ ~EofOver
        /\ client' = Noticed
        /\ controller' = answer.controller
        /\ drained' = IF Draining(answer.controller) THEN drained ELSE 0
        /\ LoopOver(IF answer.action = "reclaim" THEN Terminate \o LegacyEnd ELSE <<"sample">>)
        /\ UNCHANGED <<world, sampling, sinceEof, obs, idle, quiet>>

\* A sample is not due, fails, or counts descriptors; reliability is not asked for.
LegacySamples ==
    /\ At("sample")
    /\ \/ LoopOver(<<"sleep">>)
       \/ \E count \in {Warn, Recycle, Hard} :
             FdAction(count, obs.active, quiet) \in {"recycle", "hard"} /\ LoopOver(Terminate \o LegacyEnd)
    /\ UNCHANGED <<world, sampling, session>>

\* The copiers: client requests and answers pass the observer while the loop runs.
Traffic ==
    /\ role = "legacy" /\ ~Done /\ quiet' = 0
    /\ \/ /\ client = "open" /\ obs.generation < MaxActivity
          /\ idle' = 0
          /\ \/ \E active \in {obs.active, 1} :
                   obs' = [obs EXCEPT !.generation = @ + 1, !.active = active]
             \/ obs' = [obs EXCEPT !.generation = @ + 1, !.reliable = FALSE]
       \/ /\ obs.active = 1 \/ obs.epoch < obs.generation
          /\ UNCHANGED idle
          /\ \/ obs.active = 1 /\ obs' = [obs EXCEPT !.active = 0]
             \/ obs.epoch < obs.generation /\ obs' = [obs EXCEPT !.epoch = @ + 1]
    /\ UNCHANGED <<world, plan, sampling, client, sinceEof, controller, drained>>

ClientCloses ==
    /\ client = "open"
    /\ client' = "closed"
    /\ UNCHANGED <<world, plan, sampling, sinceEof, obs, idle, quiet, controller, drained>>

-----------------------------------------------------------------------------
(* The guardian and the owner.  Their pipe stands for the client's input.   *)

\* /bin/ps may fail; a sample that failed leaves the registry alone.
Sampled(known) == table' = Recorded(known) /\ UNCHANGED <<starts, children>>

Sample ==
    \/ /\ registry' = Refresh(registry)
       /\ Sampled(registry'.known)
       /\ blind' = FALSE
    \/ blind' = TRUE /\ UNCHANGED <<registry, world>>

GuardianSamples ==
    /\ role = "guardian" /\ todo = <<"watch">>
    /\ Sample
    /\ todo' = <<"watch", "watch">>
    /\ UNCHANGED <<role, left, targets, session>>

\* After each sample the guardian looks for the server's exit, then for the owner's pipe.
GuardianWatches ==
    /\ role = "guardian" /\ todo = <<"watch", "watch">>
    /\ \/ Reap(Root) /\ LoopOver(GuardianEnd)
       \/ client # "open" /\ UNCHANGED world /\ LoopOver(GuardianEnd)
       \/ client = "open" /\ ~table[Root].zombie /\ UNCHANGED world /\ LoopOver(<<"watch">>)
    /\ UNCHANGED <<sampling, session>>

\* The guardian is dead; the owner ends and has seen its failure.
OwnerDrops ==
    /\ role = "owner" /\ At("watch") /\ client # "open"
    /\ LoopOver(OwnerEnd)
    /\ UNCHANGED <<world, sampling, session>>

\* ProcessRegistry::signal: sample, then signal the groups known; nothing when ps fails.
RegistryLooks ==
    /\ At("regTerm") \/ At("regKill")
    /\ Sample
    /\ targets' = IF blind' THEN {} ELSE {t[2] : t \in registry'.known}
    /\ Advance
    /\ UNCHANGED <<role, left, session>>

-----------------------------------------------------------------------------
(* Ending a worker.  A process may exit at SIGTERM as at any other time.    *)

RegistryTerms ==
    /\ At("term")
    /\ Advance /\ targets' = {} /\ left' = TermGrace
    /\ UNCHANGED <<world, role, sampling, session>>

\* Without ps, the worker's own group is all there is.
TreeLooks ==
    /\ At("tree") \/ At("sweep")
    /\ targets' \in {TreeGroups, {Root}}
    /\ left' = IF At("tree") THEN TermGrace ELSE left
    /\ Advance
    /\ UNCHANGED <<world, role, sampling, session>>

\* Mutant: the child is waited for without a limit.
GraceEndsWithChild ==
    /\ At("grace")
    /\ Reap(Child) \/ (Reaped(Child) /\ UNCHANGED world)
    /\ Advance
    /\ UNCHANGED <<role, left, targets, sampling, session>>

\* try_wait finds the child, which is reaped at once, or the grace is over.
GraceEnds ==
    /\ At("grace")
    /\ \/ Reap(Child)
       \/ (Reaped(Child) \/ left = 0) /\ UNCHANGED world
    /\ Advance
    /\ UNCHANGED <<role, left, targets, sampling, session>>

KillTargets ==
    /\ At("kill")
    /\ Kill(targets) /\ targets' = {}
    /\ Advance
    /\ UNCHANGED <<role, left, sampling, session>>

WaitFor(step, p) ==
    /\ At(step)
    /\ Reap(p) \/ (Reaped(p) /\ UNCHANGED world)
    /\ Advance
    /\ UNCHANGED <<role, left, targets, sampling, session>>

NapEnds ==
    /\ At("nap") /\ left = 0
    /\ Advance
    /\ UNCHANGED <<world, role, left, targets, sampling, session>>

\* The output copier ends with the last holder of the proxy's output.
OutputJoined ==
    /\ At("joinOutput") /\ ~(Proxy \in Alive /\ table[Proxy].kin = "proxy")
    /\ Advance
    /\ UNCHANGED <<world, role, left, targets, sampling, session>>

-----------------------------------------------------------------------------

Upto(n, limit) == IF n < limit THEN n + 1 ELSE n

Tick ==
    /\ \/ At("sleep") /\ todo' = <<"poll">> /\ UNCHANGED left
       \/ (At("grace") \/ At("nap")) /\ left > 0 /\ left' = left - 1 /\ UNCHANGED todo
    /\ sinceEof' = IF client = "noticed" THEN sinceEof + 1 ELSE sinceEof
    /\ idle' = Upto(idle, IdleAfter) /\ quiet' = Upto(quiet, IdleFor)
    /\ drained' = IF Draining(controller) THEN Upto(drained, DrainFor) ELSE 0
    /\ UNCHANGED <<world, role, targets, sampling, client, obs, controller>>

Supervise ==
    \/ LegacySeesExit \/ LegacyEofExpires \/ LegacyEvaluates \/ LegacySamples
    \/ GuardianSamples \/ GuardianWatches \/ OwnerDrops
    \/ RegistryLooks \/ RegistryTerms \/ TreeLooks \/ GraceEnds \/ KillTargets
    \/ WaitFor("reap", Child) \/ WaitFor("waitServer", Root) \/ NapEnds \/ OutputJoined

\* What the processes do afterwards is looked at by nobody.
Processes ==
    /\ ~Done
    /\ \E p, q \in Pids : Fork(p, q) \/ Foreign(q) \/ LeaveGroup(p) \/ Exit(p)
    /\ UNCHANGED <<plan, sampling, session>>

Next == Supervise \/ Tick \/ Processes \/ Traffic \/ ClientCloses

\* The supervisor is scheduled and time passes; the processes owe nothing.
Spec == Init /\ [][Next]_vars /\ WF_vars(Supervise) /\ WF_vars(Tick)

-----------------------------------------------------------------------------
(* Properties.                                                              *)

\* The registry's first sample that did not fail found the server: a registry that has seen
\* nothing yet takes whoever has the server's number for it.
RootSeen == registry.stamp = 1

\* Whatever such a registry remembers and finds again is a process of the worker, also after
\* its number was given to another process (ProcessRegistry::refresh).
KnownIsOurs ==
    RootSeen => \A p \in Listed : Identity(p) \in registry.known => Ours(p)

\* A group is chosen for a signal because a process of the worker is in it: by the registry
\* whenever it has seen the server, by number as long as the server is not reaped.
RootKnown == Root \in children \/ ((At("regTerm") \/ At("regKill")) /\ registry'.stamp = 1)

TargetsAreOurs ==
    [][RootKnown => \A g \in targets' \ targets :
                       \E p \in Listed : Ours(p) /\ table[p].group = g]_vars

\* When a guardian or an owner has cleaned up, nothing of the worker is left that a sample
\* ever showed in the group it is in, reparented or not, unless the last sample failed.
SampledIsReaped ==
    Done /\ role # "legacy" /\ ~blind => \A p \in Alive : Ours(p) => ~table[p].seen

\* When run() or the guardian has ended, nobody of the worker is left in the worker's group,
\* and the server has been reaped.
GroupIsGone ==
    Done /\ role # "owner" =>
        /\ Reaped(Root)
        /\ \A p \in Alive : table[p].kin \in {"escaped", "foreign"}

\* Once the client is gone, or the owner's pipe closed, the ending comes to its end, even if
\* no process obeys SIGTERM and ps fails.
CleanupEnds == client = "closed" ~> Done

=============================================================================
