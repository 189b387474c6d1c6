------------------------------- MODULE Session -------------------------------
(****************************************************************************)
(* The session owner's loop (own() in src/src/session.rs): one worker, at   *)
(* most one attachment at a time, and every rule that ends the session or   *)
(* unloads its threads: explicit stop, maximum age, the detached lease,     *)
(* archive and idle reclamation, descriptor pressure.                       *)
(*                                                                          *)
(* The owner, the input copier (which holds the forwarding gate from        *)
(* observing a chunk to writing it), the output copier and the app-server   *)
(* run concurrently.  One tick of the clock is one turn of the owner's      *)
(* loop; the waits inside a turn take from 0 to their deadline in ticks,    *)
(* and the owner's own writes to the proxy, which have none, may block for  *)
(* ever.                                                                    *)
(****************************************************************************)
EXTENDS Reclaim, FiniteSets

CONSTANTS
    Threads,       \* conversation threads of the client
    MaxAge,        \* CODEX_MANAGED_SESSION_MAX_SECS
    EofGrace,      \* CODEX_MANAGED_EOF_GRACE_SECS
    DetachBudget,  \* CODEX_MANAGED_DETACH_BUDGET_SECS
    QueryLimit,    \* deadline of the loaded-thread inventory
    UnloadWait,    \* CODEX_MANAGED_THREAD_RECLAIM_WAIT_SECS
    JoinLimit,     \* longest time the input copier can be busy with one chunk
    MaxSends,      \* bound: activity messages of one attachment
    MaxStall       \* bound: ticks for which the owner's writes of one turn are counted to block

ASSUME SessionAssumption ==
    /\ IsFiniteSet(Threads)
    /\ MaxAge \in Nat /\ EofGrace \in Nat \ {0} /\ DetachBudget \in Nat
    /\ QueryLimit \in Nat /\ UnloadWait \in Nat /\ JoinLimit \in Nat
    /\ MaxSends \in Nat /\ MaxStall \in Nat

VARIABLES
    now,           \* birth.elapsed()
    pc,            \* where the owner is in its loop
    cause,         \* why the session ended
    attached,      \* an attachment is held, and detached_at is None
    detached,      \* detached_at
    total,         \* detached_total
    lastActivity,  \* last_activity
    generation,    \* the owner's copy of the activity generation
    controller,    \* the reclaim controller
    reason,        \* what is being reclaimed: archive, idle or fd
    before,        \* the activity generation when the gate was taken
    todo,          \* threads the inventory, or then the unsubscribe loop, has still to do
    until,         \* deadline of the present wait
    gate,          \* who holds the forwarding gate
    ended,         \* a copier has ended or the proxy has exited
    obs,           \* the protocol observer of the attachment
    req,           \* the client's outstanding request on each thread
    thread,        \* what the app-server does with each thread
    sub,           \* the client's subscription to each thread
    away,          \* history: ticks spent without an attachment
    silent,        \* history: ticks since client activity was observed, at most DrainFor
    stalled        \* history: ticks for which the owner's writes of this turn blocked

lease == <<attached, detached, total, away>>
idle == <<lastActivity, generation, controller>>
attempt == <<reason, before, todo, until>>
server == <<thread, sub>>
vars == <<now, pc, cause, lease, idle, attempt, gate, ended, obs, req, server, silent, stalled>>

NewObserver == [generation |-> 0, live |-> {}, busy |-> {}, epoch |-> 0, reliable |-> TRUE]

NoRequest == [kind |-> "none", stage |-> "none", seen |-> FALSE]

Kinds == {"open", "turn", "exec", "archive"}
Requests == [kind : Kinds, stage : {"held", "sent", "done", "taken", "refused"}, seen : BOOLEAN]

PcStates == {"top", "join", "accept", "evaluate", "gate", "query", "reading", "list",
             "unsubscribe", "unload", "sample", "sleep", "closed"}

Waiting == {"join", "query", "reading", "unload"}

Causes == {"none", "stop", "age", "lease", "archive", "recycle", "hard"}

TypeOK ==
    /\ now \in Nat /\ total \in Nat /\ away \in Nat /\ until \in Nat /\ stalled \in Nat
    /\ pc \in PcStates /\ cause \in Causes
    /\ attached \in BOOLEAN /\ detached \in Nat
    /\ lastActivity \in Nat /\ silent \in 0..DrainFor /\ generation \in Nat /\ before \in Nat
    /\ controller \in Controllers
    /\ reason \in Reasons \cup {"none", "fd"}
    /\ todo \subseteq Threads
    /\ gate \in {"free", "client", "owner"}
    /\ ended \in BOOLEAN
    /\ obs \in [generation : Nat, live : SUBSET Threads, busy : SUBSET Threads,
                epoch : Nat, reliable : BOOLEAN]
    /\ req \in [Threads -> Requests \cup {NoRequest}]
    /\ thread \in [Threads -> {"none", "idle", "running", "closing"}]
    /\ sub \in [Threads -> {"no", "yes", "ending"}]

----------------------------------------------------------------------------
(* What the observer answers (protocol.rs)                                  *)

\* Requests that count as work: the pending ones.  One whose answer the output copier has taken
\* is no longer pending, and what it has started is not recorded yet.
Counted(r) == r.kind \in {"turn", "exec"} /\ r.seen /\ r.stage # "taken"

ActiveCount == Cardinality(obs.busy) + Cardinality({t \in Threads : Counted(req[t])})

IdleThreads == obs.live \ obs.busy

ObserverQuiet == obs.reliable /\ ActiveCount = 0

Snapshot(activity) ==
    [active |-> ActiveCount, reliable |-> obs.reliable, generation |-> obs.generation,
     idle |-> now - activity, epoch |-> obs.epoch]

Init ==
    /\ now = 0 /\ pc = "top" /\ cause = "none"
    /\ attached = FALSE /\ detached = 0 /\ total = 0 /\ away = 0
    /\ lastActivity = 0 /\ generation = 0 /\ controller = NewController
    /\ reason = "none" /\ before = 0 /\ todo = {} /\ until = 0
    /\ gate = "free" /\ ended = FALSE
    /\ obs = NewObserver
    /\ req = [t \in Threads |-> NoRequest]
    /\ thread = [t \in Threads |-> "none"]
    /\ sub = [t \in Threads |-> "no"]
    /\ silent = 0 /\ stalled = 0

----------------------------------------------------------------------------
(* The owner's loop                                                         *)

connection == <<ended, obs, req, server, silent>>

Close(c) == pc' = "closed" /\ cause' = c

\* Mutation: the age is counted from the last activity.
AgeRenewed == now - lastActivity >= MaxAge

AgeReached == now >= MaxAge

LeaseOver == ~attached /\ (now - detached >= EofGrace \/ total + (now - detached) >= DetachBudget)

\* Maximum age and the detached lease are looked at before anything else in a turn.
LoopTop ==
    /\ pc = "top"
    /\ \/ AgeReached /\ Close("age") /\ UNCHANGED until
       \/ ~AgeReached /\ LeaseOver /\ Close("lease") /\ UNCHANGED until
       \/ ~AgeReached /\ ~LeaseOver /\ ended
          /\ pc' = "join" /\ until' = now + JoinLimit /\ UNCHANGED cause
       \/ ~AgeReached /\ ~LeaseOver /\ ~ended
          /\ pc' = "accept" /\ UNCHANGED <<until, cause>>
    /\ stalled' = IF AgeReached \/ LeaseOver THEN stalled ELSE 0
    /\ UNCHANGED <<now, lease, idle, reason, before, todo, gate, connection>>

\* A connection to stop.sock, or the guardian's exit.
Stopped ==
    /\ pc = "top"
    /\ Close("stop")
    /\ UNCHANGED <<now, lease, idle, attempt, gate, connection, stalled>>

\* Attachment::drop ends the proxy, and with it the subscriptions, and joins both copiers: the
\* input copier may be in the middle of a chunk.
OwnerDetaches ==
    /\ pc = "join" /\ gate = "free"
    /\ pc' = "accept" /\ until' = 0
    /\ attached' = FALSE /\ detached' = now
    /\ ended' = FALSE
    /\ obs' = NewObserver
    /\ req' = [t \in Threads |-> NoRequest]
    /\ sub' = [t \in Threads |-> "no"]
    /\ UNCHANGED <<now, cause, total, away, idle, reason, before, todo, gate, thread, silent, stalled>>

\* Mutation: the detached interval is taken the wrong way round.
AttachBackwards ==
    /\ ~attached
    /\ attached' = TRUE /\ detached' = 0
    /\ total' = total + (detached - now)
    /\ generation' = 0 /\ controller' = NewController
    /\ UNCHANGED lastActivity

\* Mutation: the detached interval is not added to the total.
AttachRenewing ==
    /\ ~attached
    /\ attached' = TRUE /\ detached' = 0
    /\ generation' = 0 /\ controller' = NewController
    /\ UNCHANGED <<total, lastActivity>>

\* Mutation: a drain begun under the previous attachment goes on.
AttachKeepingDrain ==
    /\ ~attached
    /\ attached' = TRUE /\ detached' = 0
    /\ total' = total + (now - detached)
    /\ generation' = 0
    /\ UNCHANGED <<lastActivity, controller>>

\* A new attachment has a new observer and a new controller; last_activity is kept.
Attach ==
    /\ ~attached
    /\ attached' = TRUE /\ detached' = 0
    /\ total' = total + (now - detached)
    /\ generation' = 0 /\ controller' = NewController
    /\ UNCHANGED lastActivity

\* Nobody connects, the connection is refused or fails, or it becomes the attachment.
OwnerAccepts ==
    /\ pc = "accept"
    /\ pc' = "evaluate"
    /\ Attach \/ UNCHANGED <<attached, detached, total, idle>>
    /\ UNCHANGED <<now, cause, away, attempt, gate, connection, stalled>>

OwnerEvaluates ==
    /\ pc = "evaluate"
    /\ IF attached
         THEN LET activity == IF obs.generation # generation THEN now ELSE lastActivity
                  answer == Evaluate(controller, now, Snapshot(activity))
              IN  /\ lastActivity' = activity
                  /\ generation' = obs.generation
                  /\ controller' = answer.controller
                  /\ IF answer.action = "reclaim"
                       THEN pc' = "gate" /\ reason' = answer.reason
                       ELSE pc' = "sample" /\ UNCHANGED reason
         ELSE pc' = "sample" /\ UNCHANGED <<idle, reason>>
    /\ UNCHANGED <<now, cause, lease, before, todo, until, gate, connection, stalled>>

\* The end of an attempt: the descriptor check follows an archive or idle attempt.
GiveUp ==
    /\ pc' = IF reason = "fd" THEN "sleep" ELSE "sample"
    /\ reason' = "none" /\ before' = 0 /\ todo' = {} /\ until' = 0
    /\ gate' = IF gate = "owner" THEN "free" ELSE gate

\* gate.try_lock(), and the first look at the observer behind it.
OwnerTakesGate ==
    /\ pc = "gate"
    /\ IF gate = "free" /\ ObserverQuiet
         THEN /\ gate' = "owner" /\ before' = obs.generation
              /\ pc' = "query" /\ until' = now + QueryLimit
              /\ UNCHANGED <<reason, todo>>
         ELSE GiveUp
    /\ UNCHANGED <<now, cause, lease, idle, connection, stalled>>

\* thread/loaded/list on a connection of its own.
QueryLists ==
    /\ pc = "query"
    /\ pc' = "reading"
    /\ todo' = {t \in Threads : thread[t] \in {"idle", "running"}}
    /\ UNCHANGED <<now, cause, lease, idle, reason, before, until, gate, connection, stalled>>

\* Mutation: a thread's status is not looked at.
ReadsIdleAlways(t) == TRUE

ReadsIdle(t) == thread[t] = "idle"

\* thread/read of one thread; any other status than idle ends the inventory.
QueryReads ==
    /\ pc = "reading"
    /\ \E t \in todo :
        IF ReadsIdle(t) THEN todo' = todo \ {t} /\ UNCHANGED <<pc, reason, before, until, gate>>
                        ELSE GiveUp
    /\ UNCHANGED <<now, cause, lease, idle, connection, stalled>>

\* The deadline, a broken connection or a malformed answer.
QueryFails ==
    /\ pc \in {"query", "reading"}
    /\ GiveUp
    /\ UNCHANGED <<now, cause, lease, idle, connection, stalled>>

\* The second look.  The descriptor path does not ask for reliability again.
StillQuiet ==
    /\ obs.reliable \/ reason = "fd"
    /\ ActiveCount = 0
    /\ obs.generation = before

\* An archive closes the attachment; idle and descriptor pressure unsubscribe first.
OwnerDecides ==
    /\ pc = "reading" /\ todo = {}
    /\ \/ ~StillQuiet /\ GiveUp /\ UNCHANGED cause
       \/ StillQuiet /\ reason = "archive" /\ Close("archive") /\ UNCHANGED <<attempt, gate>>
       \/ StillQuiet /\ reason # "archive" /\ pc' = "list" /\ UNCHANGED <<cause, attempt, gate>>
    /\ UNCHANGED <<now, lease, idle, connection, stalled>>

RestartIdle == lastActivity' = now /\ controller' = NewController

\* An idle attempt restarts the timer however it ends; a descriptor attempt that has
\* recovered nothing closes the session.
FinishIdle ==
    /\ reason = "idle"
    /\ GiveUp /\ RestartIdle
    /\ UNCHANGED cause

FinishRecycle ==
    /\ reason = "fd"
    /\ Close("recycle")
    /\ UNCHANGED <<attempt, gate, lastActivity, controller>>

Ending(ts) == [t \in Threads |-> IF t \in ts /\ sub[t] = "yes" THEN "ending" ELSE sub[t]]

\* idle_thread_ids is asked once; with no idle thread the attempt is over.
OwnerListsIdle ==
    /\ pc = "list"
    /\ \/ /\ IdleThreads # {}
          /\ pc' = "unsubscribe" /\ todo' = IdleThreads
          /\ UNCHANGED <<cause, reason, before, until, gate, lastActivity, controller>>
       \/ /\ IdleThreads = {}
          /\ FinishIdle \/ FinishRecycle
    /\ UNCHANGED <<now, lease, generation, connection, stalled>>

\* One thread/unsubscribe for each of them, written with the gate held and without a timeout:
\* a write returns at any time, or never, or it fails.
OwnerUnsubscribes ==
    /\ pc = "unsubscribe"
    /\ \/ \E t \in todo :
            /\ sub' = Ending({t}) /\ todo' = todo \ {t}
            /\ IF todo = {t} THEN pc' = "unload" /\ until' = now + UnloadWait
                             ELSE UNCHANGED <<pc, until>>
            /\ UNCHANGED <<cause, reason, before, gate, lastActivity, controller>>
       \/ /\ FinishIdle \/ FinishRecycle
          /\ UNCHANGED sub
    /\ UNCHANGED <<now, lease, generation, ended, obs, req, thread, silent, stalled>>

\* Representative descriptor counts: below every threshold, and at each of them.
Counts == {0, Warn, Recycle, Hard}

\* Mutation: the wait has no deadline.
UnloadPatiently == IdleThreads = {}

UnloadOver == IdleThreads = {} \/ now >= until

\* wait_for_thread_unload, then for descriptor pressure a second count.
OwnerUnloaded ==
    /\ pc = "unload" /\ UnloadOver
    /\ \/ FinishIdle
       \/ FinishRecycle
       \/ /\ reason = "fd" /\ IdleThreads = {}
          /\ \E count \in Counts : FdAction(count, 0, IdleFor) \in {"healthy", "warn"}
          /\ GiveUp /\ lastActivity' = now
          /\ UNCHANGED <<cause, controller>>
    /\ UNCHANGED <<now, lease, generation, connection, stalled>>

\* Without an attachment, or with an unreliable one, the worker counts as busy.
Busy == IF attached /\ obs.reliable THEN ActiveCount ELSE 1

\* A sample is not due, fails, or decides.
OwnerSamples ==
    /\ pc = "sample"
    /\ \/ pc' = "sleep" /\ UNCHANGED <<cause, reason>>
       \/ \E count \in Counts :
            LET action == FdAction(count, Busy, now - lastActivity) IN
            \/ action = "hard" /\ Close("hard") /\ UNCHANGED reason
            \/ action = "recycle" /\ pc' = "gate" /\ reason' = "fd" /\ UNCHANGED cause
    /\ UNCHANGED <<now, lease, idle, before, todo, until, gate, connection, stalled>>

\* Time passes only where the owner waits.
Tick ==
    /\ \/ pc = "sleep" /\ pc' = "top" /\ UNCHANGED stalled
       \/ pc \in Waiting /\ now < until /\ UNCHANGED <<pc, stalled>>
       \/ pc = "unsubscribe" /\ stalled < MaxStall /\ stalled' = stalled + 1 /\ UNCHANGED pc
    /\ now' = now + 1
    /\ away' = IF attached THEN away ELSE away + 1
    /\ silent' = IF silent < DrainFor THEN silent + 1 ELSE silent
    /\ UNCHANGED <<cause, attached, detached, total, idle, attempt, gate, ended, obs, req, server>>

----------------------------------------------------------------------------
(* The client and the copiers                                               *)

ownerVars == <<now, pc, cause, lease, idle, attempt, stalled>>

Running == pc # "closed"

Suits(k, t) == CASE k = "open" -> t \notin obs.live
                 [] k \in {"turn", "archive"} -> t \in obs.live
                 [] OTHER -> TRUE

\* The input copier takes the gate and observes a chunk with one request; an unreliable
\* observer may miss it.
ClientSends(t) ==
    /\ Running /\ attached /\ ~ended /\ pc # "join"
    /\ gate = "free" /\ gate' = "client"
    /\ req[t] = NoRequest /\ obs.generation < MaxSends
    /\ \E k \in Kinds, seen \in {TRUE, obs.reliable} :
        /\ Suits(k, t)
        /\ req' = [req EXCEPT ![t] = [kind |-> k, stage |-> "held", seen |-> seen]]
        /\ IF seen THEN obs' = [obs EXCEPT !.generation = @ + 1] /\ silent' = 0
                   ELSE UNCHANGED <<obs, silent>>
    /\ UNCHANGED <<ownerVars, ended, server>>

\* It writes the chunk to the proxy and releases the gate.
ClientWrites ==
    /\ Running /\ gate = "client" /\ gate' = "free"
    /\ req' = [t \in Threads |-> IF req[t].stage = "held" THEN [req[t] EXCEPT !.stage = "sent"] ELSE req[t]]
    /\ UNCHANGED <<ownerVars, ended, obs, server, silent>>

\* The client closes, or the proxy exits.
HangUp ==
    /\ Running /\ attached /\ ~ended /\ ended' = TRUE
    /\ UNCHANGED <<ownerVars, gate, obs, req, server, silent>>

\* A frame that cannot be parsed or that lacks an identity.
ObserverFails ==
    /\ Running /\ attached /\ obs.reliable
    /\ obs' = [obs EXCEPT !.reliable = FALSE]
    /\ UNCHANGED <<ownerVars, gate, ended, req, server, silent>>

\* The output copier has taken a pending request and not finished it yet.
Taking == \E t \in Threads : req[t].stage = "taken"

\* finish_request of an answer.
Finish(t, k) ==
    CASE k = "open" -> [obs EXCEPT !.live = @ \cup {t},
                                   !.busy = IF thread[t] = "running" THEN @ \cup {t} ELSE @]
      [] k = "turn" -> [obs EXCEPT !.busy = @ \cup {t}]
      [] k = "archive" -> [obs EXCEPT !.live = @ \ {t},
                                      !.epoch = IF obs.live = {t} THEN @ + 1 ELSE @]
      [] OTHER -> obs

\* An answer takes its pending request in one critical section; one without a request observed,
\* or with an error, records nothing more.
ObserveAnswer(t) ==
    /\ Running /\ ~Taking /\ req[t].stage \in {"done", "refused"}
    /\ req' = [req EXCEPT ![t] = IF @.stage = "done" /\ @.seen THEN [@ EXCEPT !.stage = "taken"]
                                                             ELSE NoRequest]
    /\ UNCHANGED <<ownerVars, gate, ended, obs, server, silent>>

\* And it is finished in a later one.
FinishAnswer(t) ==
    /\ Running /\ req[t].stage = "taken"
    /\ req' = [req EXCEPT ![t] = NoRequest]
    /\ obs' = Finish(t, req[t].kind)
    /\ UNCHANGED <<ownerVars, gate, ended, server, silent>>

\* turn/completed, which follows the answer to turn/start.
ObserveIdle(t) ==
    /\ Running /\ ~Taking /\ t \in obs.busy /\ thread[t] # "running" /\ req[t].stage # "done"
    /\ obs' = [obs EXCEPT !.busy = @ \ {t}]
    /\ UNCHANGED <<ownerVars, gate, ended, req, server, silent>>

\* thread/closed.
ObserveClosed(t) ==
    /\ Running /\ ~Taking /\ thread[t] = "closing"
    /\ thread' = [thread EXCEPT ![t] = "none"]
    /\ obs' = [obs EXCEPT !.live = @ \ {t}, !.busy = @ \ {t}]
    /\ UNCHANGED <<ownerVars, gate, ended, req, sub, silent>>

----------------------------------------------------------------------------
(* The app-server                                                           *)

copierVars == <<gate, ended, obs, silent>>

Answered(t, stage) == req' = [req EXCEPT ![t].stage = stage]

\* Requests of one connection are served in order, an unsubscribe before a later request.
ServerAnswers(t) ==
    /\ Running /\ req[t].stage = "sent" /\ sub[t] # "ending"
    /\ \/ /\ req[t].kind = "open" /\ thread[t] # "closing"
          /\ thread' = [thread EXCEPT ![t] = IF @ = "none" THEN "idle" ELSE @]
          /\ sub' = [sub EXCEPT ![t] = "yes"]
          /\ Answered(t, "done")
       \/ /\ req[t].kind = "turn" /\ thread[t] = "idle"
          /\ thread' = [thread EXCEPT ![t] = "running"]
          /\ Answered(t, "done") /\ UNCHANGED sub
       \/ /\ req[t].kind = "archive" /\ thread[t] = "idle"
          /\ thread' = [thread EXCEPT ![t] = "none"]
          /\ sub' = [sub EXCEPT ![t] = "no"]
          /\ Answered(t, "done")
       \/ req[t].kind = "exec" /\ Answered(t, "done") /\ UNCHANGED server
       \/ Answered(t, "refused") /\ UNCHANGED server
    /\ UNCHANGED <<ownerVars, copierVars>>

TurnEnds(t) ==
    /\ Running /\ thread[t] = "running"
    /\ thread' = [thread EXCEPT ![t] = "idle"]
    /\ UNCHANGED <<ownerVars, copierVars, req, sub>>

ServerUnsubscribes(t) ==
    /\ Running /\ sub[t] = "ending"
    /\ sub' = [sub EXCEPT ![t] = "no"]
    /\ UNCHANGED <<ownerVars, copierVars, req, thread>>

\* An idle thread without subscribers is unloaded after a delay.
ServerUnloads(t) ==
    /\ Running /\ thread[t] = "idle" /\ sub[t] = "no"
    /\ thread' = [thread EXCEPT ![t] = "closing"]
    /\ UNCHANGED <<ownerVars, copierVars, req, sub>>

----------------------------------------------------------------------------

\* What the owner does by itself, its writes to the proxy apart.
OwnerStep ==
    \/ LoopTop \/ OwnerDetaches \/ OwnerAccepts \/ OwnerEvaluates \/ OwnerTakesGate
    \/ QueryLists \/ QueryReads \/ OwnerDecides \/ OwnerListsIdle \/ OwnerUnloaded
    \/ OwnerSamples

Next ==
    \/ OwnerStep \/ OwnerUnsubscribes \/ Stopped \/ QueryFails \/ Tick
    \/ ClientWrites \/ HangUp \/ ObserverFails
    \/ \E t \in Threads :
        \/ ClientSends(t) \/ ObserveAnswer(t) \/ FinishAnswer(t) \/ ObserveIdle(t)
        \/ ObserveClosed(t) \/ ServerAnswers(t) \/ TurnEnds(t) \/ ServerUnsubscribes(t) \/ ServerUnloads(t)

Spec == Init /\ [][Next]_vars

\* The owner runs and time passes.  A write to the proxy may block for ever, the owner's as well
\* as the copier's, until the drop of the attachment has killed the proxy.
FairSpec == Spec /\ WF_vars(OwnerStep) /\ WF_vars(Tick) /\ WF_vars(pc = "join" /\ ClientWrites)

----------------------------------------------------------------------------

\* No session outlives its maximum age by more than the waits of one turn of the loop: a
\* detach or an archive or idle attempt, and after it a descriptor attempt.  To these comes
\* the time for which the owner's own writes of that turn block, which nothing bounds.
AgeBounded ==
    now <= MaxAge + Larger(JoinLimit, QueryLimit + UnloadWait) + QueryLimit + UnloadWait + stalled

\* However often a client comes and goes, the worker is alone for at most the grace at a
\* stretch and the budget in all.
LeaseBounded ==
    /\ away <= DetachBudget
    /\ ~attached => now - detached <= EofGrace

Working(t) ==
    \/ thread[t] = "running"
    \/ req[t].kind \in {"turn", "exec"} /\ req[t].stage \in {"held", "sent"}

\* Archive, idle and soft descriptor reclamation never touch a running turn or a requested
\* one, also when the turn was started under an earlier attachment.
ReclaimSparesWork ==
    pc \in {"unsubscribe", "unload"} \/ (pc = "closed" /\ cause \in {"archive", "recycle"})
        => \A t \in Threads : ~Working(t)

\* A drain that decides to reclaim has seen no client activity for its whole length, also
\* across a reconnect that reuses the same generation numbers.
DrainIsSilent ==
    [][pc = "evaluate" /\ pc' = "gate" => silent = DrainFor]_vars

\* Every session ends, whatever the client, the proxy and the server do, unless the owner is
\* held for ever in a write of its own that the proxy does not take.
SessionEnds == <>(pc = "closed") \/ <>[](pc = "unsubscribe")

(* Two sentences of docs/architecture.md that the code does not keep.       *)

\* "When protocol state proves that archive has left no live thread, a drain begins": an
\* archive drain begins only while no thread is live.
ArchiveLeavesNoThread ==
    [][pc = "evaluate" /\ ~Draining(controller) /\ controller'.drain.reason = "archive"
        => obs.live = {}]_vars

\* "Any activity [...] cancels it": an archive closes the session only when no client
\* activity was observed since its drain began.
ActivityCancelsArchive ==
    pc = "closed" /\ cause = "archive" => obs.generation = controller.drain.generation

=============================================================================
