------------------------------ MODULE Takeover ------------------------------
(****************************************************************************)
(* The takeover coordinator (src/src/takeover.rs).  Before the client's     *)
(* thread/resume is forwarded, a manager asks the shared runtime to archive *)
(* the thread and its own isolated runtime to unarchive it.  Every          *)
(* supervisor has a manager and an isolated runtime of its own; all of them *)
(* share one shared runtime and one set of threads on disk.                 *)
(*                                                                          *)
(* A request that was sent can be carried out at any later time, also when  *)
(* its manager has given up waiting, has ended or was killed.  One tick of  *)
(* the clock is the pause between two tries to unarchive.                   *)
(****************************************************************************)
EXTENDS Naturals

CONSTANTS
    Managers,  \* the managers; each one's isolated runtime has its name
    Shared,    \* the shared runtime
    None,
    Timeout    \* CODEX_MANAGED_TAKEOVER_TIMEOUT_SECS, in pauses

ASSUME TakeoverAssumption ==
    /\ Shared \notin Managers /\ None \notin Managers \cup {Shared}
    /\ Timeout \in Nat \ {0}

VARIABLES
    pc,          \* where each manager is in prepare_resume_inner
    outcome,     \* what it returned
    clock,       \* its times: age, and the ages at which the shared client connected and at
                 \* which the loop of unarchive requests ends
    answer,      \* the answer to the request it waits for
    sent,        \* requests sent and not yet carried out
    owner,       \* the runtime that has the thread loaded
    active,      \* a turn is in progress there
    archived,    \* the thread is archived on disk
    writer,      \* the runtime that has unloaded the thread and still holds its writer
    sawIdle      \* history: the shared runtime told the manager that the thread is idle

manager == <<pc, outcome, clock, sawIdle>>
thread == <<owner, active, archived, writer>>
vars == <<manager, answer, sent, thread>>

Runtimes == Managers \cup {Shared}

Outcomes == {"AlreadyOwned", "TakenOver", "RefusedActive", "RefusedUnprovenStatus",
             "NoSharedOwner", "Failed", "FailedRolledBack", "FailedRollback"}

Statuses == {"idle", "active", "notLoaded", "unknown"}
Answers == Statuses \cup {"ok", "error", "writer"}

Request(m, to, kind) == [by |-> m, to |-> to, kind |-> kind]

\* Ticks since the isolated client connected; the times are locals and go with the call.
NoClock == [age |-> 0, shared |-> 0, until |-> 0]

Requests == [by : Managers, to : Runtimes, kind : {"read", "archive", "unarchive"}]

\* Where a manager waits for a runtime: for the handshake of a client or for an answer.
Greeting == {"greetIsolated", "greetShared"}
Asking == {"readIsolated", "readShared", "archive", "unarchive", "rollback"}
Waiting == Greeting \cup Asking
Running == Waiting \cup {"pause", "retry"}

TypeOK ==
    /\ pc \in [Managers -> Running \cup {"new", "done", "killed"}]
    /\ outcome \in [Managers -> Outcomes \cup {"none"}]
    /\ clock \in [Managers -> [age : Nat, shared : Nat, until : Nat]]
    /\ answer \in [Managers -> Answers \cup {"none"}]
    /\ sent \subseteq Requests
    /\ owner \in Runtimes \cup {None} /\ writer \in Runtimes \cup {None}
    /\ active \in BOOLEAN /\ archived \in BOOLEAN
    /\ sawIdle \in [Managers -> BOOLEAN]

Init ==
    /\ pc = [m \in Managers |-> "new"] /\ outcome = [m \in Managers |-> "none"]
    /\ clock = [m \in Managers |-> NoClock]
    /\ answer = [m \in Managers |-> "none"] /\ sent = {}
    /\ owner \in {Shared, None} /\ active = FALSE /\ archived = FALSE /\ writer = None
    /\ sawIdle = [m \in Managers |-> FALSE]

-----------------------------------------------------------------------------
(* The RPC client.                                                          *)

\* Mutant: the loop of unarchive requests starts the isolated client's time anew.
DeadlineRenewed(m) ==
    CASE pc[m] \in {"greetShared", "readShared", "archive", "rollback"} -> clock[m].shared + Timeout
      [] pc[m] \in {"unarchive", "pause", "retry"} -> clock[m].until
      [] OTHER -> Timeout

\* A client has one deadline for its whole life, set when it connects.
Deadline(m) ==
    IF pc[m] \in {"greetShared", "readShared", "archive", "rollback"}
    THEN clock[m].shared + Timeout ELSE Timeout

Age(m) == clock[m].age

\* The request whose answer m waits for.
Awaited(m) ==
    CASE pc[m] = "readIsolated" -> Request(m, m, "read")
      [] pc[m] = "readShared" -> Request(m, Shared, "read")
      [] pc[m] = "archive" -> Request(m, Shared, "archive")
      [] pc[m] = "unarchive" -> Request(m, m, "unarchive")
      [] pc[m] = "rollback" -> Request(m, Shared, "unarchive")

\* Writing looks at no deadline: a request leaves even when its answer can no longer be read.
Ask(m, to, kind) == sent' = sent \cup {Request(m, to, kind)}

Goto(m, where) == pc' = [pc EXCEPT ![m] = where] /\ UNCHANGED outcome

Leave(m, where) ==
    /\ pc' = [pc EXCEPT ![m] = where]
    /\ clock' = [clock EXCEPT ![m] = NoClock]

Return(m, result) ==
    /\ Leave(m, "done") /\ outcome' = [outcome EXCEPT ![m] = result] /\ UNCHANGED sent

-----------------------------------------------------------------------------
(* prepare_resume_inner.                                                    *)

Begin(m) ==
    /\ pc[m] = "new"
    /\ Goto(m, "greetIsolated")
    /\ UNCHANGED <<clock, sawIdle, answer, sent, thread>>

Greeted(m) ==
    /\ pc[m] \in Greeting /\ Age(m) <= Deadline(m)
    /\ IF pc[m] = "greetIsolated"
       THEN Ask(m, m, "read") /\ Goto(m, "readIsolated")
       ELSE Ask(m, Shared, "read") /\ Goto(m, "readShared")
    /\ UNCHANGED <<clock, sawIdle, answer, thread>>

IsolatedRead(m, a) ==
    /\ pc[m] = "readIsolated"
    /\ \/ /\ a = "notLoaded"
          /\ Goto(m, "greetShared") /\ UNCHANGED sent
          /\ clock' = [clock EXCEPT ![m].shared = Age(m)]
       \/ a \in {"idle", "active"} /\ Return(m, "AlreadyOwned")
       \/ a = "unknown" /\ Return(m, "RefusedUnprovenStatus")
       \/ a = "error" /\ Return(m, "Failed")

\* Mutant: an unknown status is taken for idle.
SharedReadUnproven(m, a) ==
    /\ pc[m] = "readShared"
    /\ \/ a \in {"idle", "unknown"} /\ Ask(m, Shared, "archive") /\ Goto(m, "archive") /\ UNCHANGED clock
       \/ a = "active" /\ Return(m, "RefusedActive")
       \/ a = "notLoaded" /\ Return(m, "NoSharedOwner")
       \/ a = "error" /\ Return(m, "RefusedUnprovenStatus")

SharedRead(m, a) ==
    /\ pc[m] = "readShared"
    /\ \/ a = "idle" /\ Ask(m, Shared, "archive") /\ Goto(m, "archive") /\ UNCHANGED clock
       \/ a = "active" /\ Return(m, "RefusedActive")
       \/ a = "notLoaded" /\ Return(m, "NoSharedOwner")
       \/ a \in {"unknown", "error"} /\ Return(m, "RefusedUnprovenStatus")

\* Mutant: a failed archive is rolled back at once.
ArchiveAnsweredRollback(m, a) ==
    /\ pc[m] = "archive"
    /\ \/ /\ a = "ok"
          /\ Ask(m, m, "unarchive") /\ Goto(m, "unarchive")
          /\ clock' = [clock EXCEPT ![m].until = Age(m) + Timeout]
       \/ a = "error" /\ Ask(m, Shared, "unarchive") /\ Goto(m, "rollback") /\ UNCHANGED clock

\* An archive that fails is not followed by a rollback.
ArchiveAnswered(m, a) ==
    /\ pc[m] = "archive"
    /\ \/ /\ a = "ok"
          /\ Ask(m, m, "unarchive") /\ Goto(m, "unarchive")
          /\ clock' = [clock EXCEPT ![m].until = Age(m) + Timeout]
       \/ a = "error" /\ Return(m, "Failed")

\* The shared runtime may still be releasing its writer; any other error ends the loop.
UnarchiveAnswered(m, a) ==
    /\ pc[m] = "unarchive"
    /\ \/ a = "ok" /\ Return(m, "TakenOver")
       \/ a = "writer" /\ Age(m) < clock[m].until /\ Goto(m, "pause") /\ UNCHANGED <<clock, sent>>
       \/ /\ a = "error" \/ (a = "writer" /\ Age(m) >= clock[m].until)
          /\ Ask(m, Shared, "unarchive") /\ Goto(m, "rollback") /\ UNCHANGED clock

Retry(m) ==
    /\ pc[m] = "retry"
    /\ Ask(m, m, "unarchive") /\ Goto(m, "unarchive")
    /\ UNCHANGED <<clock, sawIdle, answer, thread>>

\* Mutant: a rollback is taken to have worked.
RollbackAnsweredBlindly(m, a) == pc[m] = "rollback" /\ Return(m, "FailedRolledBack")

RollbackAnswered(m, a) ==
    /\ pc[m] = "rollback"
    /\ Return(m, IF a = "ok" THEN "FailedRolledBack" ELSE "FailedRollback")

Handle(m, a) ==
    \/ IsolatedRead(m, a) \/ SharedRead(m, a) \/ ArchiveAnswered(m, a)
    \/ UnarchiveAnswered(m, a) \/ RollbackAnswered(m, a)

\* The answer is read before the client's deadline.
Receive(m) ==
    /\ pc[m] \in Asking /\ answer[m] # "none" /\ Age(m) <= Deadline(m)
    /\ Handle(m, answer[m])
    /\ answer' = [answer EXCEPT ![m] = "none"]
    /\ sawIdle' = [sawIdle EXCEPT ![m] = @ \/ (pc[m] = "readShared" /\ answer[m] = "idle")]
    /\ UNCHANGED thread

\* Mutant: the rollback waits without a deadline.
BreakOthers(m) ==
    /\ pc[m] \in Waiting \ {"rollback"}
    /\ IF pc[m] \in Greeting THEN Return(m, "Failed") ELSE Handle(m, "error")
    /\ answer' = [answer EXCEPT ![m] = "none"]
    /\ UNCHANGED <<sawIdle, thread>>

\* The connection fails or the client's deadline expires; what was sent stays sent, and an
\* answer on its way is lost.
Break(m) ==
    /\ pc[m] \in Waiting
    /\ IF pc[m] \in Greeting THEN Return(m, "Failed") ELSE Handle(m, "error")
    /\ answer' = [answer EXCEPT ![m] = "none"]
    /\ UNCHANGED <<sawIdle, thread>>

\* A legacy supervisor ends without waiting for its input copier.
Kill(m) ==
    /\ pc[m] \in Running
    /\ Leave(m, "killed")
    /\ answer' = [answer EXCEPT ![m] = "none"]
    /\ UNCHANGED <<outcome, sawIdle, sent, thread>>

\* A manager that has something to do does it before time goes on; a waiting one waits no
\* longer than to its deadline.
Tick ==
    /\ \E m \in Managers : pc[m] \in Running
    /\ \A m \in Managers : pc[m] \in Running =>
          \/ pc[m] = "pause"
          \/ pc[m] \in Waiting /\ answer[m] = "none" /\ Age(m) < Deadline(m)
    /\ clock' = [m \in Managers |-> IF pc[m] \in Running THEN [clock[m] EXCEPT !.age = @ + 1]
                                   ELSE clock[m]]
    /\ pc' = [m \in Managers |-> IF pc[m] = "pause" THEN "retry" ELSE pc[m]]
    /\ UNCHANGED <<outcome, sawIdle, answer, sent, thread>>

-----------------------------------------------------------------------------
(* The runtimes.                                                            *)

Status(r) == IF owner # r THEN "notLoaded" ELSE IF active THEN "active" ELSE "idle"

\* Every request may be refused; one that is carried out does this.
Archive ==
    /\ ~archived /\ ~active /\ owner \in {Shared, None} /\ archived' = TRUE
    /\ owner' = None /\ writer' = (IF owner = Shared THEN Shared ELSE writer)
    /\ UNCHANGED active

Unarchive(r) ==
    /\ archived /\ writer \in {None, r}
    /\ archived' = FALSE
    /\ UNCHANGED <<owner, active, writer>>

Reply(q, a) ==
    answer' = IF pc[q.by] \in Asking /\ Awaited(q.by) = q
              THEN [answer EXCEPT ![q.by] = a] ELSE answer

Serve(q) ==
    /\ q \in sent
    /\ sent' = sent \ {q}
    /\ \/ q.kind = "read" /\ (\E a \in {Status(q.to), "unknown"} : Reply(q, a)) /\ UNCHANGED thread
       \/ q.kind = "archive" /\ Archive /\ Reply(q, "ok")
       \/ q.kind = "unarchive" /\ Unarchive(q.to) /\ Reply(q, "ok")
       \/ q.kind = "unarchive" /\ writer \notin {None, q.to} /\ Reply(q, "writer") /\ UNCHANGED thread
       \/ Reply(q, "error") /\ UNCHANGED thread
    /\ UNCHANGED manager

ReleaseWriter ==
    /\ writer # None
    /\ writer' = None
    /\ UNCHANGED <<manager, answer, sent, owner, active, archived>>

\* A runtime loads the thread for its client: the desktop's at any time, the managed one's
\* when the resume is forwarded, whatever the outcome.
Resume(r) ==
    /\ ~archived /\ owner = None /\ writer = None
    /\ r = Shared \/ (r \in Managers /\ pc[r] = "done")
    /\ owner' = r
    /\ UNCHANGED <<manager, answer, sent, active, archived, writer>>

\* A turn begins or ends; an idle thread is unloaded.
Work ==
    /\ owner # None
    /\ \/ active' = ~active /\ UNCHANGED owner
       \/ ~active /\ owner' = None /\ UNCHANGED active
    /\ UNCHANGED <<manager, answer, sent, archived, writer>>

-----------------------------------------------------------------------------

Step(m) == Greeted(m) \/ Receive(m) \/ Break(m) \/ Retry(m)

Next ==
    \/ Tick \/ ReleaseWriter \/ Work
    \/ \E m \in Managers : Begin(m) \/ Greeted(m) \/ Receive(m) \/ Break(m) \/ Retry(m) \/ Kill(m)
    \/ \E q \in sent : Serve(q)
    \/ \E r \in Runtimes : Resume(r)

\* The copiers are scheduled and time passes; the runtimes owe nobody an answer.
Fairness == WF_vars(Tick) /\ \A m \in Managers : WF_vars(Step(m))

Spec == Init /\ [][Next]_vars /\ Fairness

-----------------------------------------------------------------------------
(* Properties.                                                              *)

Moved(m) == pc[m] \in {"archive", "unarchive", "pause", "retry", "rollback"}

\* A thread is never left in the archive without a trace: while it is archived, a manager is
\* still moving it, was killed, or has returned Failed or FailedRollback after it asked for
\* the archive.
NoThreadLost ==
    archived => \E m \in Managers :
        \/ Moved(m) \/ pc[m] = "killed"
        \/ sawIdle[m] /\ outcome[m] \in {"Failed", "FailedRollback"}

\* A request to archive exists only while or after its manager learnt from the shared runtime
\* that the thread is idle: no active thread, unknown status, failure or timeout leads to one.
ArchiveNeedsIdle ==
    \A q \in sent : q.kind \in {"archive", "unarchive"} => sawIdle[q.by]

\* A request carried out after its manager has returned: after a success or a refusal it
\* moves nothing, and it archives the thread only when the manager has returned Failed.
LateRequests ==
    [][\A m \in Managers, q \in sent \ sent' :
          q.by = m /\ pc[m] = "done" /\ archived' # archived =>
             /\ outcome[m] \in {"Failed", "FailedRolledBack", "FailedRollback"}
             /\ archived' => outcome[m] = "Failed"]_vars

\* A takeover keeps the forwarding gate for at most the lives of two clients.
TakeoverBounded == \A m \in Managers : Age(m) <= 2 * Timeout

\* Every takeover ends, however slow or silent the runtimes are.
TakeoverEnds == \A m \in Managers : pc[m] \in Running ~> pc[m] \in {"done", "killed"}

=============================================================================
