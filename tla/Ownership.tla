------------------------------ MODULE Ownership ------------------------------
(****************************************************************************)
(* Who may run the app-server of one client identity (src/src/session.rs).  *)
(*                                                                          *)
(* An attach process takes startup.lock, connects to control.sock or spawns *)
(* a session owner.  The owner takes owner.lock and hands a duplicate of it *)
(* to a guardian before the guardian starts the worker (the app-server and  *)
(* its process group), so the lock stays held while either process lives.   *)
(* A stop process asks the owner to leave and waits for owner.lock.         *)
(*                                                                          *)
(* Every process may be killed between any two steps.  Time is abstracted:  *)
(* a deadline is an action that may fire whenever its wait is on.           *)
(****************************************************************************)
EXTENDS Naturals, FiniteSets

CONSTANTS
    Clients,   \* attach processes; each runs once
    Stoppers,  \* stop processes; each runs once
    Owners,    \* session owner processes, each with its guardian and worker
    Faults,    \* the failures that may happen, a subset of FaultKinds
    None       \* no process

\* "owner": an owner is killed.  "guardian": a guardian is killed once its worker is ready.
\* "boot": a guardian is killed earlier, or the server exits before it is ready and leaves
\* members of its group behind.  "double": an owner and its own guardian are both killed.
\* "blind": ps fails when an owner signals the worker of its killed guardian.
FaultKinds == {"owner", "guardian", "boot", "double", "blind"}

ASSUME OwnershipAssumption ==
    /\ Clients \cap Stoppers = {}
    /\ Faults \subseteq FaultKinds
    /\ None \notin Clients \cup Stoppers \cup Owners

VARIABLES
    startup,   \* the process whose open file holds startup.lock, or None
    pc,        \* control state of each attach or stop process
    target,    \* the owner a process has spawned or is connected to
    link,      \* the owner's side of each client's connection
    proxyOf,   \* the owner whose worker the client's live proxy writes to, or None
    control,   \* the owner that bound the socket file now at control.sock
    owner,     \* control state of each owner
    guardian,  \* control state of each guardian
    ready,     \* the guardian has written its readiness line to the owner's pipe
    worker,    \* the app-server and its process group
    stopReq    \* a connection waits in the owner's stop.sock

vars == <<startup, pc, target, link, proxyOf, control, owner, guardian, ready, worker, stopReq>>

Processes == Clients \cup Stoppers

PcStates == {"idle", "connect", "fence", "probing", "wait", "ack", "attached",
             "ask", "poll", "hold", "stopped", "gone"}
OwnerStates == {"unborn", "spawned", "locked", "starting", "binding", "serving",
                "closing", "signal", "leaving", "exited", "killed"}
GuardianStates == {"none", "prep", "booting", "ready", "reaped", "ok", "failed", "killed"}
WorkerStates == {"none", "running", "headless", "gone"}

\* The server runs, or it exited and left members of its process group behind.
Live == {"running", "headless"}

TypeOK ==
    /\ startup \in Processes \cup {None}
    /\ pc \in [Processes -> PcStates]
    /\ target \in [Processes -> Owners \cup {None}]
    /\ link \in [Clients -> {"none", "queued", "granted", "refused", "closed"}]
    /\ proxyOf \in [Clients -> Owners \cup {None}]
    /\ control \in Owners \cup {None}
    /\ owner \in [Owners -> OwnerStates]
    /\ guardian \in [Owners -> GuardianStates]
    /\ ready \in [Owners -> BOOLEAN]
    /\ worker \in [Owners -> WorkerStates]
    /\ stopReq \in [Owners -> BOOLEAN]

----------------------------------------------------------------------------
(* owner.lock is an flock: held while some descriptor of the open file is.  *)

OwnerHolds(o) ==
    owner[o] \in {"locked", "starting", "binding", "serving", "closing", "signal", "leaving"}

GuardianAlive(o) == guardian[o] \in {"prep", "booting", "ready", "reaped"}

\* Mutation: the guardian is started without the duplicate descriptor.
FenceWithoutDuplicate(o) == OwnerHolds(o)

FenceHeld(o) == OwnerHolds(o) \/ GuardianAlive(o)

\* attach and stop take the lock only to drop it again.
Probing(p) == pc[p] \in {"probing", "hold"}

LockFree == /\ \A o \in Owners : ~FenceHeld(o)
            /\ \A p \in Processes : ~Probing(p)

OwnerExited(o) == owner[o] \in {"exited", "killed"}

GuardianExited(o) == guardian[o] \in {"ok", "failed", "killed"}

\* The guardian's poll of its stdin reports the owner's end closed.
PipeClosed(o) == owner[o] \in {"closing", "signal", "leaving", "exited", "killed"}

Listening(o) == o # None /\ owner[o] \in {"binding", "serving"}

Active(o) == {c \in Clients : target[c] = o /\ link[c] = "granted"}

\* The proxies whose process group the guardian signals with worker o.
WithoutProxies(o) == [c \in Clients |-> IF proxyOf[c] = o THEN None ELSE proxyOf[c]]

\* What a closing listener and a dropped attachment leave of o's connections.
Disconnected(o) == [c \in Clients |->
    IF target[c] = o /\ link[c] \in {"queued", "granted"} THEN "closed" ELSE link[c]]

Init ==
    /\ startup = None
    /\ pc = [p \in Processes |-> "idle"]
    /\ target = [p \in Processes |-> None]
    /\ link = [c \in Clients |-> "none"]
    /\ proxyOf = [c \in Clients |-> None]
    /\ control = None
    /\ owner = [o \in Owners |-> "unborn"]
    /\ guardian = [o \in Owners |-> "none"]
    /\ ready = [o \in Owners |-> FALSE]
    /\ worker = [o \in Owners |-> "none"]
    /\ stopReq = [o \in Owners |-> FALSE]

----------------------------------------------------------------------------
(* attach and stop                                                          *)

ownerVars == <<control, owner, guardian, ready, worker>>

Goto(p, s) == pc' = [pc EXCEPT ![p] = s]

\* The process returns or dies: its descriptors close, startup.lock with them.
Leave(p, s) ==
    /\ Goto(p, s)
    /\ startup' = IF startup = p THEN None ELSE startup

\* Mutation: stop does not take startup.lock.
TakeStartupAttachOnly(p) ==
    /\ pc[p] = "idle"
    /\ \/ startup = None /\ startup' = p /\ p \in Clients /\ Goto(p, "connect")
       \/ startup # None /\ p \in Clients /\ Goto(p, "gone") /\ UNCHANGED startup
       \/ p \in Stoppers /\ Goto(p, "ask") /\ UNCHANGED startup
    /\ UNCHANGED <<target, link, proxyOf, ownerVars, stopReq>>

\* lock("startup.lock") without blocking; a busy lock is an error.
TakeStartup(p) ==
    /\ pc[p] = "idle"
    /\ \/ startup = None /\ startup' = p
          /\ Goto(p, IF p \in Clients THEN "connect" ELSE "ask")
       \/ startup # None /\ Goto(p, "gone") /\ UNCHANGED startup
    /\ UNCHANGED <<target, link, proxyOf, ownerVars, stopReq>>

Connected(c) ==
    /\ Goto(c, "ack")
    /\ target' = [target EXCEPT ![c] = control]
    /\ link' = [link EXCEPT ![c] = "queued"]

\* The first connect; when it fails the fence is probed next.
AttachConnect(c) ==
    /\ pc[c] = "connect"
    /\ IF Listening(control) THEN Connected(c)
                             ELSE Goto(c, "fence") /\ UNCHANGED <<target, link>>
    /\ UNCHANGED <<startup, proxyOf, ownerVars, stopReq>>

\* lock("owner.lock"): an owner, its guardian or a cleanup still holding it is an error.
AttachFence(c) ==
    /\ pc[c] = "fence"
    /\ IF LockFree THEN Goto(c, "probing") /\ UNCHANGED startup ELSE Leave(c, "gone")
    /\ UNCHANGED <<target, link, proxyOf, ownerVars, stopReq>>

\* The probe is dropped, then the owner is spawned in a session of its own.
AttachSpawn(c) ==
    /\ pc[c] = "probing"
    /\ \E o \in Owners :
        /\ owner[o] = "unborn"
        /\ owner' = [owner EXCEPT ![o] = "spawned"]
        /\ target' = [target EXCEPT ![c] = o]
    /\ Goto(c, "wait")
    /\ UNCHANGED <<startup, link, proxyOf, control, guardian, ready, worker, stopReq>>

\* The readiness loop: connect, see the owner exit, or run out of time.
AttachWait(c) ==
    /\ pc[c] = "wait"
    /\ \/ Listening(control) /\ Connected(c) /\ UNCHANGED startup
       \/ ~Listening(control) /\ Leave(c, "gone") /\ UNCHANGED <<target, link>>
    /\ UNCHANGED <<proxyOf, ownerVars, stopReq>>

\* Mutation: the end of the stream and the timeout are not handled.
AttachAckForever(c) ==
    /\ pc[c] = "ack"
    /\ \/ link[c] = "granted" /\ Leave(c, "attached")
       \/ link[c] = "refused" /\ Leave(c, "gone")
    /\ UNCHANGED <<target, link, proxyOf, ownerVars, stopReq>>

\* One byte decides: 1 attaches and frees startup.lock; 0, EOF and a timeout are errors.
AttachAck(c) ==
    /\ pc[c] = "ack"
    /\ \/ link[c] = "granted" /\ Leave(c, "attached")
       \/ Leave(c, "gone")
    /\ UNCHANGED <<target, link, proxyOf, ownerVars, stopReq>>

\* Local EOF, or the owner closed the stream.
ClientEnds(c) ==
    /\ pc[c] = "attached"
    /\ Goto(c, "gone")
    /\ UNCHANGED <<startup, target, link, proxyOf, ownerVars, stopReq>>

ProcessKilled(p) ==
    /\ pc[p] \notin {"idle", "attached", "stopped", "gone"}
    /\ Leave(p, "gone")
    /\ UNCHANGED <<target, link, proxyOf, ownerVars, stopReq>>

\* The result of connecting to stop.sock is ignored: it may not be bound yet.
StopAsk(s) ==
    /\ pc[s] = "ask"
    /\ Goto(s, "poll")
    /\ IF control # None /\ owner[control] = "serving"
         THEN stopReq' = [stopReq EXCEPT ![control] = TRUE]
         ELSE UNCHANGED stopReq
    /\ UNCHANGED <<startup, target, link, proxyOf, ownerVars>>

StopPoll(s) ==
    /\ pc[s] = "poll"
    /\ \/ LockFree /\ Goto(s, "hold") /\ UNCHANGED startup
       \/ ~LockFree /\ Leave(s, "gone")                 \* the deadline passed
    /\ UNCHANGED <<target, link, proxyOf, ownerVars, stopReq>>

StopReturn(s) ==
    /\ pc[s] = "hold"
    /\ Leave(s, "stopped")
    /\ UNCHANGED <<target, link, proxyOf, ownerVars, stopReq>>

----------------------------------------------------------------------------
(* The owner process                                                        *)

clientVars == <<startup, pc, target>>

Become(o, s) == owner' = [owner EXCEPT ![o] = s]

\* A second owner finds the lock busy and exits.
OwnerLocks(o) ==
    /\ owner[o] = "spawned"
    /\ Become(o, IF LockFree THEN "locked" ELSE "exited")
    /\ UNCHANGED <<clientVars, link, proxyOf, control, guardian, ready, worker, stopReq>>

\* The guardian's stderr is a duplicate of owner.lock.
OwnerSpawnsGuardian(o) ==
    /\ owner[o] = "locked"
    /\ Become(o, "starting")
    /\ guardian' = [guardian EXCEPT ![o] = "prep"]
    /\ UNCHANGED <<clientVars, link, proxyOf, control, ready, worker, stopReq>>

\* The readiness line, or the end of the guardian's stdout: then the owner returns at once.
\* With the line it replaces control.sock and, a step later, stop.sock.
OwnerReadsReadiness(o) ==
    /\ owner[o] = "starting"
    /\ \/ /\ ready[o]
          /\ Become(o, "binding")
          /\ control' = o
       \/ /\ ~ready[o] /\ GuardianExited(o)
          /\ Become(o, "exited")
          /\ UNCHANGED control
    /\ UNCHANGED <<clientVars, link, proxyOf, guardian, ready, worker, stopReq>>

OwnerServes(o) ==
    /\ owner[o] = "binding"
    /\ Become(o, "serving")
    /\ UNCHANGED <<clientVars, link, proxyOf, control, guardian, ready, worker, stopReq>>

\* Mutation: the stream is shut but the proxy is left to exit by itself.
KeepProxies(o) == proxyOf' = proxyOf

\* Attachment::drop: shut the stream, kill and reap the proxy, join both copiers.
DropAttachments(o) ==
    proxyOf' = [c \in Clients |-> IF c \in Active(o) THEN None ELSE proxyOf[c]]

OwnerDetaches(o) ==
    /\ owner[o] = "serving"
    /\ \E c \in Active(o) : pc[c] \notin {"ack", "attached"} \/ proxyOf[c] # o
    /\ DropAttachments(o)
    /\ link' = [c \in Clients |-> IF c \in Active(o) THEN "closed" ELSE link[c]]
    /\ UNCHANGED <<clientVars, ownerVars, stopReq>>

\* Mutation: an attached client does not keep a second one out.
OwnerAcceptsAny(o) ==
    /\ owner[o] = "serving"
    /\ \E c \in Clients :
        /\ target[c] = o /\ link[c] = "queued"
        /\ worker[o] \in Live /\ pc[c] = "ack"
        /\ link' = [link EXCEPT ![c] = "granted"]
        /\ proxyOf' = [proxyOf EXCEPT ![c] = o]
    /\ UNCHANGED <<clientVars, ownerVars, stopReq>>

\* One connection is granted; a second is refused.  A grant spawns a proxy in the worker's
\* process group and fails when that cannot be done or the client is no longer there.
OwnerAccepts(o) ==
    /\ owner[o] = "serving"
    /\ \E c \in Clients :
        /\ target[c] = o /\ link[c] = "queued"
        /\ \/ /\ Active(o) # {}
              /\ link' = [link EXCEPT ![c] = "refused"]
              /\ UNCHANGED proxyOf
           \/ /\ Active(o) = {} /\ worker[o] \in Live /\ pc[c] = "ack"
              /\ link' = [link EXCEPT ![c] = "granted"]
              /\ proxyOf' = [proxyOf EXCEPT ![c] = o]
           \/ /\ Active(o) = {}
              /\ link' = [link EXCEPT ![c] = "closed"]
              /\ UNCHANGED proxyOf
    /\ UNCHANGED <<clientVars, ownerVars, stopReq>>

\* The end of own(): attachment, listeners and socket files go, then the guardian's pipe is
\* closed.  An error return skips the removal of the files.
OwnerTeardown(o) ==
    /\ Become(o, "closing")
    /\ DropAttachments(o)
    /\ link' = Disconnected(o)
    /\ stopReq' = [stopReq EXCEPT ![o] = FALSE]
    /\ control' \in {None, control}
    /\ UNCHANGED <<clientVars, guardian, ready, worker>>

\* A stop request or the guardian's exit ends the loop.
OwnerBreaks(o) ==
    /\ owner[o] = "serving"
    /\ stopReq[o] \/ GuardianExited(o)
    /\ OwnerTeardown(o)

\* Maximum age, the detached lease, the FD limits, an archive and every error return.
OwnerExpires(o) ==
    /\ owner[o] \in {"binding", "serving"}
    /\ OwnerTeardown(o)

\* Mutation: the guardian's exit status is not looked at.
OwnerReapsBlindly(o) ==
    /\ owner[o] = "closing" /\ GuardianExited(o)
    /\ Become(o, "exited")
    /\ UNCHANGED <<clientVars, proxyOf, worker, link, control, guardian, ready, stopReq>>

\* What SIGTERM and, a pause later, SIGKILL to the groups in the owner's registry may leave.
\* Both find a server that runs, and ps then ends it with the group it leads; members in no
\* sample of the registry (orphaned before one, or left by a server already gone) stay.
SignalsLeave(o, w) ==
    /\ w = "running" => worker[o] = "running" /\ "blind" \in Faults
    /\ w = "headless" => worker[o] \in Live

\* Runtime::drop: wait for the guardian; if it failed, signal in its place what the registry
\* still finds.  Whatever is left, the owner goes on to release owner.lock.
OwnerReaps(o) ==
    /\ \/ /\ owner[o] = "closing" /\ GuardianExited(o)
          /\ Become(o, IF guardian[o] = "ok" THEN "exited" ELSE "signal")
          /\ UNCHANGED worker
       \/ /\ owner[o] = "signal"
          /\ Become(o, "leaving")
          /\ \E w \in {"running", "headless", "gone"} :
                SignalsLeave(o, w) /\ worker' = [worker EXCEPT ![o] = w]
       \/ /\ owner[o] = "leaving"
          /\ Become(o, "exited")
          /\ UNCHANGED worker
    /\ UNCHANGED <<clientVars, proxyOf, link, control, guardian, ready, stopReq>>

\* The kernel closes its descriptors; proxies stay with the worker's group.
OwnerKilled(o) ==
    /\ "owner" \in Faults
    /\ owner[o] = "spawned" \/ OwnerHolds(o)
    /\ guardian[o] = "killed" => "double" \in Faults
    /\ Become(o, "killed")
    /\ link' = Disconnected(o)
    /\ stopReq' = [stopReq EXCEPT ![o] = FALSE]
    /\ UNCHANGED <<clientVars, proxyOf, control, guardian, ready, worker>>

----------------------------------------------------------------------------
(* The guardian and the worker                                              *)

guardianFrame == <<clientVars, link, control, owner, stopReq>>

GuardBecomes(o, s) == guardian' = [guardian EXCEPT ![o] = s]

\* Mutation: the new server is recorded in the state of the guardian that waits for it.
GuardianSpawnsBooting(o) ==
    /\ guardian[o] = "prep"
    /\ \/ GuardBecomes(o, "booting") /\ worker' = [worker EXCEPT ![o] = "booting"]
       \/ GuardBecomes(o, "failed") /\ UNCHANGED worker
    /\ UNCHANGED <<guardianFrame, proxyOf, ready>>

\* Marketplace and home are prepared, then the server is spawned; either may fail.
GuardianSpawnsServer(o) ==
    /\ guardian[o] = "prep"
    /\ \/ GuardBecomes(o, "booting") /\ worker' = [worker EXCEPT ![o] = "running"]
       \/ GuardBecomes(o, "failed") /\ UNCHANGED worker
    /\ UNCHANGED <<guardianFrame, proxyOf, ready>>

\* The server's socket appeared and the readiness line reached the owner.
GuardianReports(o) ==
    /\ guardian[o] = "booting" /\ owner[o] = "starting"
    /\ GuardBecomes(o, "ready")
    /\ ready' = [ready EXCEPT ![o] = TRUE]
    /\ UNCHANGED <<guardianFrame, proxyOf, worker>>

\* The owner went away, the socket never appeared, or the line could not be written: the
\* group is killed before the error return.
GuardianGivesUp(o) ==
    /\ guardian[o] = "booting"
    /\ GuardBecomes(o, "reaped")
    /\ worker' = [worker EXCEPT ![o] = "gone"]
    /\ UNCHANGED <<guardianFrame, proxyOf, ready>>

\* The server exited before its socket appeared: an error return that signals nothing.
GuardianSeesBootExit(o) ==
    /\ guardian[o] = "booting" /\ worker[o] # "running"
    /\ GuardBecomes(o, "failed")
    /\ UNCHANGED <<guardianFrame, proxyOf, ready, worker>>

\* Mutation: the guardian returns without reaping the group.
GuardianLeaves(o) ==
    /\ guardian[o] = "ready"
    /\ PipeClosed(o) \/ worker[o] # "running"
    /\ GuardBecomes(o, "ok")
    /\ UNCHANGED <<guardianFrame, proxyOf, ready, worker>>

\* Mutation: the guardian does not watch the owner's pipe.
GuardianWatchesServer(o) ==
    /\ guardian[o] = "ready"
    /\ worker[o] # "running"
    /\ GuardBecomes(o, "reaped")
    /\ worker' = [worker EXCEPT ![o] = "gone"]
    /\ proxyOf' = WithoutProxies(o)
    /\ UNCHANGED <<guardianFrame, ready>>

\* The loop ends with the owner's pipe or the server; Guard::drop reaps what is left.
GuardianReaps(o) ==
    /\ guardian[o] = "ready"
    /\ PipeClosed(o) \/ worker[o] # "running"
    /\ GuardBecomes(o, "reaped")
    /\ worker' = [worker EXCEPT ![o] = "gone"]
    /\ proxyOf' = WithoutProxies(o)
    /\ UNCHANGED <<guardianFrame, ready>>

GuardianExits(o) ==
    /\ guardian[o] = "reaped"
    /\ GuardBecomes(o, IF ready[o] THEN "ok" ELSE "failed")
    /\ UNCHANGED <<guardianFrame, proxyOf, ready, worker>>

GuardianKilled(o) ==
    /\ GuardianAlive(o)
    /\ IF ready[o] THEN "guardian" \in Faults ELSE "boot" \in Faults
    /\ owner[o] = "killed" => "double" \in Faults
    /\ GuardBecomes(o, "killed")
    /\ UNCHANGED <<guardianFrame, proxyOf, ready, worker>>

\* The server ends on its own; before readiness a remaining group is a "boot" fault.
ServerExits(o) ==
    /\ worker[o] = "running"
    /\ \E left \in {"headless", "gone"} :
        /\ left = "headless" => ready[o] \/ "boot" \in Faults
        /\ worker' = [worker EXCEPT ![o] = left]
    /\ UNCHANGED <<guardianFrame, proxyOf, guardian, ready>>

ProxyExits(c) ==
    /\ proxyOf[c] # None
    /\ proxyOf' = [proxyOf EXCEPT ![c] = None]
    /\ UNCHANGED <<clientVars, link, ownerVars, stopReq>>

----------------------------------------------------------------------------

ClientStep(c) == AttachConnect(c) \/ AttachFence(c) \/ AttachSpawn(c) \/ AttachWait(c) \/ AttachAck(c)

StopStep(s) == StopAsk(s) \/ StopPoll(s) \/ StopReturn(s)

OwnerStep(o) ==
    \/ OwnerLocks(o) \/ OwnerSpawnsGuardian(o) \/ OwnerReadsReadiness(o) \/ OwnerServes(o)
    \/ OwnerDetaches(o) \/ OwnerAccepts(o) \/ OwnerBreaks(o) \/ OwnerReaps(o)

GuardianStep(o) ==
    \/ GuardianSpawnsServer(o) \/ GuardianReports(o) \/ GuardianGivesUp(o)
    \/ GuardianSeesBootExit(o) \/ GuardianReaps(o) \/ GuardianExits(o)

Next ==
    \/ \E p \in Processes : TakeStartup(p) \/ ProcessKilled(p)
    \/ \E c \in Clients : ClientStep(c) \/ ClientEnds(c) \/ ProxyExits(c)
    \/ \E s \in Stoppers : StopStep(s)
    \/ \E o \in Owners : OwnerStep(o) \/ OwnerExpires(o) \/ OwnerKilled(o)
    \/ \E o \in Owners : GuardianStep(o) \/ GuardianKilled(o) \/ ServerExits(o)

Spec == Init /\ [][Next]_vars

\* Running processes run; every wait of the code has a deadline and every owner a maximum age.
Fairness ==
    /\ \A c \in Clients : WF_vars(ClientStep(c))
    /\ \A s \in Stoppers : WF_vars(StopStep(s))
    /\ \A o \in Owners : WF_vars(OwnerStep(o)) /\ WF_vars(OwnerExpires(o)) /\ WF_vars(GuardianStep(o))

FairSpec == Spec /\ Fairness

----------------------------------------------------------------------------
(* Safety                                                                   *)

\* After its guardian was killed an owner may let go of the lock with members of the worker
\* left that its registry never saw, and when ps fails with the server itself.
Unfound(o) ==
    /\ guardian[o] = "killed" /\ owner[o] \in {"leaving", "exited"}
    /\ worker[o] = "headless" \/ "blind" \in Faults

\* Failures after which a worker may be left behind: its owner and guardian were both killed,
\* the guardian died or gave up before readiness, or only the owner was left to signal.
Excluded(o) ==
    \/ owner[o] = "killed" /\ guardian[o] = "killed"
    \/ ~ready[o] /\ guardian[o] \in {"failed", "killed"}
    \/ Unfound(o)

\* At most one worker of the identity has any process left: a replacement owner does not
\* start a second app-server while an earlier one is still being reaped.  Excluded are members
\* the failures named above leave to nobody; an app-server is never among them while ps works.
SingleWorker ==
    \A o, p \in Owners :
        worker[o] \in Live /\ worker[p] \in Live /\ o # p => Excluded(o) \/ Excluded(p)

\* A client that writes to a worker through a live proxy.
Writes(c) == proxyOf[c] # None /\ worker[proxyOf[c]] \in Live

\* Two clients never both write to a live worker of the identity, also across a reconnect
\* and across the crash of an owner whose proxy is still there.
SingleWriter ==
    \A c, d \in Clients :
        Writes(c) /\ Writes(d) /\ c # d => Excluded(proxyOf[c]) \/ Excluded(proxyOf[d])

\* While a stop holds owner.lock no worker of the identity is left but what Excluded names:
\* what stop reports as finished is finished.
StopFindsNothing ==
    \A s \in Stoppers, o \in Owners :
        pc[s] = "hold" => worker[o] \notin Live \/ Excluded(o)

\* A running stop keeps every attach process from spawning an owner.
StopHoldsOffSpawns ==
    [][\A s \in Stoppers, o \in Owners :
        pc[s] \in {"ask", "poll", "hold"} /\ owner[o] = "unborn" => owner'[o] = "unborn"]_vars

(* Liveness under FairSpec                                                  *)

\* No process keeps startup.lock for ever: attach and stop always come to an end.
StartupReleased == \A p \in Processes : startup = p ~> startup # p

\* A worker does not outlive its owner for ever, whichever of owner and guardian is killed,
\* but for what Excluded names: an app-server left running by a killed guardian is ended.
WorkerReaped == \A o \in Owners : worker[o] \in Live ~> worker[o] = "gone" \/ Excluded(o)

\* Once an owner is gone owner.lock comes free, so the identity can be attached again.
FenceReleased == \A o \in Owners : OwnerExited(o) ~> ~FenceHeld(o)

----------------------------------------------------------------------------
(* Implementation of SessionFence                                           *)

Holder == IF \E o \in Owners : FenceHeld(o) THEN CHOOSE o \in Owners : FenceHeld(o) ELSE None

\* The fence is about the app-server; members that outlive it are the invariants' matter.
Phase == IF Holder = None THEN "free"
         ELSE IF worker[Holder] = "none" THEN "claimed"
         ELSE IF worker[Holder] = "running" THEN "running" ELSE "spent"

\* A client whose live proxy has an app-server to write to.
Reaches(c) == proxyOf[c] # None /\ worker[proxyOf[c]] = "running"

Writer == IF \E c \in Clients : Reaches(c) THEN CHOOSE c \in Clients : Reaches(c) ELSE None

Abstract == INSTANCE SessionFence WITH holder <- Holder, phase <- Phase, writer <- Writer

\* The processes together keep the promise of SessionFence when no failure leaves an app-server
\* behind: it ends before its owner's turn does, also when only the owner is left to end it.
ImplementsFence == Abstract!Spec

\* What docs/bounded-recovery.md says of one killed process: a live worker is fenced unless its
\* owner and guardian were both killed.
DocumentedFence ==
    \A o \in Owners :
        worker[o] \in Live => FenceHeld(o) \/ (owner[o] = "killed" /\ guardian[o] = "killed")

\* When stop returns, no owner spawned earlier is still on its way to the lock.
StopIsFinal ==
    \A s \in Stoppers, o \in Owners : pc[s] = "hold" => owner[o] # "spawned"

=============================================================================
