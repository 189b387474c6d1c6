# A TLA+ model of codex-managed-channel

codex-managed-channel runs one Codex app-server per client identity behind SSH. A short-lived
attach process connects a client to a session owner; the owner keeps the app-server alive
across reconnects, limits its life, and unloads or closes what is idle. This directory holds
TLA+ modules of that machinery, the TLC configurations that check them, and proofs for TLAPS.

## The system

| Part | State | Operations | Talks to |
|---|---|---|---|
| attach (`session.rs:148`) | startup.lock, the connection | lock, connect, probe owner.lock, spawn an owner, wait, read one byte, copy | owner through control.sock |
| stop (`session.rs:219`) | startup.lock | connect to stop.sock, poll owner.lock | owner through stop.sock |
| owner (`session.rs:459`) | owner.lock, the guardian's pipe, one attachment, deadlines, the reclaim controller | start, accept, detach, evaluate, unsubscribe, sample, tear down | guardian, proxy, copiers, app-server |
| guardian (`session.rs:260`) | a duplicate of owner.lock, the server | start the server, report, watch the pipe, reap | owner through a pipe and its exit status |
| copiers (`session.rs:385-445`) | the forwarding gate, the proxy's pipes | observe and forward chunks | observer, takeover |
| observer (`protocol.rs`) | pending requests, live threads, active and ended turns, reliability | observe a client or a server message, snapshot | read by the owner |
| reclaim controller, FD policy (`reclaim.rs`, `fd_guard.rs`) | the drain, the archive epoch seen | evaluate, action | called by the owner |
| takeover (`takeover.rs`) | none of its own | check that a runtime is idle, move a thread between runtimes | app-servers |
| legacy supervisor (`supervisor.rs:90`) | one worker, one observer | the loop without owner and guardian | worker |
| process registry, process tree (`supervisor.rs:485-618`) | observed process identities | refresh, signal, terminate a group, sweep | ps, kill |
| marketplace, managed home (`marketplace.rs`, `managed_home.rs`) | the catalog, plugin links, linked entries, the configuration | validate, generate, link, rewrite | file system, shared with the Desktop and all workers |
| bootstrap, log, installer | files | dispatch, rotate, install | file system |

What is hard here: processes that are killed between any two steps while a lock is shared by
duplicated descriptors; a reconnect that meets the remains of the previous attachment;
decisions taken on a snapshot and carried out after a two-second query; messages that two
threads observe in the order of two pipes, cut into chunks anywhere; deadlines that have to
hold although a turn of the loop may itself wait; requests that two app-servers carry out after
the manager has given them up; process numbers that are reused between looking and signalling;
and files that several preparers rewrite under no lock.

## Modules

| Module | Models | Correspondence |
|---|---|---|
| `SessionFence` | the promise for one identity | owners take turns, one worker a turn, one writer at a time |
| `Ownership` | attach, stop, owner, guardian, worker, proxies | one action per system call or wait that another process can observe; the fence is the set of processes with a descriptor of owner.lock |
| `OwnershipProofs` | its theorems | |
| `SessionProofs` | theorems of the owner's loop | |
| `TakeoverProofs` | theorems of the takeover | |
| `SupervisorProofs`, `CleanupProofs` | theorems of the registry, and of the endings | |
| `Reclaim` | `ReclaimController::evaluate`, `FdPolicy::action` | operators from what the code is given to what it answers |
| `Session` | the owner's loop, the gate, both copiers, the server's threads | `pc` follows the loop; EXTENDS `Reclaim` |
| `Observer` | `protocol.rs` message by message | two steps for an answer, as there are two critical sections |
| `ObserverProofs` | its theorems | |
| `WireBuffer` | `WireBuffer` of `protocol.rs` | `Feed` on a record, and what a peer means by its frames as the reference |
| `Forwarding` | `connect`, `Attachment`, the copiers, the injected frame | three threads, the gate and two pipes; EXTENDS `WireBuffer` |
| `ForwardingProofs` | theorems of both | |
| `Takeover` | `takeover.rs` | `pc` follows `prepare_resume_inner`; the runtimes are external |
| `ProcessTree` | the process table, `process_tree_groups`, `ProcessRegistry` | operators from a table to groups, and what processes do |
| `Supervisor` | the legacy loop, `terminate_group`, `cleanup_remaining_group`, the endings of guardian and owner | a queue of steps still to take; EXTENDS `ProcessTree`, `Reclaim` |
| `ManagedFiles` | `marketplace.rs`, `managed_home.rs`, their order in `start_worker_guarded` | one action per look at and per change of a file |
| `ManagedFilesProofs` | its theorems | |
| `MC...` | the instances TLC checks | |

`Ownership` abstracts what `Session` details: in it the owner may expire at any time and
accepts or fails as it likes. `Session` abstracts what `Observer` details: a request is
observed, forwarded, served and answered, without turn identities or message order. Both take
for granted what `Forwarding` and `WireBuffer` show: that chunks are read as the messages they
carry, and before the server has them. `Ownership` takes the guardian's ending to leave nothing of the
worker, and an owner's signal to leave what its registry cannot find; `Supervisor` shows how far
each reaches.

### Ownership

`startup`, `control`, `owner`, `guardian`, `worker`, `ready`, `link` and `proxyOf` are the
locks, the socket file, the control state of each process, the readiness line, and the two
ends of each connection. `FenceHeld(o)` says that owner or guardian still has a descriptor of
owner.lock; a probe by attach or by stop counts as a holder for as long as it lasts. Every
process may be killed between any two of its steps, in the kinds of `Faults`:

* `owner`: an owner, at any time;
* `guardian`: a guardian whose worker is ready;
* `boot`: a guardian before that, or a server that exits before readiness and leaves
  processes of its group behind;
* `double`: an owner and its own guardian;
* `blind`: `ps` fails when an owner signals the worker of its killed guardian.

An owner whose guardian was killed signals the groups its registry finds, once with SIGTERM and
once with SIGKILL, and lets go of owner.lock whatever is left (`Runtime::drop`). `SignalsLeave`
says what may be: nothing, members of the worker without their server (`headless`: orphaned
before a sample saw them, or left by a server that had already gone), and with `blind` the
server too. `Excluded(o)` names the situations in which a worker may be left behind: owner and
guardian both killed, which the documentation excludes; a guardian that ended before readiness;
and `Unfound`, what such a signal left. The documentation excludes neither of the last two. So
`SingleWorker`, `StopFindsNothing` and `WorkerReaped` say of a killed guardian that its
app-server is ended before the lock comes free as long as `ps` works, and of members the registry never
saw nothing. The guardian itself leaves no member of the group; processes that escaped by `setsid` are
in `Supervisor`. Time is abstract: a deadline may pass whenever its wait is on.

`SessionFence` is about the app-server: the refinement maps a fence whose holder has no server
left to `spent`, and a client writes while its proxy has a server to write to.

### Session

One tick is one turn of the loop; inside a turn the inventory query, the unload wait and the
join of a busy copier take from no tick to their deadline. The owner's unsubscribe frames have
no deadline: they are written one at a time with the gate held, and each write returns at any
time, fails, or never returns. `stalled` counts the ticks for which the writes of the present turn
have blocked, up to `MaxStall`. The clock starts at the worker's
birth. The observer keeps live threads, busy threads, the activity generation, the archive
epoch and reliability; a request is held (observed, the gate taken), sent, served and
answered. The output copier takes an answer's pending request in one critical section
(`ObserveAnswer`) and finishes it in the next (`FinishAnswer`); a snapshot between them counts
neither the request nor what it has started, and `ReclaimSparesWork` holds all the same, since
the inventory behind the gate asks the server. The server may serve or refuse each request at any time, end turns, and unload a
thread without subscribers. When the client is gone its turn goes on, and its other
outstanding requests are dropped with the proxy. Descriptor counts are chosen from below every threshold and at each
threshold; a sample may also not be due, or fail. `away`, `silent` and `stalled` are history
variables. Taken to return at once: `lsof`, `ps`, and spawning a proxy, for which the code has
no deadline either.

### Observer

The server is external: it serves requests in any order, announces a turn and writes the answer
to a turn or a command at any later moment, the answer before or after the announcement
(`untold` holds the turns not announced yet), repeats terminal notifications, starts turns of its own, and
sends requests with ids of its own (`ServerIds`). Its notifications reach subscribers only,
and it archives, deletes or unsubscribes no thread with a turn in progress. An
answer to thread/resume is written as the state is read; a later one is a listed hazard.
Between the two critical sections of an answer (`mid`) the observer can be asked as at any other
time. A turn that is not announced yet is then counted nowhere, and `TurnsCounted` excepts this
window and no other: the answer must be the turn's own, or for a turn of an earlier attachment
the one that reports it (`Finishing`).
Once reliability is lost nothing is claimed, so the model stops there. Messages without an
identity make the observer unreliable at once and are left out.

### WireBuffer and Forwarding

A unit stands for the bytes the decoder decides on together: two units for the request line of
a handshake and one for its end, one for a frame's first byte, one for its length and mask, and
one for each letter of a payload. A stream is one the client may send (`IsStream`): after a handshake
frames with known and unknown opcodes, reserved bits, lengths above the limit, fragments with
control frames between them, or lines; its ids are not the owner's. `Read` cuts it anywhere, and the client may hang up at any time.
A chunk is written to the proxy's pipe as a whole, as only prefixes matter; the pipe holds one.
The proxy (external) relays nothing while its output pipe is full, and dies of a write to a
closed one. `Meant` is the reference: the text a peer means by its frames.

What the model shows beside its properties: an owner's frame may land inside a frame of the
client's (`spoiled`), as the gate knows nothing of frame boundaries. Observer and server then
still read the same, which is what `AheadOfServer` says. A client that sends lines
gets a WebSocket frame injected all the same, and one between two fragments of a message is
tolerated by the observer although RFC 6455 forbids it. A frame whose payload fits the limit
but not together with its header is read or lost depending on the chunks, and a message whose
fragments exceed the limit is lost (`Unread`); nothing else about the chunks matters. Once a parse has failed a thread/resume can reach the server
without a takeover, so `ResumeIsPrepared` asks for no failure. A server that stops reading
holds the owner's write for ever; `OwnerReturns` assumes that it reads.

### Takeover

Each manager is one input copier in `prepare_resume`, with an isolated runtime of its own; the
shared runtime and the thread are common. The clients' times are kept as ages: the isolated
client's deadline is set when it connects, the shared one's later, the loop's last. One
tick is the pause between two unarchive requests. A request stays in `sent` until it is carried
out or refused, also after its manager has returned, and after a kill: a legacy supervisor ends
without joining its copier.

What follows from the code: the isolated client's deadline always comes before the loop's own,
so the loop never ends by its deadline alone unless the archive took no time; requests are written without a look at the deadline, so
a rollback still leaves after it; and an archive whose answer was lost is not rolled back, so
the thread can stay archived behind a bare `Failed` (`NoThreadLost` allows exactly this, a kill,
and a failed rollback).

### ProcessTree and Supervisor

A row of the table has parent, group and start time; a number that is neither a process nor a
group can be given to a new process, of the worker or foreign. Only the supervisor's own
children leave zombies. Start times are taken to tell any two processes under one number apart,
which `lstart` does for those a second apart. Looking at the table and
signalling are two steps, and everything may happen between them.

`todo` is the list of steps the supervisor has still to take; `Terminate` and `Sweep` are
shared by the endings. `terminate_group` keeps its group numbers over the grace: signals there
go by number, and the model claims nothing of them once the server is reaped. `RootSeen` is the condition that
the registry's first successful sample saw the server: a registry that saw nothing takes the
next holder of the number for it. When `ps` fails the registry signals nothing (`blind`).
The legacy loop recycles on descriptor pressure without asking for reliability
(`supervisor.rs:196`), where docs/architecture.md:172 says "An unreliable observer never
authorizes idle or soft-FD reclamation"; the model has the code's behaviour and no property
claims the sentence.

### ManagedFiles

The bundled marketplace, the home's entries and the configuration, each with a value for
what a preparer tells apart: an entry is absent, a link to the real one, a link elsewhere or a
file; a plugin links to a version or is a directory; the configuration is the versions it
was made from. Temporary files carry the process id and are seen by nobody. The preparers are
guardians and the preflight, under no common lock. `disturbed` is a history variable: another
actor changed a file while this one prepared.

What follows from the code: an entry is looked at and then removed by name, so a preparer that
is disturbed can delete a file another process has just put there (`managed_home.rs:59`), which
is why `FilesAreKept` is about undisturbed steps; two preparers leave the configuration of the
later rename, which may be of the older source; and links are refreshed only when validation
has failed, in the order of paths, where docs/architecture.md:339 says "Links select the newest
installed manifest-bearing version".

## Runs

| Run | Instance | Shows |
|---|---|---|
| `ownership` | 2 clients, 1 stop, 2 owners, faults `owner`, `guardian` (262,394 states) | one worker, one writer, a stop that finds nothing, but for what `Excluded` names; locks that come free, implementation of `SessionFence` |
| `ownership_boot` (violation) | the same with `boot` and `blind` | a live worker no lock covers |
| `stop_final` (violation) | no faults | stop returns while an owner is still on its way |
| `session` | 1 thread, age 5, grace 2, budget 2, drain 1, every wait 1, 2 requests per attachment, writes blocked for 2 ticks or for ever (1,885,152 states) | age and lease bounds, reclamation spares work, drains are silent, the session ends or is held in a write of its own |
| `session_archive` (violation) | no waits, 3 requests | an archive drain with a live thread |
| `session_window` (violation) | the same | activity after the decision does not cancel an archive |
| `observer` | 2 threads, 2 turns, 2 ids, 3 requests, 3 messages in flight, 2 terminal turns remembered (5,292,832 states) | a running turn is counted but for the window of its own answer, a command without one; idle and the live threads converge |
| `observer_ids` (violation) | the server's id equals a client's | a pending command is dropped |
| `takeover` | 2 managers, a timeout of 2 pauses | a thread is archived only when idle and never lost without a trace; late requests move nothing after a success; every takeover ends, within two client lives |
| `supervisor` | 3 process numbers, 4 starts, every grace 1, all three roles | what is remembered and signalled is the worker's; what was sampled and what is in the group is gone; the ending ends |
| `managed_files` | 2 preparers, a private and a shared entry, 2 plugins, 2 versions, 1 change, 1 kill | an undisturbed preparation is usable, fails only for cause and deletes no file; all are ready in the end |
| `forwarding` | 10 streams, a limit of 3 units, 1 injected frame | the observer reads what is meant, ahead of the server; takeovers come before the resume; owner and attachment come free |

Why the bounds are enough. Two owners make a replacement, two clients a competing writer, and
owners are never reused, so `ownership` sees every overlap of an old and a new session; a
third owner would meet the same lock. The invariants under `boot`, `double` and `blind` are the proofs'
matter, which hold for any faults. In `session` the age leaves room for three detached
intervals, which the budget of two needs to be exceeded, for an idle drain and its reclaim
followed by a descriptor attempt, and for a drain under one attachment and a second
attachment that reaches its generation; two requests make a thread with a turn, an archive or
a command; a block of two ticks passes the maximum age, and as a write may also never return, a
longer one adds nothing to `SessionEnds`. In `observer` two turns of a thread meet a repeated terminal event of the first,
and a terminal set of two fills up. Its symmetry is over threads, turns and ids, and it
checks invariants only. In `takeover` two managers race for
the thread, and a timeout of two lets a retry meet each deadline. In `supervisor` three numbers
are server, proxy or child, and a number to reuse; with four starts one of them is used twice.
`managed_files` starts from every state of the marketplace with a home in order, or the other
way round, as a preparation reads one after the other; of two plugins that are directories, only
the required one is tried, as `refresh` stops at the first. The streams of `forwarding` hold every
kind of frame, and its limit is passed by a payload, by a frame with its header and by joined
fragments. Deadlock is not checked: every system here stops, by design, when its
processes have ended, the session is closed, or the bound on requests is reached.

Fairness. `Ownership!FairSpec` asks weak fairness of every running process's own steps
and of the owner's expiry: each wait in the code has a deadline and each owner a maximum age.
No fairness is asked of kills, of the server's exit or of a client's end. `Session!FairSpec`
asks it of what the owner does by itself, of the clock, and of the input copier's write once
the drop of the attachment has killed the proxy (`pc = "join"`), as the write then fails; nothing of
the owner's own writes, nor of client, proxy or server. So the session ends whatever these do,
unless a server that stops reading holds the owner in such a write for ever
(`session.rs:38`), which is the second half of `SessionEnds`. `Takeover` asks it of the clock and
the managers' steps, nothing of the runtimes. `Supervisor` asks it of the
supervisor and the clock, nothing of processes, which may ignore SIGTERM. `ManagedFiles` asks that preparers run
and that a failed start is tried again, which is the client reconnecting. `Forwarding` asks it of the three threads, of the two seconds
after which a write to the client fails, and of the proxy, strongly: it relays what it can
again and again.

Disagreements between code and documentation are listed as findings in `PROJECT.json`, each
with the run that shows it, except for two that are only described above, with docs/architecture.md:172
(`ProcessTree and Supervisor`) and :339 (`ManagedFiles`).

Hazards of the code that no property catches, each with its reason in `PROJECT.json`: a thread/resume
answered late (`protocol.rs:286`), `lsof` without a timeout (`session.rs:698`), an attachment
recycled as soon as it begins (`session.rs:704`), a proxy that nobody waits for
(`session.rs:358`), the legacy loop's recycling (`supervisor.rs:196`), a registry that never saw
the server (`supervisor.rs:578`), a file put where a stale link was seen (`managed_home.rs:59`),
links to an older version (`marketplace.rs:119`), and a frame at the buffer's limit
(`protocol.rs:473`).

## Proofs

`OwnershipProofs` proves for any sets of clients, stoppers and owners, and any faults:

* `TypeCorrect`, `OneWorker`, `OneWriter`, `StopFence` and `StopExcludesAttach`;
* `Implementation`, under the assumption that faults are among `owner` and `guardian`: every
  behaviour of `Ownership` is one of `SessionFence` under its refinement mapping.

The argument. `SingleWorker` is not inductive: that a second worker cannot start depends on who
holds owner.lock. The inductive invariant `IInv` adds who has startup.lock (only processes that
are on their way), that an owner past the lock and a guardian match each other's state, that at
most one owner is fenced and a probe excludes one, that a worker has processes only under a fence
unless it is excluded, by `Unfound` also once its owner has signalled what it found, and that a proxy writes only where its connection was granted. Each of
these parts has a step lemma with one case per action, and `Invariance` puts them together.
The properties follow state by state. For the refinement, `NoLeakInv` says that without the
excluded failures every live worker is fenced, so that holder, phase and writer are determined;
`Simulation` then maps each action to a step or a stutter. It is of the app-server, and
assumes that `ps` works: without `blind` in `Faults` an owner's signal leaves no running server. The only assumption on constants is
`OwnershipAssumption`: attach and stop processes are different, and `None` is none of them.

`SessionProofs` proves for any finite set of threads and any limits:

* `SessionTypeCorrect`; it needs that a detached interval is never negative (`Typed`), without
  which the sum of the budget leaves the numbers.
* `AgeIsBounded` through `AgeInv`, one bound on the clock for each place in the loop. The bound
  counts the longer of the detach and the archive or idle attempt, not their sum: a turn that
  detaches can accept a new client, but its new controller has no drain to finish. The time
  for which the owner's own writes of the turn block is added to each of these bounds.
* `LeaseIsBounded` through `LeaseInv`: time alone is the budget's total plus the present
  interval, every place behind the top of the loop has some of both left, and an attachment is
  granted only there. Of the descriptor policy it uses that a detached worker counts as busy,
  so that no wait is entered without an attachment.
* `DrainsAreSilent` through `DrainInv`: while the generation a drain began with is the
  observer's, the client has been silent at least since. It holds over a reconnect because
  the controller is new whenever the generation starts again at zero.
* `WorkIsSpared` through `SpareInv`: under the gate no request for work is on its way, because
  a reliable observer had counted every one when the gate was taken and none is sent under
  it; a turn that ran already stays in the inventory until it is read idle.

Its assumptions on constants are `SessionAssumption` and `ReclaimAssumption`: threads are
finite, limits are natural numbers, the grace is positive.

`TakeoverProofs` proves for any managers and any timeout:

* `TakeoverTypeCorrect`, with one lemma for each way in which a manager's state changes.
* `TakeoverIsBounded` through `AgeInv`: the shared client connects within the isolated one's
  life, a pause begins before the isolated client's deadline, and every wait ends within one
  of the two lives.
* `IdleIsAskedFirst`, `NoThreadIsLost` and `LateRequestsAreTold` through `RequestInv`. It
  follows a request past its manager: an archive that was sent belongs to a manager that
  waits for it without an answer yet, was killed, or returned `Failed`, and an unarchive to
  one that has gone on to the rollback or to its end (`SentInv`). `LostInv` says which
  manager an archived thread is due to: one that moves it and has no `ok` for an unarchive in
  hand, one that was killed, or one that failed after asking. Without `SentInv` the second is not
  inductive: an archive carried out late could find its manager content.

`SupervisorProofs` proves `KnownAreOurs` and `SignalsAreMeant` for any set of processes, any
number of starts, and any failures of `ps`. `WorldInv` says that only the worker's processes
have a parent in the table, that the first start is the server's, and that an unreaped server
has its number and leads its group. `KnownInv` follows remembered identities: every start time in
the registry lies in the past, so a new process cannot match one, and a process found again under
one is the one that was recorded. `BelowIsOurs` is the fact about the closure over parents: the
set of the worker's processes is closed, so it holds everything below any of them.

`CleanupProofs` proves `GroupGone` and `SampledAreReaped` for the same. Of each ending it keeps
a phase (`Phase`): what is still to be done and what is already true, up to the sweep, at its
kill, and after it. `GroupInv` (who has not escaped is in the worker's group) makes the kill
reach everybody it should, and nobody comes back as only the living fork; `SeenInv` (what was
recorded and has not changed is known) makes the last signal reach what was sampled.

`ManagedFilesProofs` proves `UndisturbedIsUsable`, `FailureHasACause` and `NothingElseIsRemoved`
for any preparers, entries, plugins and versions. `Course` says for each place of a preparation
what is true of the files while nobody else changes them: while plugins are gone over, each one
of the catalog resolves or is still to come; while entries are, each one is proper or
still to come; between a look and the act upon it, what was seen is still so. A step of another
preparer that changes no file leaves it alone (`OthersCourse`), one that does disturbs, and a
preparation that begins again knows nothing (`KeepsInv`). `Endings` says why a step can fail,
and `Course` that every other reason than a lasting one was excluded. `MaxIsMember`, that the newest
version is one that is installed, is by the well-foundedness of finite sets under inclusion.

`ObserverProofs` proves `ObserverTypeCorrect` for any constants, and `NoTurnUncounted`,
`NoCommandUncounted`, `ObserverConverges` and `ThreadsKnown` for any threads, turns and limits and for
ids of which none is also the server's: the run `observer_ids` shows `CommandsCounted` false
without this hypothesis. The order of messages is in `Inv`:

* `RequestInv`: a request that has not been read as answered is in one place, with the server,
  owed by it, or in the queue, and the observer's entry for it is the one it was sent with.
* `TurnInv`: a turn anything speaks of was started; one that is known to run belongs to a
  subscribed thread; and of one that no longer runs the observer knows the end, or it is in
  the queue.
* `AnnouncedInv`: an announced running turn of a subscribed thread is active, or its announcement is
  in the queue, behind every "closed" of the thread.
* `MineInv`: a turn the client asked for is counted by its pending request, or its answer is
  between the two critical sections, or it is active.
* `BusyInv`: what makes a thread busy is followed by something that settles it, in the
  queue or, for a subscribed thread with turns, still to come.
* `ThreadInv`: the last word in the queue on a subscribed thread is that it was opened, on
  one that is not loaded that it was removed.

None of them is inductive alone, as each action of the server puts messages behind those of
the others. The queue is treated in one place: `Wrote` adds a set of messages at its end and `Read`
takes the first, and the parts are shown of these two instead of each action's sequence.

`ForwardingProofs` proves for any streams, any limit and any number of injected frames
`ForwardingTypeCorrect`, `ObserverIsAhead`, `TakeoverComesFirst`, `FailureHasItsCause` and
`MessagesAreMeant`. They rest on
`ChunksDoNotMatter`: two chunks read without a failure are read as one. The decoder decides one
thing at a time (`One`: the mode, the end of the handshake, a line, a frame) or waits for more
(`Waits`), and what it decides stands whatever arrives later (`Stands`); each decision leaves it
less to decide on, so that what holds at rest and before a decision when it holds after it
holds of every buffer (`ByRank`). The loops over lines and frames are recursive functions: `LoopExists`
shows that such a function exists before its equation is used, by paths of decisions that end.
The invariant `Ahead` says that the observer is what one would be that has read what was written
(`Seen`) and then what the holder of the gate has still to write; once the proxy is dead only
the order of messages is left. `Handed` counts the resumes of the three places. That an
injected frame is none of them (`OwnUncounted`) also holds where it lands in the middle of a message,
which its first bytes then make unreadable.

The last two compare the decoder with the client. `Mid` says where a buffer is after the first
units of a stream: it has taken whole frames, keeps the units behind them, has the mode that
follows, the text of the message that is open (`Opened`), and has delivered the messages of those frames
(`Told`) and one for each frame of the owner's. One decision leads from `Mid` to `Mid` one frame
further, or fails at a frame that gives the cause (`Decided`); `ByRank` makes that a chunk, and
a buffer at rest lacks something of the next frame (`WaitsShort`), so one that overflows holds a frame too
long for it. The invariant is `Follows`: what is read, observed and left in the socket are
consecutive pieces of the stream (`Placed`), and unless a frame was injected inside a frame the
observer is in the middle of it (`Reading`). Positions are told apart because every frame has a
unit, so the number of complete frames and the place of an injected frame are determined.

The assumptions on constants are `TakeoverAssumption`, `ProcessAssumption`, `FilesAssumption`,
`WireAssumption` and `ForwardingAssumption`: manager, runtime and process names differ, there is
a start for server and proxy, versions are finitely many numbers of which `None` and `Own` are
none, the buffer's limit is positive, streams are as described above, and an unsubscribe request
is not a resume.

Model-checked only: the liveness properties (`SessionEnds`, `TakeoverEnds`, `CleanupEnds`,
`ReadyAtLast`, `OwnerReturns`, `Detaches` and those of `Ownership`), which the
prover cannot treat under fairness.

## Not modelled

Not modelled:

* Bootstrap and entry points dispatch on argv and environment and rewrite strings; they keep no
  state and nothing runs beside them.
* The log and the supervisor record are best effort: errors are ignored and nothing reads them
  back.
* Installer and uninstaller are shell scripts run by one operator; the part that concerns the
  program, that a stop leaves no worker behind, is in `Ownership`.
* The contents of configuration files: a version stands for them. The personal marketplace
  differs from the bundled one in that no plugin is required.
* In `Observer`: messages without an identity, which end the observation at once; the counters
  of accepted and rejected unsubscribes, which are only reported; a late answer to
  thread/resume.
* `lsof` and `ps` that hang: nothing in the code bounds them.
