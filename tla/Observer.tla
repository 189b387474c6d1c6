------------------------------- MODULE Observer -------------------------------
(****************************************************************************)
(* The protocol observer of one attachment (src/src/protocol.rs): what the  *)
(* proxy's two copiers learn from the JSON-RPC messages that pass them, and *)
(* what the owner may conclude from it.                                     *)
(*                                                                          *)
(* The input copier observes a client message before it forwards it; the    *)
(* output copier observes a server message in two steps, since the pending  *)
(* request is removed under one lock and finished under the next.  The      *)
(* app-server is external: it serves requests in any order, announces and   *)
(* answers a turn or a command at any later time, in any order, and its     *)
(* messages arrive in order.                                                *)
(****************************************************************************)
EXTENDS Naturals, Sequences, FiniteSets

CONSTANTS
    Threads, Turns,
    Ids,          \* ids of the client's requests
    ServerIds,    \* ids of the server's own requests
    MaxTerminal,  \* capacity of the terminal set (4096 in the code)
    MaxQueue,     \* bound: messages on their way to the client
    MaxRequests,  \* bound: client requests
    None

ASSUME ObserverAssumption ==
    /\ MaxTerminal \in Nat /\ MaxQueue \in Nat /\ MaxRequests \in Nat
    /\ None \notin Ids \cup ServerIds

VARIABLES
    pending,   \* the client's unanswered request under each id
    mid,       \* the request the output copier has removed and not finished yet
    live,      \* live_threads
    active,    \* turns observed to be in progress
    terminal,  \* turns observed to have ended
    busy,      \* busy_threads
    epoch,     \* archive_empty_epoch
    reliable,  \* no parse failure so far
    sent,      \* number of client requests
    asked,     \* requests the server has not served
    owed,      \* served requests whose answer is not written yet
    running,   \* the server's turns in progress
    mine,      \* turns that a request of this attachment started
    used,      \* turns that have been started
    untold,    \* turns in progress that have not been announced yet
    loaded,    \* the server's loaded threads
    sub,       \* threads this connection is subscribed to
    toClient   \* messages on their way to the output copier

observed == <<live, active, terminal, busy, epoch, reliable>>
turns == <<running, mine, used, untold>>
threads == <<loaded, sub>>
vars == <<pending, mid, observed, sent, asked, owed, turns, threads, toClient>>

Kinds == {"open", "archive", "delete", "unsubscribe", "turn", "exec"}
NoRequest == [kind |-> "none", thread |-> None]
Requests == [kind : Kinds, thread : Threads]

\* A response, a request of the server's, or a notification; "turns" are in progress.
Message(type, id, t, us) == [type |-> type, id |-> id, thread |-> t, turns |-> us]
Notify(type, t, us) == Message(type, None, t, us)

MessageTypes == {"result", "error", "request", "started", "completed", "active", "idle", "closed"}
Messages == [type : MessageTypes, id : Ids \cup ServerIds \cup {None},
             thread : Threads \cup {None}, turns : SUBSET Turns]

NotMid == [request |-> NoRequest, answer |-> Notify("error", None, {})]

TypeOK ==
    /\ pending \in [Ids -> Requests \cup {NoRequest}]
    /\ mid \in [request : Requests \cup {NoRequest}, answer : Messages]
    /\ live \subseteq Threads /\ busy \subseteq Threads
    /\ active \subseteq Threads \X Turns /\ terminal \subseteq Threads \X Turns
    /\ Cardinality(terminal) <= MaxTerminal
    /\ epoch \in Nat /\ reliable \in BOOLEAN /\ sent \in 0..MaxRequests
    /\ asked \subseteq [id : Ids, kind : Kinds, thread : Threads]
    /\ owed \subseteq [id : Ids, thread : Threads, turns : SUBSET Turns]
    /\ running \subseteq Threads \X Turns /\ mine \subseteq used /\ used \subseteq Threads \X Turns
    /\ untold \subseteq running \cap mine
    /\ loaded \subseteq Threads /\ sub \subseteq Threads
    /\ toClient \in Seq(Messages)

\* The worker may have a turn of an earlier attachment in progress.
Init ==
    /\ pending = [i \in Ids |-> NoRequest] /\ mid = NotMid
    /\ live = {} /\ active = {} /\ terminal = {} /\ busy = {}
    /\ epoch = 0 /\ reliable = TRUE
    /\ sent = 0 /\ asked = {} /\ owed = {}
    /\ \E earlier \in {{}} \cup {{w} : w \in Threads \X Turns} :
        running = earlier /\ used = earlier /\ loaded = {w[1] : w \in earlier}
    /\ mine = {} /\ untold = {} /\ sub = {} /\ toClient = <<>>

----------------------------------------------------------------------------
(* What the observer answers                                                *)

\* Mutation: a command is not counted.
CountedTurns(r) == r.kind = "turn"

Counted(r) == r.kind \in {"turn", "exec"}

ActiveCount ==
    Cardinality(active) + Cardinality({t \in busy : ~\E w \in active : w[1] = t})
        + Cardinality({i \in Ids : Counted(pending[i])})

IdleThreads == {t \in live : t \notin busy /\ ~\E w \in active : w[1] = t}

----------------------------------------------------------------------------
(* The input copier                                                         *)

serverVars == <<owed, turns, threads, toClient>>

\* A request is recorded before it is forwarded.  Without an identity it would make the
\* observation unreliable.
ObserveClient ==
    /\ sent < MaxRequests /\ sent' = sent + 1
    /\ \E i \in Ids, k \in Kinds, t \in Threads :
        /\ pending[i] = NoRequest /\ \A r \in asked \cup owed : r.id # i
        /\ pending' = [pending EXCEPT ![i] = [kind |-> k, thread |-> t]]
        /\ asked' = asked \cup {[id |-> i, kind |-> k, thread |-> t]}
    /\ UNCHANGED <<mid, observed, serverVars>>

----------------------------------------------------------------------------
(* The output copier                                                        *)

Arrived == Head(toClient)
Consume == toClient' = Tail(toClient)
serverRest == <<sent, asked, owed, turns, threads>>

Ready == mid = NotMid /\ toClient # <<>>

\* Any message with an id that is pending is taken for its answer.
ObserveAnswer ==
    /\ Ready /\ Arrived.id # None /\ Consume
    /\ IF Arrived.id \in Ids /\ pending[Arrived.id] # NoRequest
         THEN /\ mid' = [request |-> pending[Arrived.id], answer |-> Arrived]
              /\ pending' = [pending EXCEPT ![Arrived.id] = NoRequest]
         ELSE UNCHANGED <<mid, pending>>
    /\ UNCHANGED <<observed, serverRest>>

Answer == mid.answer

\* The turns an answer reports, unless they are known to have ended.
InProgress(t) == {w \in {t} \X Answer.turns : w \notin terminal}

\* Mutation: an answer brings back a turn that has ended.
FinishTurnAgain ==
    /\ mid.request.kind = "turn" /\ Answer.turns # {}
    /\ active' = active \cup ({mid.request.thread} \X Answer.turns)
    /\ UNCHANGED <<live, busy, epoch, reliable>>

FinishTurn ==
    /\ mid.request.kind = "turn"
    /\ IF Answer.turns # {} THEN active' = active \cup InProgress(mid.request.thread) /\ UNCHANGED reliable
                            ELSE reliable' = FALSE /\ UNCHANGED active
    /\ UNCHANGED <<live, busy, epoch>>

FinishOpen ==
    /\ mid.request.kind = "open"
    /\ LET t == IF Answer.thread = None THEN mid.request.thread ELSE Answer.thread IN
        /\ live' = live \cup {t}
        /\ busy' = IF Answer.turns = {} THEN busy ELSE busy \cup {t}
        /\ active' = active \cup InProgress(t)
    /\ UNCHANGED <<epoch, reliable>>

\* Mutation: only an archive removes the thread.
FinishArchiveOnly ==
    /\ mid.request.kind \in {"archive", "delete"}
    /\ live' = IF mid.request.kind = "archive" THEN live \ {mid.request.thread} ELSE live
    /\ epoch' = IF mid.request.kind = "archive" /\ live = {mid.request.thread} THEN epoch + 1 ELSE epoch
    /\ UNCHANGED <<active, busy, reliable>>

FinishRemove ==
    /\ mid.request.kind \in {"archive", "delete"}
    /\ live' = live \ {mid.request.thread}
    /\ epoch' = IF mid.request.kind = "archive" /\ live = {mid.request.thread} THEN epoch + 1 ELSE epoch
    /\ UNCHANGED <<active, busy, reliable>>

\* finish_request, in a later critical section.
FinishRequest ==
    /\ mid # NotMid /\ mid' = NotMid
    /\ \/ Answer.type # "error" /\ (FinishTurn \/ FinishOpen \/ FinishRemove)
       \/ /\ Answer.type = "error" \/ mid.request.kind \in {"exec", "unsubscribe"}
          /\ UNCHANGED <<live, active, busy, epoch, reliable>>
    /\ UNCHANGED <<pending, terminal, toClient, serverRest>>

HeadTurn == {Arrived.thread} \X Arrived.turns

ObserveStarted ==
    /\ Ready /\ Arrived.type = "started" /\ Consume
    /\ active' = active \cup {w \in HeadTurn : w \notin terminal}
    /\ UNCHANGED <<pending, mid, live, terminal, busy, epoch, reliable, serverRest>>

\* Mutation: any terminal event of a thread ends all its turns.
ObserveTerminalOfThread ==
    /\ Ready /\ Arrived.type = "completed" /\ Consume
    /\ active' = {w \in active : w[1] # Arrived.thread}
    /\ busy' = busy \ {Arrived.thread}
    /\ IF Cardinality(terminal) < MaxTerminal THEN terminal' = terminal \cup HeadTurn /\ UNCHANGED reliable
                                              ELSE reliable' = FALSE /\ UNCHANGED terminal
    /\ UNCHANGED <<pending, mid, live, epoch, serverRest>>

\* turn/completed, failed and cancelled; a full terminal set ends reliability.
ObserveTerminal ==
    /\ Ready /\ Arrived.type = "completed" /\ Consume
    /\ active' = active \ HeadTurn
    /\ busy' = busy \ {Arrived.thread}
    /\ IF Cardinality(terminal) < MaxTerminal THEN terminal' = terminal \cup HeadTurn /\ UNCHANGED reliable
                                              ELSE reliable' = FALSE /\ UNCHANGED terminal
    /\ UNCHANGED <<pending, mid, live, epoch, serverRest>>

\* Mutation: the turn is put in the set of busy threads.
ObserveStatusByTurn ==
    /\ Ready /\ Arrived.type \in {"active", "idle"} /\ Consume
    /\ busy' = IF Arrived.type = "active" THEN busy \cup HeadTurn ELSE busy \ HeadTurn
    /\ UNCHANGED <<pending, mid, live, active, terminal, epoch, reliable, serverRest>>

\* thread/status/changed.
ObserveStatus ==
    /\ Ready /\ Arrived.type \in {"active", "idle"} /\ Consume
    /\ busy' = IF Arrived.type = "active" THEN busy \cup {Arrived.thread} ELSE busy \ {Arrived.thread}
    /\ UNCHANGED <<pending, mid, live, active, terminal, epoch, reliable, serverRest>>

ObserveClosed ==
    /\ Ready /\ Arrived.type = "closed" /\ Consume
    /\ live' = live \ {Arrived.thread} /\ busy' = busy \ {Arrived.thread}
    /\ active' = {w \in active : w[1] # Arrived.thread}
    /\ UNCHANGED <<pending, mid, terminal, epoch, reliable, serverRest>>

----------------------------------------------------------------------------
(* The app-server, as far as the code relies on it                          *)

copierVars == <<pending, mid, observed, sent>>

TurnsOf(t) == {w[2] : w \in {x \in running : x[1] = t}}

Write(ms) == /\ Len(toClient) + Len(ms) <= MaxQueue
             /\ toClient' = toClient \o ms

Result(r, us) == Message("result", r.id, r.thread, us)

ServeOpen(r) ==
    /\ r.kind = "open"
    /\ loaded' = loaded \cup {r.thread} /\ sub' = sub \cup {r.thread}
    /\ Write(<<Result(r, TurnsOf(r.thread))>>)
    /\ UNCHANGED <<owed, turns>>

StartTurn(t, u) ==
    /\ TurnsOf(t) = {} /\ <<t, u>> \notin used
    /\ running' = running \cup {<<t, u>>} /\ used' = used \cup {<<t, u>>}
    /\ UNCHANGED threads

\* The turn is announced and its request answered at some later time, in either order.
ServeTurn(r) ==
    /\ r.kind = "turn" /\ r.thread \in sub
    /\ \E u \in Turns :
        /\ StartTurn(r.thread, u)
        /\ mine' = mine \cup {<<r.thread, u>>} /\ untold' = untold \cup {<<r.thread, u>>}
        /\ owed' = owed \cup {[id |-> r.id, thread |-> r.thread, turns |-> {u}]}
    /\ UNCHANGED toClient

\* A thread with a turn in progress is neither archived nor unsubscribed.
ServeRemove(r) ==
    /\ r.kind \in {"archive", "delete", "unsubscribe"} /\ TurnsOf(r.thread) = {}
    /\ sub' = sub \ {r.thread}
    /\ loaded' = IF r.kind = "unsubscribe" THEN loaded ELSE loaded \ {r.thread}
    /\ Write(<<Result(r, {})>>)
    /\ UNCHANGED <<owed, turns>>

ServeExec(r) ==
    /\ r.kind = "exec"
    /\ owed' = owed \cup {[id |-> r.id, thread |-> r.thread, turns |-> {}]}
    /\ UNCHANGED <<turns, threads, toClient>>

Refuse(r) ==
    /\ Write(<<Message("error", r.id, None, {})>>)
    /\ UNCHANGED <<owed, turns, threads>>

Serve ==
    /\ \E r \in asked :
        /\ asked' = asked \ {r}
        /\ ServeOpen(r) \/ ServeTurn(r) \/ ServeRemove(r) \/ ServeExec(r) \/ Refuse(r)
    /\ UNCHANGED copierVars

\* The answer to a turn or a command; a turn's may come after the turn has ended.
WriteAnswer ==
    /\ \E r \in owed : Write(<<Result(r, r.turns)>>) /\ owed' = owed \ {r}
    /\ UNCHANGED <<copierVars, asked, turns, threads>>

\* A turn is announced to a subscriber.
Announce(w) ==
    Write(IF w[1] \in sub THEN <<Notify("active", w[1], {w[2]}), Notify("started", w[1], {w[2]})>>
                          ELSE <<>>)

AnnounceTurn ==
    /\ \E w \in untold : Announce(w) /\ untold' = untold \ {w}
    /\ UNCHANGED <<copierVars, asked, owed, running, mine, used, threads>>

\* A turn nobody asked for on this connection.
ServerTurn ==
    /\ \E t \in loaded, u \in Turns : StartTurn(t, u) /\ Announce(<<t, u>>)
    /\ UNCHANGED <<copierVars, asked, owed, mine, untold>>

TurnEnds ==
    /\ \E w \in running \ untold :
        /\ running' = running \ {w}
        /\ Write(IF w[1] \in sub THEN <<Notify("completed", w[1], {w[2]}), Notify("idle", w[1], {})>> ELSE <<>>)
    /\ UNCHANGED <<copierVars, asked, owed, mine, used, untold, threads>>

\* A terminal notification may be repeated.
RepeatTerminal ==
    /\ \E w \in used \ running : w[1] \in sub /\ Write(<<Notify("completed", w[1], {w[2]})>>)
    /\ UNCHANGED <<copierVars, asked, owed, turns, threads>>

Unload ==
    /\ \E t \in loaded \ sub :
        /\ TurnsOf(t) = {}
        /\ loaded' = loaded \ {t}
        /\ Write(<<Notify("closed", t, {})>>)
    /\ UNCHANGED <<copierVars, asked, owed, turns, sub>>

\* An approval or input request, with an id of the server's.
ServerRequest ==
    /\ \E i \in ServerIds : Write(<<Message("request", i, None, {})>>)
    /\ UNCHANGED <<copierVars, asked, owed, turns, threads>>

----------------------------------------------------------------------------

\* Reliability never comes back; nothing is claimed of an unreliable observation, so the
\* model ends there.
Next ==
    /\ reliable
    /\ \/ ObserveClient \/ ObserveAnswer \/ FinishRequest \/ ObserveStarted \/ ObserveTerminal
       \/ ObserveStatus \/ ObserveClosed
       \/ Serve \/ WriteAnswer \/ AnnounceTurn \/ ServerTurn \/ TurnEnds \/ RepeatTerminal \/ Unload \/ ServerRequest

Spec == Init /\ [][Next]_vars

----------------------------------------------------------------------------

InTransit(w) == \E n \in 1..Len(toClient) :
    toClient[n].thread = w[1] /\ w[2] \in toClient[n].turns /\ toClient[n].type \in {"started", "result"}

\* The answer to a request of kind k, which reports w, has been taken from its request and not
\* recorded yet.
Finishing(w, k) == mid.request.kind = k /\ Answer.thread = w[1] /\ w[2] \in Answer.turns

\* A turn in progress that the client asked for is counted from its request to its end, whatever
\* the order of its answer and its announcement, but for one window: between the two critical
\* sections of its own answer, where a turn that is not announced yet is counted nowhere and a
\* snapshot finds nothing active.  No other message opens such a window.  A turn that the server
\* started, or an earlier attachment, is counted once its announcement is read or the answer that
\* reports it is recorded.
TurnsCounted ==
    reliable /\ ActiveCount = 0 =>
        \A w \in running :
            \/ Finishing(w, "turn")
            \/ w \notin mine /\ (w[1] \in live \cap sub => Finishing(w, "open") \/ InTransit(w))

Commands == {r.id : r \in {x \in asked : x.kind = "exec"} \cup {x \in owed : x.turns = {}}}

\* "Pending command execution also protects against idle reclamation": a command without an
\* answer is counted.
CommandsCounted == reliable /\ ActiveCount = 0 => Commands = {}

Quiescent == reliable /\ mid = NotMid /\ toClient = <<>> /\ asked = {} /\ owed = {} /\ running = {}

\* When nothing is left to do or to observe the observer says so, in spite of late answers
\* and repeated terminal events: no work stays counted for ever.
IdleConverges == Quiescent => ActiveCount = 0

\* Then it also knows the threads it may unsubscribe: those this connection keeps loaded are
\* idle threads, and every idle thread is loaded.
ThreadsConverge == Quiescent => sub \subseteq IdleThreads /\ IdleThreads \subseteq loaded

=============================================================================
