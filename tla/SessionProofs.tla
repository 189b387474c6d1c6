---------------------------- MODULE SessionProofs ----------------------------
(****************************************************************************)
(* Proofs about Session, for every set of threads and every limit: the type *)
(* invariant, the maximum age, the detached lease, the silence of a drain   *)
(* and the safety of reclamation, each through an invariant of its own.     *)
(****************************************************************************)
EXTENDS Session, FiniteSetTheorems, TLAPS

\* The steps of the client, the copiers and the app-server.
Other(t) ==
    \/ ClientSends(t) \/ ObserveAnswer(t) \/ FinishAnswer(t) \/ ObserveIdle(t) \/ ObserveClosed(t)
    \/ ServerAnswers(t) \/ TurnEnds(t) \/ ServerUnsubscribes(t) \/ ServerUnloads(t)

Others == ClientWrites \/ HangUp \/ ObserverFails \/ \E t \in Threads : Other(t)

\* None of them moves the owner or the clock.
LEMMA OthersFrame == Others => UNCHANGED ownerVars
BY DEF Others, Other, ClientWrites, HangUp, ObserverFails, ClientSends, ObserveAnswer, FinishAnswer,
     ObserveIdle, ObserveClosed, ServerAnswers, TurnEnds, ServerUnsubscribes, ServerUnloads

\* Every step is the owner's, the clock's or one of the others'.
LEMMA NextSplit == Next <=> OwnerStep \/ OwnerUnsubscribes \/ Stopped \/ QueryFails \/ Tick \/ Others
BY DEF Next, Others, Other

----------------------------------------------------------------------------
(* Types                                                                    *)

\* A decision of the controller is a controller and, when it reclaims, a reason.
LEMMA EvaluateType ==
  ASSUME NEW c \in Controllers, NEW n \in Nat, NEW s,
         s.generation \in Nat, s.epoch \in Nat, s.idle \in Int
  PROVE  /\ Evaluate(c, n, s).controller \in Controllers
         /\ Evaluate(c, n, s).action = "reclaim" => Evaluate(c, n, s).reason \in Reasons
<1> USE DEF Answer, Controllers, Drains, NoDrain, Reasons
<1>1. CASE Draining(c)
  BY <1>1 DEF Evaluate, ContinueDrain, Draining
<1>2. CASE ~Draining(c) /\ Quiet(s)
  <2>1. Larger(c.seen, s.epoch) \in Nat
    BY DEF Larger
  <2> QED BY <1>2, <2>1 DEF Evaluate, StartDrain
<1>3. CASE ~Draining(c) /\ ~Quiet(s)
  BY <1>3 DEF Evaluate
<1> QED BY <1>1, <1>2, <1>3

Observers == [generation : Nat, live : SUBSET Threads, busy : SUBSET Threads,
              epoch : Nat, reliable : BOOLEAN]

ServerTypes ==
    /\ obs \in Observers
    /\ req \in [Threads -> Requests \cup {NoRequest}]
    /\ thread \in [Threads -> {"none", "idle", "running", "closing"}]
    /\ sub \in [Threads -> {"no", "yes", "ending"}]
    /\ gate \in {"free", "client", "owner"} /\ ended \in BOOLEAN /\ silent \in 0..DrainFor

\* The others leave everything in its type.
LEMMA OthersType == TypeOK /\ Others => TypeOK'
<1> SUFFICES ASSUME TypeOK, Others PROVE TypeOK'
  OBVIOUS
<1>1. ServerTypes' => TypeOK'
  BY OthersFrame DEF TypeOK, ServerTypes, Observers, ownerVars, lease, idle, attempt
<1>2. ServerTypes
  BY DEF TypeOK, ServerTypes, Observers
<1> USE SessionAssumption, ReclaimAssumption DEF SessionAssumption, ReclaimAssumption
<1> USE DEF ServerTypes, Observers, Requests, NoRequest, Kinds, ownerVars, copierVars, server
<1>3. ASSUME ClientWrites PROVE ServerTypes'
  <2>1. ASSUME NEW t \in Threads, req[t].stage = "held"
        PROVE  [req[t] EXCEPT !.stage = "sent"] \in Requests
    <3>1. req[t] \in Requests
      BY <1>2, <2>1
    <3> QED BY <3>1
  <2>2. req' \in [Threads -> Requests \cup {NoRequest}]
    BY <1>2, <1>3, <2>1 DEF ClientWrites
  <2> QED BY <1>2, <1>3, <2>2 DEF ClientWrites
<1>4. ASSUME HangUp \/ ObserverFails PROVE ServerTypes'
  BY <1>2, <1>4 DEF HangUp, ObserverFails
<1>5. ASSUME NEW t \in Threads, Other(t) PROVE ServerTypes'
  <2>1. CASE ClientSends(t)
    <3>1. PICK k \in Kinds, seen \in {TRUE, obs.reliable} :
            /\ req' = [req EXCEPT ![t] = [kind |-> k, stage |-> "held", seen |-> seen]]
            /\ IF seen THEN obs' = [obs EXCEPT !.generation = @ + 1] /\ silent' = 0
                       ELSE UNCHANGED <<obs, silent>>
      BY <2>1 DEF ClientSends
    <3>2. seen \in BOOLEAN
      BY <1>2
    <3>3. req' \in [Threads -> Requests \cup {NoRequest}]
      BY <1>2, <3>1, <3>2
    <3>4. obs' \in Observers /\ silent' \in 0..DrainFor
      BY <1>2, <3>1, <3>2
    <3> QED BY <1>2, <2>1, <3>3, <3>4 DEF ClientSends
  <2>2. CASE ObserveAnswer(t)
    <3>1. req[t] \in Requests \cup {NoRequest}
      BY <1>2
    <3>2. [req[t] EXCEPT !.stage = "taken"] \in Requests
      BY <2>2, <3>1 DEF ObserveAnswer
    <3>3. req' \in [Threads -> Requests \cup {NoRequest}]
      BY <1>2, <2>2, <3>2 DEF ObserveAnswer
    <3> QED BY <1>2, <2>2, <3>3 DEF ObserveAnswer
  <2>7. CASE FinishAnswer(t)
    <3>1. \A o \in Observers, live, busy \in SUBSET Threads, e \in Nat :
            /\ [o EXCEPT !.live = live, !.busy = busy] \in Observers
            /\ [o EXCEPT !.busy = busy] \in Observers
            /\ [o EXCEPT !.live = live, !.epoch = e] \in Observers
      OBVIOUS
    <3>2. Finish(t, req[t].kind) \in Observers
      <4> DEFINE add == obs.busy \cup {t}
                 rest == obs.live \ {t}
                 epoch == IF obs.live = {t} THEN obs.epoch + 1 ELSE obs.epoch
      <4>1. /\ obs \in Observers /\ obs.live \cup {t} \in SUBSET Threads
            /\ add \in SUBSET Threads /\ obs.busy \in SUBSET Threads
            /\ rest \in SUBSET Threads /\ epoch \in Nat
        BY <1>2
      <4>2. CASE req[t].kind = "open"
        BY <3>1, <4>1, <4>2 DEF Finish
      <4>3. CASE req[t].kind = "archive"
        BY <3>1, <4>1, <4>3 DEF Finish
      <4>4. CASE req[t].kind \notin {"open", "archive"}
        BY <3>1, <4>1, <4>4 DEF Finish
      <4> QED BY <4>2, <4>3, <4>4
    <3> QED BY <1>2, <2>7, <3>2 DEF FinishAnswer
  <2>3. CASE ObserveIdle(t)
    BY <1>2, <2>3 DEF ObserveIdle
  <2>4. CASE ObserveClosed(t)
    BY <1>2, <2>4 DEF ObserveClosed
  <2>5. CASE ServerAnswers(t)
    BY <1>2, <2>5 DEF ServerAnswers, Answered
  <2>6. CASE TurnEnds(t) \/ ServerUnsubscribes(t) \/ ServerUnloads(t)
    BY <1>2, <2>6 DEF TurnEnds, ServerUnsubscribes, ServerUnloads
  <2> QED BY <1>5, <2>1, <2>2, <2>3, <2>4, <2>5, <2>6, <2>7 DEF Other
<1> QED BY <1>1, <1>3, <1>4, <1>5 DEF Others

\* A detached interval is never negative: without this the budget's sum is no number.
Typed == TypeOK /\ detached <= now

LEMMA FreshTypes ==
    /\ NewObserver \in Observers
    /\ [t \in Threads |-> NoRequest] \in [Threads -> Requests \cup {NoRequest}]
    /\ [t \in Threads |-> "no"] \in [Threads -> {"no", "yes", "ending"}]
    /\ [t \in Threads |-> "none"] \in [Threads -> {"none", "idle", "running", "closing"}]
    /\ NewController \in Controllers
BY DEF NewObserver, Observers, NewController, Controllers, NoDrain

LEMMA OwnerType ==
  Typed /\ (OwnerStep \/ OwnerUnsubscribes \/ Stopped \/ QueryFails \/ Tick) => Typed'
<1> SUFFICES ASSUME Typed, OwnerStep \/ OwnerUnsubscribes \/ Stopped \/ QueryFails \/ Tick PROVE Typed'
  OBVIOUS
<1> USE SessionAssumption, ReclaimAssumption DEF SessionAssumption, ReclaimAssumption
<1> USE DEF Typed, TypeOK, PcStates, Causes, Reasons, lease, idle, attempt, connection, server
<1>1. NewController \in Controllers
  BY FreshTypes
<1>2. CASE LoopTop
  BY <1>2 DEF LoopTop, Close
<1>3. CASE OwnerDetaches
  <2>1. attached' \in BOOLEAN /\ ended' \in BOOLEAN /\ detached' = now'
    BY <1>3 DEF OwnerDetaches
  <2>2. ServerTypes'
    BY <1>3, <2>1, FreshTypes DEF OwnerDetaches, ServerTypes, Observers
  <2> QED BY <1>3, <2>1, <2>2 DEF OwnerDetaches, ServerTypes, Observers
<1>4. CASE OwnerAccepts
  <2>1. CASE Attach
    <3>1. attached' \in BOOLEAN /\ detached' = 0 /\ total' \in Nat
      BY <2>1 DEF Attach
    <3> QED BY <1>1, <1>4, <2>1, <3>1 DEF OwnerAccepts, Attach
  <2>2. CASE UNCHANGED <<attached, detached, total, idle>>
    BY <1>4, <2>2 DEF OwnerAccepts
  <2> QED BY <1>4, <2>1, <2>2 DEF OwnerAccepts
<1>5. CASE OwnerEvaluates
  <2>1. CASE attached
    <3> DEFINE activity == IF obs.generation # generation THEN now ELSE lastActivity
               answer == Evaluate(controller, now, Snapshot(activity))
    <3>1. activity \in Nat /\ Snapshot(activity).idle \in Int
          /\ Snapshot(activity).generation \in Nat /\ Snapshot(activity).epoch \in Nat
      BY DEF Snapshot
    <3>2. answer.controller \in Controllers /\ (answer.action = "reclaim" => answer.reason \in Reasons)
      BY <3>1, EvaluateType
    <3> HIDE DEF answer
    <3>3. /\ lastActivity' = activity /\ generation' = obs.generation
          /\ controller' = answer.controller
          /\ IF answer.action = "reclaim" THEN pc' = "gate" /\ reason' = answer.reason
                                          ELSE pc' = "sample" /\ UNCHANGED reason
      BY <1>5, <2>1 DEF OwnerEvaluates, answer
    <3> QED BY <1>5, <3>1, <3>2, <3>3 DEF OwnerEvaluates
  <2>2. CASE ~attached
    BY <1>5, <2>2 DEF OwnerEvaluates
  <2> QED BY <2>1, <2>2
<1>6. CASE OwnerTakesGate
  BY <1>6 DEF OwnerTakesGate, GiveUp
<1>7. CASE QueryLists \/ QueryReads \/ QueryFails
  BY <1>7 DEF QueryLists, QueryReads, QueryFails, GiveUp
<1>8. CASE OwnerDecides
  BY <1>8 DEF OwnerDecides, GiveUp, Close
<1>9. CASE OwnerListsIdle \/ OwnerUnsubscribes
  <2>1. CASE OwnerListsIdle
    BY <1>1, <2>1 DEF OwnerListsIdle, IdleThreads, FinishIdle, FinishRecycle, GiveUp, RestartIdle, Close
  <2>2. CASE OwnerUnsubscribes
    BY <1>1, <2>2 DEF OwnerUnsubscribes, Ending, FinishIdle, FinishRecycle, GiveUp, RestartIdle, Close
  <2> QED BY <1>9, <2>1, <2>2
<1>10. CASE OwnerUnloaded
  BY <1>1, <1>10 DEF OwnerUnloaded, FinishIdle, FinishRecycle, GiveUp, RestartIdle, Close
<1>11. CASE OwnerSamples \/ Stopped
  BY <1>11 DEF OwnerSamples, Stopped, Close
<1>12. CASE Tick
  BY <1>12 DEF Tick
<1> QED BY <1>2, <1>3, <1>4, <1>5, <1>6, <1>7, <1>8, <1>9, <1>10, <1>11, <1>12 DEF OwnerStep

LEMMA TypedStep == Typed /\ [Next]_vars => Typed'
<1>1. ASSUME Typed, Others PROVE Typed'
  BY <1>1, OthersType, OthersFrame DEF Typed, ownerVars, lease
<1>2. ASSUME Typed, UNCHANGED vars PROVE Typed'
  BY <1>2 DEF Typed, TypeOK, vars, lease, idle, attempt, server
<1> QED BY <1>1, <1>2, OwnerType, NextSplit

LEMMA TypedInit == Init => Typed
<1> SUFFICES ASSUME Init PROVE Typed
  OBVIOUS
<1>1. attached \in BOOLEAN /\ ended \in BOOLEAN
  BY Zenon DEF Init
<1>2. silent \in 0..DrainFor /\ gate \in {"free", "client", "owner"}
  BY ReclaimAssumption DEF Init, ReclaimAssumption
<1>3. ServerTypes
  BY <1>1, <1>2, FreshTypes, Zenon DEF Init, ServerTypes
<1>4. now \in Nat /\ total \in Nat /\ away \in Nat /\ until \in Nat /\ detached \in Nat
      /\ stalled \in Nat /\ lastActivity \in Nat /\ generation \in Nat /\ before \in Nat /\ detached <= now
  BY DEF Init
<1>5. /\ pc \in PcStates /\ cause \in Causes /\ todo \subseteq Threads
      /\ reason \in Reasons \cup {"none", "fd"}
  BY DEF Init, PcStates, Causes
<1>6. controller \in Controllers
  BY FreshTypes DEF Init
<1> QED BY <1>1, <1>3, <1>4, <1>5, <1>6, Zenon DEF Typed, TypeOK, ServerTypes, Observers

\* Every variable keeps its type, and no detached interval is negative.
THEOREM SessionTypeCorrect == Spec => []TypeOK
<1>1. Typed => TypeOK
  BY DEF Typed
<1> QED BY <1>1, TypedInit, TypedStep, PTL DEF Spec

----------------------------------------------------------------------------
(* The maximum age                                                          *)

QueryWaits == {"query", "reading", "list", "unsubscribe", "unload"}

Turn == Larger(JoinLimit, QueryLimit + UnloadWait)

\* What an attempt for reason r finds gone of a turn that passed the top in time.
Spent(r) == IF r = "fd" THEN Turn ELSE 0

\* A turn that passes the top does so before the maximum age.  What reaches the descriptor
\* check is late by the longer of the two waits before it, because a turn that detaches
\* does not reclaim for archive or idle: the controller of a new attachment only starts a drain.
\* Blocked writes come on top of every deadline.
AgeInv ==
    /\ pc = "top" => now <= MaxAge + Turn + QueryLimit + UnloadWait + stalled
    /\ pc = "join" => now <= until /\ until < MaxAge + JoinLimit
    /\ pc \in {"accept", "evaluate"} => now < MaxAge + JoinLimit
    /\ pc \in {"accept", "evaluate"} /\ attached /\ Draining(controller) => now < MaxAge
    /\ pc = "accept" /\ attached => now < MaxAge
    /\ pc = "gate" => now < MaxAge + Spent(reason) + stalled
    /\ pc \in {"query", "reading"} =>
        now <= until /\ until < MaxAge + Spent(reason) + QueryLimit + stalled
    /\ pc \in {"list", "unsubscribe"} => now < MaxAge + Spent(reason) + QueryLimit + stalled
    /\ pc = "unload" =>
        now <= until /\ until < MaxAge + Spent(reason) + QueryLimit + UnloadWait + stalled
    /\ pc = "sample" => now < MaxAge + Turn + stalled
    /\ pc = "sleep" => now < MaxAge + Turn + QueryLimit + UnloadWait + stalled
    /\ pc = "closed" => now <= MaxAge + Turn + QueryLimit + UnloadWait + stalled

\* A controller that is not draining never answers "reclaim".
LEMMA ReclaimNeedsDrain ==
  ASSUME NEW c, NEW n, NEW s, Evaluate(c, n, s).action = "reclaim"
  PROVE  Draining(c) /\ ~Cancels(c.drain, s) /\ n - c.drain.at >= DrainFor
BY DEF Evaluate, ContinueDrain, StartDrain, Answer

LEMMA AgeStep == Typed /\ AgeInv /\ [Next]_vars => AgeInv'
<1> SUFFICES ASSUME Typed, AgeInv, [Next]_vars PROVE AgeInv'
  OBVIOUS
<1> USE SessionAssumption DEF SessionAssumption
<1>1. Turn \in Nat /\ JoinLimit <= Turn /\ QueryLimit + UnloadWait <= Turn
  BY DEF Turn, Larger
<1>2. /\ now \in Nat /\ until \in Nat /\ MaxAge \in Nat /\ QueryLimit \in Nat
      /\ UnloadWait \in Nat /\ JoinLimit \in Nat /\ detached \in Nat /\ detached <= now
      /\ stalled \in Nat
  BY DEF Typed, TypeOK
<1> USE DEF lease, idle, attempt, connection, server
<1>3. CASE Others \/ UNCHANGED vars
  BY <1>3, OthersFrame DEF AgeInv, ownerVars, vars, Spent, Turn, Draining
<1>4. CASE LoopTop
  BY <1>1, <1>2, <1>4 DEF AgeInv, LoopTop, Close, AgeReached, Spent, Turn
<1>5. CASE Stopped
  BY <1>1, <1>2, <1>5 DEF AgeInv, Stopped, Close, Spent, Turn
<1>6. CASE OwnerDetaches
  BY <1>1, <1>2, <1>6 DEF AgeInv, OwnerDetaches, Spent, Turn
<1>7. CASE OwnerAccepts
  BY <1>1, <1>2, <1>7 DEF AgeInv, OwnerAccepts, Attach, NewController, NoDrain, Draining, Reasons, Spent, Turn
<1>8. CASE OwnerEvaluates
  <2>1. /\ UNCHANGED now
        /\ \/ pc' = "sample"
           \/ pc' = "gate" /\ reason' \in Reasons /\ attached /\ Draining(controller)
    <3>1. CASE attached
      <4> DEFINE activity == IF obs.generation # generation THEN now ELSE lastActivity
                 answer == Evaluate(controller, now, Snapshot(activity))
      <4>1. /\ answer.action = "reclaim" => answer.reason \in Reasons
            /\ answer.action = "reclaim" => Draining(controller)
        <5>1. Snapshot(activity).idle \in Int /\ Snapshot(activity).generation \in Nat
              /\ Snapshot(activity).epoch \in Nat /\ controller \in Controllers
          BY DEF Typed, TypeOK, Snapshot
        <5> QED BY <1>2, <5>1, EvaluateType, ReclaimNeedsDrain
      <4> HIDE DEF answer
      <4>2. IF answer.action = "reclaim" THEN pc' = "gate" /\ reason' = answer.reason
                                        ELSE pc' = "sample" /\ UNCHANGED reason
        BY <1>8, <3>1 DEF OwnerEvaluates, answer
      <4> QED BY <1>8, <3>1, <4>1, <4>2 DEF OwnerEvaluates
    <3>2. CASE ~attached
      BY <1>8, <3>2 DEF OwnerEvaluates
    <3> QED BY <3>1, <3>2
  <2> QED BY <1>1, <1>2, <1>8, <2>1 DEF OwnerEvaluates, AgeInv, Spent, Turn, Reasons
<1>9. CASE OwnerTakesGate
  BY <1>1, <1>2, <1>9 DEF AgeInv, OwnerTakesGate, GiveUp, Spent, Turn
<1>10. CASE QueryLists \/ QueryReads \/ QueryFails
  BY <1>1, <1>2, <1>10 DEF AgeInv, QueryLists, QueryReads, QueryFails, GiveUp, Spent, Turn
<1>11. CASE OwnerDecides
  BY <1>1, <1>2, <1>11 DEF AgeInv, OwnerDecides, GiveUp, Close, Spent, Turn
<1>12. CASE OwnerListsIdle \/ OwnerUnsubscribes
  <2>1. CASE OwnerListsIdle
    BY <1>1, <1>2, <2>1 DEF AgeInv, OwnerListsIdle, FinishIdle, FinishRecycle, GiveUp, Close, Spent, Turn
  <2>2. CASE OwnerUnsubscribes
    <3>1. pc = "unsubscribe" /\ UNCHANGED <<now, stalled>>
      BY <2>2 DEF OwnerUnsubscribes
    <3>2. now < MaxAge + Spent(reason) + QueryLimit + stalled
      BY <3>1 DEF AgeInv
    <3>3. CASE pc' = "unload" /\ until' = now + UnloadWait /\ UNCHANGED reason
      BY <1>1, <1>2, <3>1, <3>2, <3>3 DEF AgeInv, Spent
    <3>4. CASE pc' = "unsubscribe" /\ UNCHANGED reason
      BY <3>1, <3>2, <3>4 DEF AgeInv
    <3>5. CASE FinishIdle
      BY <1>1, <1>2, <3>1, <3>2, <3>5 DEF AgeInv, FinishIdle, GiveUp, Spent
    <3>6. CASE FinishRecycle
      BY <1>1, <1>2, <3>1, <3>2, <3>6 DEF AgeInv, FinishRecycle, Close, Spent
    <3> QED BY <2>2, <3>1, <3>3, <3>4, <3>5, <3>6 DEF OwnerUnsubscribes
  <2> QED BY <1>12, <2>1, <2>2
<1>13. CASE OwnerUnloaded
  BY <1>1, <1>2, <1>13 DEF AgeInv, OwnerUnloaded, FinishIdle, FinishRecycle, GiveUp, Close, Spent, Turn
<1>14. CASE OwnerSamples
  BY <1>1, <1>2, <1>14 DEF AgeInv, OwnerSamples, Close, Spent, Turn
<1>15. CASE Tick
  BY <1>1, <1>2, <1>15 DEF AgeInv, Tick, Waiting, Spent, Turn
<1> QED BY <1>3, <1>4, <1>5, <1>6, <1>7, <1>8, <1>9, <1>10, <1>11, <1>12, <1>13, <1>14, <1>15,
       NextSplit DEF OwnerStep

\* No session outlives its maximum age by more than the waits of one turn and the time for which
\* its owner's writes of that turn block, for every choice of the limits and however client,
\* copiers and server behave.
THEOREM AgeIsBounded == Spec => []AgeBounded
<1>1. Init => Typed /\ AgeInv
  <2>1. Turn \in Nat
    BY SessionAssumption DEF SessionAssumption, Turn, Larger
  <2> QED BY <2>1, SessionAssumption, TypedInit DEF SessionAssumption, Init, AgeInv
<1>2. Typed /\ AgeInv /\ [Next]_vars => (Typed /\ AgeInv)'
  BY TypedStep, AgeStep
<1>3. Typed /\ AgeInv => AgeBounded
  <2> SUFFICES ASSUME Typed, AgeInv PROVE AgeBounded
    OBVIOUS
  <2>1. /\ Turn \in Nat /\ JoinLimit <= Turn /\ QueryLimit + UnloadWait <= Turn
        /\ Larger(JoinLimit, QueryLimit + UnloadWait) = Turn
    BY SessionAssumption DEF SessionAssumption, Turn, Larger
  <2>2. now \in Nat /\ stalled \in Nat /\ until \in Nat /\ pc \in PcStates
    BY DEF Typed, TypeOK
  <2>3. Spent(reason) \in 0..Turn
    BY <2>1 DEF Spent
  <2> HIDE DEF Turn
  <2> QED BY <2>1, <2>2, <2>3, SessionAssumption DEF SessionAssumption, PcStates, AgeInv, AgeBounded
<1> QED BY <1>1, <1>2, <1>3, PTL DEF Spec

----------------------------------------------------------------------------
(* The detached lease                                                       *)

\* Only the top of the loop can find the lease over: elsewhere a detached worker has some left,
\* and an attachment is granted only from what is left.
LeaseInv ==
    /\ ended => attached
    /\ pc \in {"join", "gate"} \cup QueryWaits => attached
    /\ attached => away = total /\ total < DetachBudget
    /\ ~attached =>
        /\ away = total + (now - detached)
        /\ away <= DetachBudget /\ now - detached <= EofGrace
        /\ pc \in {"accept", "evaluate", "sample", "sleep"} =>
            now - detached < EofGrace /\ away < DetachBudget

LEMMA LeaseStep == Typed /\ LeaseInv /\ [Next]_vars => LeaseInv'
<1> SUFFICES ASSUME Typed, LeaseInv, [Next]_vars PROVE LeaseInv'
  OBVIOUS
<1> USE SessionAssumption DEF SessionAssumption, lease, idle, attempt, connection, server, QueryWaits
<1>1. now \in Nat /\ total \in Nat /\ away \in Nat /\ detached \in Nat /\ detached <= now
  BY DEF Typed, TypeOK
<1>2. CASE Others \/ UNCHANGED vars
  <2>1. UNCHANGED ended \/ attached
    BY <1>2 DEF Others, Other, vars, copierVars, ClientWrites, HangUp, ObserverFails, ClientSends,
         ObserveAnswer, FinishAnswer, ObserveIdle, ObserveClosed, ServerAnswers, TurnEnds, ServerUnsubscribes,
         ServerUnloads
  <2> QED BY <1>2, <2>1, OthersFrame DEF LeaseInv, ownerVars, vars
<1>3. CASE LoopTop
  BY <1>1, <1>3 DEF LeaseInv, LoopTop, Close, LeaseOver
<1>4. CASE Stopped \/ OwnerSamples
  <2>1. ~attached /\ OwnerSamples => pc' \in {"sleep", "closed"}
    BY DEF OwnerSamples, Busy, FdAction, Close, Counts
  <2> QED BY <1>1, <1>4, <2>1 DEF LeaseInv, Stopped, OwnerSamples, Close
<1>5. CASE OwnerDetaches
  BY <1>1, <1>5 DEF LeaseInv, OwnerDetaches
<1>6. CASE OwnerAccepts
  BY <1>1, <1>6 DEF LeaseInv, OwnerAccepts, Attach
<1>7. CASE OwnerEvaluates
  <2>1. UNCHANGED <<attached, detached, total, away, now, ended>>
        /\ pc = "evaluate" /\ (pc' = "sample" \/ (pc' = "gate" /\ attached))
    BY <1>7 DEF OwnerEvaluates
  <2> QED BY <1>1, <2>1 DEF LeaseInv
<1>8. CASE OwnerTakesGate \/ QueryLists \/ QueryReads \/ QueryFails \/ OwnerDecides
            \/ OwnerListsIdle \/ OwnerUnsubscribes \/ OwnerUnloaded
  <2>1. UNCHANGED <<attached, detached, total, away, now, ended>> /\ pc \in {"gate"} \cup QueryWaits
    BY <1>8 DEF OwnerTakesGate, QueryLists, QueryReads, QueryFails, OwnerDecides,
         OwnerListsIdle, OwnerUnsubscribes, OwnerUnloaded
  <2> QED BY <1>1, <2>1 DEF LeaseInv
<1>9. CASE Tick
  BY <1>1, <1>9 DEF LeaseInv, Tick, Waiting
<1> QED BY <1>2, <1>3, <1>4, <1>5, <1>6, <1>7, <1>8, <1>9, NextSplit DEF OwnerStep

\* However often a client comes and goes, and for every grace and budget, the worker is never
\* alone for longer than the grace at a stretch nor longer than the budget in all.
THEOREM LeaseIsBounded == Spec => []LeaseBounded
<1>1. Init => Typed /\ LeaseInv
  BY TypedInit, SessionAssumption DEF SessionAssumption, Init, LeaseInv, QueryWaits
<1>2. Typed /\ LeaseInv /\ [Next]_vars => (Typed /\ LeaseInv)'
  BY TypedStep, LeaseStep
<1>3. Typed /\ LeaseInv => LeaseBounded
  BY SessionAssumption DEF SessionAssumption, Typed, TypeOK, LeaseInv, LeaseBounded
<1> QED BY <1>1, <1>2, <1>3, PTL DEF Spec

----------------------------------------------------------------------------
(* The drain                                                                *)

\* As long as the generation a drain began with is the observer's, the client has been silent
\* since; the generation only grows under one attachment, and a drain does not outlive it.
DrainInv ==
    attached /\ Draining(controller) =>
        /\ controller.drain.at <= now
        /\ controller.drain.generation <= obs.generation
        /\ controller.drain.generation = obs.generation =>
            silent = DrainFor \/ now - controller.drain.at <= silent

\* An answer keeps the drain, ends it, or begins one here and now.
LEMMA EvaluateDrain ==
  ASSUME NEW c \in Controllers, NEW n, NEW s
  PROVE  LET d == Evaluate(c, n, s).controller IN
         \/ d.drain = c.drain
         \/ ~Draining(d)
         \/ d.drain.at = n /\ d.drain.generation = s.generation
BY DEF Evaluate, ContinueDrain, StartDrain, Answer, Controllers, Draining, NoDrain, Reasons

LEMMA DrainTypes ==
  ASSUME NEW c \in Controllers, Draining(c)
  PROVE  c.drain.at \in Nat /\ c.drain.generation \in Nat
BY DEF Controllers, Draining, Drains, NoDrain, Reasons

LEMMA DrainStep == Typed /\ DrainInv /\ [Next]_vars => DrainInv'
<1> SUFFICES ASSUME Typed, DrainInv, [Next]_vars, attached', Draining(controller')
             PROVE  DrainInv'
  BY DEF DrainInv, Draining
<1> USE ReclaimAssumption DEF ReclaimAssumption, lease, idle, attempt, connection, server
<1>1. /\ now \in Nat /\ obs.generation \in Nat /\ silent \in 0..DrainFor
      /\ controller \in Controllers /\ obs \in Observers
  BY DEF Typed, TypeOK, Observers
<1>2. Draining(controller) => controller.drain.at \in Nat /\ controller.drain.generation \in Nat
  BY <1>1, DrainTypes
<1>3. ~Draining(NewController)
  BY DEF Draining, NewController, NoDrain, Reasons
<1>4. CASE Others \/ UNCHANGED vars
  <2>1. UNCHANGED <<now, attached, controller>>
    BY <1>4, OthersFrame DEF ownerVars, vars
  <2>2. \/ obs'.generation = obs.generation /\ UNCHANGED silent
        \/ obs'.generation = obs.generation + 1
    <3> USE DEF copierVars
    <3>1. ASSUME NEW t \in Threads, FinishAnswer(t)
          PROVE  obs'.generation = obs.generation /\ UNCHANGED silent
      BY <1>1, <3>1 DEF FinishAnswer, Finish, Observers
    <3>2. ASSUME NEW t \in Threads, ClientSends(t)
          PROVE  \/ obs'.generation = obs.generation /\ UNCHANGED silent
                 \/ obs'.generation = obs.generation + 1
      BY <1>1, <3>2 DEF ClientSends, Observers
    <3>3. ASSUME NEW t \in Threads, Other(t), ~FinishAnswer(t), ~ClientSends(t)
          PROVE  obs'.generation = obs.generation /\ UNCHANGED silent
      BY <1>1, <3>3 DEF Other, ObserveAnswer, ObserveIdle, ObserveClosed, ServerAnswers, TurnEnds,
           ServerUnsubscribes, ServerUnloads, Observers
    <3>4. CASE ClientWrites \/ HangUp \/ ObserverFails \/ UNCHANGED vars
      BY <1>1, <3>4 DEF ClientWrites, HangUp, ObserverFails, vars, Observers
    <3> QED BY <1>4, <3>1, <3>2, <3>3, <3>4 DEF Others
  <2> QED BY <1>1, <1>2, <2>1, <2>2 DEF DrainInv, Draining
<1>5. CASE OwnerDetaches
  BY <1>5 DEF OwnerDetaches
<1>6. CASE OwnerAccepts
  BY <1>3, <1>6 DEF OwnerAccepts, Attach, DrainInv
<1>7. CASE OwnerEvaluates
  <2> DEFINE activity == IF obs.generation # generation THEN now ELSE lastActivity
             s == Snapshot(activity)
             d == Evaluate(controller, now, s).controller
  <2>1. /\ attached /\ controller' = d /\ UNCHANGED <<now, obs, silent>>
        /\ s.generation = obs.generation
    BY <1>7 DEF OwnerEvaluates, Snapshot
  <2> HIDE DEF s
  <2>2. \/ d.drain = controller.drain
        \/ ~Draining(d)
        \/ d.drain.at = now /\ d.drain.generation = s.generation
    BY <1>1, EvaluateDrain
  <2> HIDE DEF d
  <2>3. CASE d.drain = controller.drain
    BY <1>1, <2>1, <2>3 DEF DrainInv, Draining
  <2>4. CASE d.drain.at = now /\ d.drain.generation = s.generation
    BY <1>1, <2>1, <2>4 DEF DrainInv
  <2> QED BY <2>1, <2>2, <2>3, <2>4
<1>8. CASE OwnerListsIdle \/ OwnerUnsubscribes \/ OwnerUnloaded
  <2>1. controller' = controller \/ controller' = NewController
    BY <1>8 DEF OwnerListsIdle, OwnerUnsubscribes, OwnerUnloaded, FinishIdle, FinishRecycle, RestartIdle
  <2>2. UNCHANGED <<now, attached, obs, silent>>
    BY <1>8 DEF OwnerListsIdle, OwnerUnsubscribes, OwnerUnloaded
  <2> QED BY <1>3, <2>1, <2>2 DEF DrainInv
<1>9. CASE LoopTop \/ Stopped \/ OwnerTakesGate \/ QueryLists \/ QueryReads \/ QueryFails
            \/ OwnerDecides \/ OwnerSamples
  <2>1. UNCHANGED <<now, attached, controller, obs, silent>>
    BY <1>9 DEF LoopTop, Stopped, OwnerTakesGate, QueryLists, QueryReads, QueryFails,
         OwnerDecides, OwnerSamples
  <2> QED BY <2>1 DEF DrainInv
<1>10. CASE Tick
  BY <1>1, <1>2, <1>10 DEF Tick, DrainInv
<1> QED BY <1>4, <1>5, <1>6, <1>7, <1>8, <1>9, <1>10, NextSplit DEF OwnerStep

\* A reclamation is decided only after a whole drain without client activity, for every drain
\* length, also when a new attachment's generation numbers repeat those of the last one.
THEOREM DrainsAreSilent == Spec => DrainIsSilent
<1>1. Init => Typed /\ DrainInv
  BY TypedInit DEF Init, DrainInv
<1>2. Typed /\ DrainInv /\ [Next]_vars => (Typed /\ DrainInv)'
  BY TypedStep, DrainStep
<1>3. Typed /\ DrainInv /\ [Next]_vars => [pc = "evaluate" /\ pc' = "gate" => silent = DrainFor]_vars
  <2> SUFFICES ASSUME Typed, DrainInv, Next, pc = "evaluate", pc' = "gate"
               PROVE  silent = DrainFor
    OBVIOUS
  <2>1. OwnerEvaluates /\ attached
    <3>1. ~Others
      BY OthersFrame DEF ownerVars
    <3>2. OwnerEvaluates
      BY <3>1, NextSplit DEF OwnerStep, LoopTop, OwnerDetaches, OwnerAccepts, OwnerTakesGate,
           QueryLists, QueryReads, OwnerDecides, OwnerListsIdle, OwnerUnsubscribes, OwnerUnloaded,
           OwnerSamples, FinishIdle, FinishRecycle, GiveUp, Close,
           Stopped, QueryFails, Tick, Waiting
    <3> QED BY <3>2 DEF OwnerEvaluates
  <2> DEFINE activity == IF obs.generation # generation THEN now ELSE lastActivity
             s == Snapshot(activity)
  <2>2. Evaluate(controller, now, s).action = "reclaim" /\ s.generation = obs.generation
    BY <2>1 DEF OwnerEvaluates, Snapshot
  <2> HIDE DEF s
  <2>3. Draining(controller) /\ ~Cancels(controller.drain, s) /\ now - controller.drain.at >= DrainFor
    BY <2>2, ReclaimNeedsDrain
  <2>4. controller.drain.generation = obs.generation
    BY <2>2, <2>3 DEF Cancels
  <2>5. controller.drain.at \in Nat /\ now \in Nat /\ silent \in 0..DrainFor
    BY <2>3, DrainTypes DEF Typed, TypeOK
  <2> QED BY <2>1, <2>3, <2>4, <2>5, ReclaimAssumption DEF DrainInv, ReclaimAssumption
<1> QED BY <1>1, <1>2, <1>3, PTL DEF Spec, DrainIsSilent

----------------------------------------------------------------------------
(* Reclamation and work                                                     *)

Pending(t) == req[t].kind \in {"turn", "exec"} /\ req[t].stage \in {"held", "sent"}

\* Under the gate no request for work is on its way: the observer was reliable when the gate was
\* taken and so had counted every one, and none is sent while the owner holds the gate.  A turn
\* that was running is then in the inventory, and it must be read idle before anything happens.
SpareInv ==
    /\ pc \in QueryWaits => gate = "owner"
    /\ \A t \in Threads : req[t].stage = "held" => gate = "client"
    /\ obs.reliable => \A t \in Threads : req[t].kind \in {"turn", "exec"} => req[t].seen
    /\ pc \in QueryWaits => \A t \in Threads : ~Pending(t)
    /\ pc = "reading" => \A t \in Threads : thread[t] = "running" => t \in todo
    /\ pc \in {"list", "unsubscribe", "unload"} => \A t \in Threads : thread[t] # "running"
    /\ pc = "closed" /\ cause \in {"archive", "recycle"} =>
        \A t \in Threads : thread[t] # "running" /\ ~Pending(t)

\* No active work means that no request is counted.
LEMMA InactiveCountsNothing ==
  ASSUME Typed, ActiveCount = 0
  PROVE  \A t \in Threads : ~Counted(req[t])
<1> DEFINE counted == {t \in Threads : Counted(req[t])}
<1>1. IsFiniteSet(counted) /\ IsFiniteSet(obs.busy)
  BY SessionAssumption, FS_Subset DEF SessionAssumption, Typed, TypeOK
<1>2. Cardinality(counted) \in Nat /\ Cardinality(obs.busy) \in Nat
  BY <1>1, FS_CardinalityType
<1>3. Cardinality(counted) = 0
  BY <1>2 DEF ActiveCount
<1>4. counted = {}
  BY <1>1, <1>3, FS_EmptySet
<1> QED BY <1>4

\* Requests only go forward, threads start to run only on a request for a turn.
LEMMA SpareOthers == Typed /\ SpareInv /\ Others => SpareInv'
<1> SUFFICES ASSUME Typed, SpareInv, Others PROVE SpareInv'
  OBVIOUS
<1>1. ServerTypes
  BY DEF Typed, TypeOK, ServerTypes, Observers
<1>2. UNCHANGED <<pc, cause, todo>> /\ pc # "closed"
  BY OthersFrame DEF ownerVars, attempt, Others, Other, Running, ClientWrites, HangUp, ObserverFails,
       ClientSends, ObserveAnswer, FinishAnswer, ObserveIdle, ObserveClosed, ServerAnswers, TurnEnds,
       ServerUnsubscribes, ServerUnloads
<1> USE DEF ServerTypes, Observers, Requests, NoRequest, Kinds, SpareInv, Pending, QueryWaits,
            server, copierVars
<1>3. CASE ClientWrites
  BY <1>1, <1>2, <1>3 DEF ClientWrites
<1>4. CASE HangUp \/ ObserverFails
  BY <1>1, <1>2, <1>4 DEF HangUp, ObserverFails
<1>5. ASSUME NEW t \in Threads, Other(t) PROVE SpareInv'
  <2>1. CASE ClientSends(t)
    <3>1. PICK k \in Kinds, seen \in {TRUE, obs.reliable} :
            req' = [req EXCEPT ![t] = [kind |-> k, stage |-> "held", seen |-> seen]]
      BY <2>1 DEF ClientSends
    <3>2. gate = "free" /\ gate' = "client" /\ UNCHANGED thread /\ obs'.reliable = obs.reliable
      BY <1>1, <2>1 DEF ClientSends
    <3>3. \A u \in Threads \ {t} : req'[u] = req[u]
      BY <1>1, <3>1
    <3>4. req'[t].seen = seen
      BY <1>1, <3>1
    <3>5. obs'.reliable => \A u \in Threads : req'[u].kind \in {"turn", "exec"} => req'[u].seen
      BY <3>2, <3>3, <3>4
    <3> QED BY <1>2, <3>2, <3>5
  <2>2. CASE ObserveAnswer(t)
    BY <1>1, <1>2, <2>2 DEF ObserveAnswer
  <2>6. CASE FinishAnswer(t)
    <3>1. obs'.reliable = obs.reliable
      BY <1>1, <2>6 DEF FinishAnswer, Finish
    <3> QED BY <1>1, <1>2, <2>6, <3>1 DEF FinishAnswer
  <2>3. CASE ObserveIdle(t) \/ ObserveClosed(t)
    <3>1. CASE ObserveIdle(t)
      BY <1>1, <1>2, <3>1 DEF ObserveIdle
    <3>2. CASE ObserveClosed(t)
      BY <1>1, <1>2, <3>2 DEF ObserveClosed
    <3> QED BY <2>3, <3>1, <3>2
  <2>4. CASE ServerAnswers(t)
    <3>1. UNCHANGED <<gate, obs>> /\ req[t].stage = "sent"
      BY <2>4 DEF ServerAnswers
    <3>2. \A u \in Threads : /\ req'[u].kind = req[u].kind /\ req'[u].seen = req[u].seen
                             /\ req'[u].stage \in {"held", "sent"} => req'[u] = req[u]
      BY <1>1, <2>4 DEF ServerAnswers, Answered
    <3>3. \A u \in Threads : thread'[u] = "running" =>
            thread[u] = "running" \/ (u = t /\ req[t].kind = "turn")
      BY <1>1, <2>4 DEF ServerAnswers
    <3> QED BY <1>1, <1>2, <3>1, <3>2, <3>3
  <2>5. CASE TurnEnds(t) \/ ServerUnsubscribes(t) \/ ServerUnloads(t)
    BY <1>1, <1>2, <2>5 DEF TurnEnds, ServerUnsubscribes, ServerUnloads
  <2> QED BY <1>5, <2>1, <2>2, <2>3, <2>4, <2>5, <2>6 DEF Other
<1> QED BY <1>3, <1>4, <1>5 DEF Others

LEMMA SpareStep == Typed /\ SpareInv /\ [Next]_vars => SpareInv'
<1> SUFFICES ASSUME Typed, SpareInv, [Next]_vars PROVE SpareInv'
  OBVIOUS
<1> USE DEF lease, idle, attempt, connection, server
<1>1. CASE Others
  BY <1>1, SpareOthers
<1>2. CASE UNCHANGED vars
  BY <1>2 DEF vars, SpareInv, Pending
<1> USE DEF SpareInv, Pending, QueryWaits
<1>3. CASE LoopTop \/ Stopped \/ OwnerAccepts \/ OwnerSamples \/ OwnerEvaluates
  <2>1. /\ UNCHANGED <<obs, req, thread, gate>>
        /\ pc' \notin QueryWaits
        /\ pc' = "closed" => cause' \notin {"archive", "recycle"}
    BY <1>3 DEF LoopTop, Stopped, OwnerAccepts, OwnerSamples, OwnerEvaluates, Close
  <2> QED BY <2>1
<1>4. CASE OwnerDetaches
  BY <1>4 DEF OwnerDetaches, NoRequest
<1>5. CASE OwnerTakesGate
  <2>1. CASE gate = "free" /\ ObserverQuiet
    <3>1. \A t \in Threads : ~Counted(req[t])
      BY <2>1, InactiveCountsNothing DEF ObserverQuiet
    <3>2. \A t \in Threads : ~Pending(t)
      BY <2>1, <3>1 DEF Counted, ObserverQuiet
    <3> QED BY <1>5, <2>1, <3>2 DEF OwnerTakesGate
  <2>2. CASE ~(gate = "free" /\ ObserverQuiet)
    BY <1>5, <2>2 DEF OwnerTakesGate, GiveUp
  <2> QED BY <2>1, <2>2
<1>6. CASE QueryLists
  BY <1>6 DEF QueryLists
<1>7. CASE QueryReads
  BY <1>7 DEF QueryReads, ReadsIdle, GiveUp
<1>8. CASE QueryFails
  BY <1>8 DEF QueryFails, GiveUp
<1>9. CASE OwnerDecides
  BY <1>9 DEF OwnerDecides, GiveUp, Close
<1>10. CASE OwnerListsIdle \/ OwnerUnsubscribes
  BY <1>10 DEF OwnerListsIdle, OwnerUnsubscribes, FinishIdle, FinishRecycle, GiveUp, Close
<1>11. CASE OwnerUnloaded
  BY <1>11 DEF OwnerUnloaded, FinishIdle, FinishRecycle, GiveUp, Close
<1>12. CASE Tick
  BY <1>12 DEF Tick, Waiting
<1> QED BY <1>1, <1>2, <1>3, <1>4, <1>5, <1>6, <1>7, <1>8, <1>9, <1>10, <1>11, <1>12,
       NextSplit DEF OwnerStep

\* No reclamation but the hard descriptor limit touches a turn that runs or was asked for, for
\* every number of threads, however requests, answers and the inventory interleave.
THEOREM WorkIsSpared == Spec => []ReclaimSparesWork
<1>1. Init => Typed /\ SpareInv
  BY TypedInit DEF Init, SpareInv, Pending, QueryWaits, NoRequest, NewObserver
<1>2. Typed /\ SpareInv /\ [Next]_vars => (Typed /\ SpareInv)'
  BY TypedStep, SpareStep
<1>3. SpareInv => ReclaimSparesWork
  BY DEF SpareInv, ReclaimSparesWork, Working, Pending, QueryWaits
<1> QED BY <1>1, <1>2, <1>3, PTL DEF Spec

=============================================================================
