---------------------------- MODULE ObserverProofs ----------------------------
(****************************************************************************)
(* What the protocol observer concludes, for any threads, turns and         *)
(* requests, however answers and notifications follow each other.           *)
(****************************************************************************)
EXTENDS Observer, FiniteSetTheorems, SequenceTheorems, TLAPS

Pos == 1..Len(toClient)
At(n) == toClient[n]

----------------------------------------------------------------------------
(* Types.                                                                   *)

\* A notification has no id and is about a thread, a terminal one about one turn.
Proper(m) ==
    /\ m.type \notin {"result", "error", "request"} => m.thread \in Threads /\ m.id = None
    /\ m.type = "completed" => \E u \in Turns : m.turns = {u}

Typed ==
    /\ pending \in [Ids -> Requests \cup {NoRequest}]
    /\ mid \in [request : Requests \cup {NoRequest}, answer : Messages]
    /\ live \subseteq Threads /\ busy \subseteq Threads
    /\ active \subseteq Threads \X Turns /\ terminal \subseteq Threads \X Turns
    /\ IsFiniteSet(terminal) /\ Cardinality(terminal) <= MaxTerminal
    /\ epoch \in Nat /\ reliable \in BOOLEAN /\ sent \in 0..MaxRequests
    /\ asked \subseteq [id : Ids, kind : Kinds, thread : Threads]
    /\ owed \subseteq [id : Ids, thread : Threads, turns : SUBSET Turns]
    /\ running \subseteq Threads \X Turns /\ mine \subseteq used /\ used \subseteq Threads \X Turns
    /\ untold \subseteq running \cap mine
    /\ loaded \subseteq Threads /\ sub \subseteq Threads
    /\ toClient \in Seq(Messages) /\ \A n \in Pos : Proper(At(n))

\* What is read is the first message, and the others move up.
LEMMA Consumed ==
  ASSUME Typed, toClient # <<>>, Consume
  PROVE  /\ toClient' \in Seq(Messages) /\ 1 \in Pos /\ Arrived = At(1) /\ At(1) \in Messages
         /\ Len(toClient) \in Nat \ {0} /\ Pos' = 1..Len(toClient) - 1
         /\ \A n \in Pos' : n + 1 \in Pos /\ At(n)' = At(n + 1)
BY DEF Typed, Consume, Arrived, Pos, At

\* What is written comes after all that is on its way.
LEMMA Written ==
  ASSUME Typed, NEW ms \in Seq(Messages), Write(ms)
  PROVE  /\ toClient' \in Seq(Messages) /\ Len(toClient) \in Nat /\ Len(ms) \in Nat
         /\ Pos' = 1..Len(toClient) + Len(ms)
         /\ \A n \in Pos : n \in Pos' /\ At(n)' = At(n)
         /\ \A n \in Pos' : n \in Pos \/ (n - Len(toClient) \in 1..Len(ms) /\ At(n)' = ms[n - Len(toClient)])
         /\ \A n \in 1..Len(ms) : Len(toClient) + n \in Pos' /\ toClient'[Len(toClient) + n] = ms[n]
<1>1. toClient' = toClient \o ms /\ toClient \in Seq(Messages)
  BY DEF Typed, Write
<1>2. Len(toClient) \in Nat /\ Len(ms) \in Nat
  BY <1>1
<1>3. /\ toClient' \in Seq(Messages) /\ Len(toClient') = Len(toClient) + Len(ms)
      /\ \A i \in 1..Len(toClient) + Len(ms) :
            toClient'[i] = IF i <= Len(toClient) THEN toClient[i] ELSE ms[i - Len(toClient)]
  BY <1>1, ConcatProperties
<1>4. Pos = 1..Len(toClient) /\ Pos' = 1..Len(toClient) + Len(ms)
  BY <1>3 DEF Pos
<1>5. \A n \in Pos : n \in Pos' /\ At(n)' = At(n)
  BY <1>2, <1>3, <1>4 DEF At
<1>6. \A n \in Pos' : n \in Pos \/ (n - Len(toClient) \in 1..Len(ms) /\ At(n)' = ms[n - Len(toClient)])
  BY <1>2, <1>3, <1>4 DEF At
<1>7. \A n \in 1..Len(ms) : Len(toClient) + n \in Pos' /\ toClient'[Len(toClient) + n] = ms[n]
  BY <1>2, <1>3, <1>4 DEF At
<1> QED BY <1>2, <1>3, <1>4, <1>5, <1>6, <1>7

LEMMA TurnsOfThread ==
  ASSUME Typed, NEW t
  PROVE  /\ TurnsOf(t) \subseteq Turns
         /\ \A u : u \in TurnsOf(t) <=> <<t, u>> \in running
BY DEF Typed, TurnsOf

LEMMA TypedInit == Init => Typed
<1> SUFFICES ASSUME Init PROVE Typed
  OBVIOUS
<1>1. pending \in [Ids -> Requests \cup {NoRequest}] /\ toClient \in Seq(Messages) /\ Pos = {}
  BY DEF Init, Pos
<1>2. mid \in [request : Requests \cup {NoRequest}, answer : Messages]
  BY DEF Init, NotMid, Notify, Message, Messages, MessageTypes
<1>3. IsFiniteSet(terminal) /\ Cardinality(terminal) <= MaxTerminal
  BY FS_EmptySet, ObserverAssumption DEF Init, ObserverAssumption
<1>4. running \subseteq Threads \X Turns /\ used = running /\ loaded \subseteq Threads
  BY DEF Init
<1> QED BY <1>1, <1>2, <1>3, <1>4, ObserverAssumption DEF Init, Typed, ObserverAssumption

\* Only proper messages are written.
LEMMA WritesProper ==
  ASSUME Typed, NEW ms \in Seq(Messages), Write(ms), \A n \in 1..Len(ms) : Proper(ms[n])
  PROVE  toClient' \in Seq(Messages) /\ \A n \in Pos' : Proper(At(n)')
BY Written DEF Typed

LEMMA ConsumesProper ==
  ASSUME Typed, toClient # <<>>, Consume
  PROVE  toClient' \in Seq(Messages) /\ \A n \in Pos' : Proper(At(n)')
BY Consumed DEF Typed

\* What each step of the server's writes.
LEMMA ServerMessages ==
  ASSUME Typed
  PROVE  /\ \A r \in asked, us \in SUBSET Turns :
               <<Result(r, us)>> \in Seq(Messages) /\ Proper(Result(r, us))
         /\ \A r \in owed, us \in SUBSET Turns :
               <<Result(r, us)>> \in Seq(Messages) /\ Proper(Result(r, us))
         /\ \A i \in Ids : LET m == Message("error", i, None, {}) IN <<m>> \in Seq(Messages) /\ Proper(m)
         /\ \A i \in ServerIds : LET m == Message("request", i, None, {}) IN <<m>> \in Seq(Messages) /\ Proper(m)
         /\ \A t \in Threads, u \in Turns :
               /\ <<Notify("active", t, {u}), Notify("started", t, {u})>> \in Seq(Messages)
               /\ Proper(Notify("active", t, {u})) /\ Proper(Notify("started", t, {u}))
               /\ <<Notify("completed", t, {u}), Notify("idle", t, {})>> \in Seq(Messages)
               /\ <<Notify("completed", t, {u})>> \in Seq(Messages)
               /\ Proper(Notify("completed", t, {u})) /\ Proper(Notify("idle", t, {}))
         /\ \A t \in Threads : <<Notify("closed", t, {})>> \in Seq(Messages) /\ Proper(Notify("closed", t, {}))
         /\ <<>> \in Seq(Messages)
<1>1. \A ty \in MessageTypes, i \in Ids \cup ServerIds \cup {None}, t \in Threads \cup {None}, us \in SUBSET Turns :
         Message(ty, i, t, us) \in Messages
  BY DEF Message, Messages
<1>2. \A r \in asked \cup owed : r.id \in Ids /\ r.thread \in Threads
  BY DEF Typed
<1>3. \A m, o \in Messages : <<m>> \in Seq(Messages) /\ <<m, o>> \in Seq(Messages)
  OBVIOUS
<1>4. \A ty, i, us : \A t \in Threads :
         ty # "completed" /\ (ty \in {"result", "error", "request"} \/ i = None) => Proper(Message(ty, i, t, us))
  BY DEF Proper, Message
<1>5. \A t \in Threads, u \in Turns : Proper(Message("completed", None, t, {u}))
  BY DEF Proper, Message
<1>6. \A i : Proper(Message("error", i, None, {})) /\ Proper(Message("request", i, None, {}))
  BY DEF Proper, Message
<1>7. /\ \A r \in asked \cup owed, us \in SUBSET Turns :
            <<Result(r, us)>> \in Seq(Messages) /\ Proper(Result(r, us))
  BY <1>1, <1>2, <1>3, <1>4 DEF Result, MessageTypes
<1>8. \A i \in Ids : <<Message("error", i, None, {})>> \in Seq(Messages)
  BY <1>1, <1>3 DEF MessageTypes
<1>9. \A i \in ServerIds : <<Message("request", i, None, {})>> \in Seq(Messages)
  BY <1>1, <1>3 DEF MessageTypes
<1>10. \A t \in Threads, u \in Turns, ty \in {"active", "started", "completed"} :
          Notify(ty, t, {u}) \in Messages /\ Proper(Notify(ty, t, {u}))
  BY <1>1, <1>4, <1>5 DEF MessageTypes, Notify
<1>11. \A t \in Threads, ty \in {"idle", "closed"} :
          Notify(ty, t, {}) \in Messages /\ Proper(Notify(ty, t, {}))
  BY <1>1, <1>4 DEF MessageTypes, Notify
<1> QED BY <1>3, <1>6, <1>7, <1>8, <1>9, <1>10, <1>11

\* The output copier's steps.
LEMMA CopierTyped ==
  ASSUME Typed,
         \/ ObserveClient \/ ObserveAnswer \/ FinishRequest \/ ObserveStarted \/ ObserveTerminal
         \/ ObserveStatus \/ ObserveClosed
  PROVE  Typed'
<1> USE DEF observed, turns, threads, serverVars, serverRest
<1>1. CASE ObserveClient
  <2>1. PICK i \in Ids, k \in Kinds, t \in Threads :
           /\ pending' = [pending EXCEPT ![i] = [kind |-> k, thread |-> t]]
           /\ asked' = asked \cup {[id |-> i, kind |-> k, thread |-> t]}
    BY <1>1 DEF ObserveClient
  <2>2. pending' \in [Ids -> Requests \cup {NoRequest}] /\ asked' \subseteq [id : Ids, kind : Kinds, thread : Threads]
    BY <2>1 DEF Typed, Requests
  <2>3. sent' \in 0..MaxRequests
    BY <1>1, ObserverAssumption DEF ObserveClient, Typed, ObserverAssumption
  <2> QED BY <1>1, <2>2, <2>3 DEF ObserveClient, Typed, Pos, At
<1>2. CASE ObserveAnswer
  <2>1. toClient # <<>> /\ Consume /\ Arrived \in Messages
    BY <1>2, Consumed DEF ObserveAnswer, Ready
  <2>2. /\ pending' \in [Ids -> Requests \cup {NoRequest}]
        /\ mid' \in [request : Requests \cup {NoRequest}, answer : Messages]
    BY <1>2, <2>1 DEF ObserveAnswer, Typed
  <2>3. toClient' \in Seq(Messages) /\ \A n \in Pos' : Proper(At(n)')
    BY <2>1, ConsumesProper
  <2> QED BY <1>2, <2>2, <2>3 DEF ObserveAnswer, Typed
<1>3. CASE FinishRequest
  <2>1. /\ mid.request \in Requests \cup {NoRequest} /\ mid.answer \in Messages
        /\ NotMid \in [request : Requests \cup {NoRequest}, answer : Messages]
    BY DEF Typed, NotMid, Notify, Message, Messages, MessageTypes
  <2>2. mid.request.kind \in Kinds => mid.request.thread \in Threads
    BY <2>1 DEF Requests, NoRequest, Kinds
  <2>3. /\ Answer.turns \subseteq Turns /\ Answer.thread \in Threads \cup {None}
    BY <2>1 DEF Answer, Messages
  <2>4. /\ live' \subseteq Threads /\ busy' \subseteq Threads /\ active' \subseteq Threads \X Turns
        /\ epoch' \in Nat /\ reliable' \in BOOLEAN
    <3>1. CASE FinishTurn
      <4>1. mid.request.thread \in Threads
        BY <2>2, <3>1 DEF FinishTurn, Kinds
      <4>2. InProgress(mid.request.thread) \subseteq Threads \X Turns
        BY <2>3, <4>1 DEF InProgress
      <4> QED BY <3>1, <4>2 DEF FinishTurn, Typed
    <3>2. CASE FinishOpen
      BY <2>2, <2>3, <3>2 DEF FinishOpen, InProgress, Kinds, Typed
    <3>3. CASE FinishRemove
      BY <2>2, <2>3, <3>3 DEF FinishRemove, Kinds, Typed
    <3> QED BY <1>3, <3>1, <3>2, <3>3 DEF FinishRequest, Typed
  <2> QED BY <1>3, <2>1, <2>4 DEF FinishRequest, Typed, Pos, At
<1>4. ASSUME ObserveStarted \/ ObserveTerminal \/ ObserveStatus \/ ObserveClosed
      PROVE  Typed'
  <2>1. /\ toClient # <<>> /\ Consume
        /\ Arrived.type \in {"started", "completed", "active", "idle", "closed"}
    BY <1>4 DEF ObserveStarted, ObserveTerminal, ObserveStatus, ObserveClosed, Ready
  <2>2. Arrived \in Messages /\ Arrived.thread \in Threads /\ Arrived.turns \subseteq Turns
    <3>1. Arrived \in Messages /\ Proper(Arrived)
      BY <2>1, Consumed DEF Typed
    <3> QED BY <2>1, <3>1 DEF Proper, Messages
  <2>3. toClient' \in Seq(Messages) /\ \A n \in Pos' : Proper(At(n)')
    BY <2>1, ConsumesProper
  <2>4. HeadTurn \subseteq Threads \X Turns
    BY <2>2 DEF HeadTurn
  <2>5. CASE ObserveTerminal
    <3>1. PICK u \in Turns : Arrived.turns = {u}
      BY <1>4, <2>1, <2>5, Consumed DEF Typed, Proper, ObserveTerminal
    <3>2. HeadTurn = {<<Arrived.thread, u>>}
      BY <3>1 DEF HeadTurn
    <3>3. IsFiniteSet(terminal') /\ Cardinality(terminal') <= MaxTerminal
      <4>1. IsFiniteSet(terminal) /\ Cardinality(terminal) <= MaxTerminal
        BY DEF Typed
      <4>2. Cardinality(terminal) \in Nat /\ MaxTerminal \in Nat
        BY <4>1, FS_CardinalityType, ObserverAssumption DEF ObserverAssumption
      <4>3. /\ IsFiniteSet(terminal \cup HeadTurn)
            /\ \/ Cardinality(terminal \cup HeadTurn) = Cardinality(terminal)
               \/ Cardinality(terminal \cup HeadTurn) = Cardinality(terminal) + 1
        BY <3>2, <4>1, FS_AddElement
      <4>4. \/ terminal' = terminal
            \/ Cardinality(terminal) < MaxTerminal /\ terminal' = terminal \cup HeadTurn
        BY <2>5 DEF ObserveTerminal
      <4> QED BY <4>1, <4>2, <4>3, <4>4
    <3> QED BY <2>3, <2>4, <2>5, <3>3 DEF ObserveTerminal, Typed
  <2> QED BY <1>4, <2>2, <2>3, <2>4, <2>5 DEF ObserveStarted, ObserveStatus, ObserveClosed, Typed
<1> QED BY <1>1, <1>2, <1>3, <1>4

\* The server's steps: what is on its way stays proper, and so does what the server keeps.
ServerSets ==
    /\ asked \subseteq [id : Ids, kind : Kinds, thread : Threads]
    /\ owed \subseteq [id : Ids, thread : Threads, turns : SUBSET Turns]
    /\ running \subseteq Threads \X Turns /\ mine \subseteq used /\ used \subseteq Threads \X Turns
    /\ untold \subseteq running \cap mine
    /\ loaded \subseteq Threads /\ sub \subseteq Threads

LEMMA ServerWrites ==
  ASSUME Typed, UNCHANGED copierVars, ServerSets', NEW ms \in Seq(Messages), Write(ms),
         \A n \in 1..Len(ms) : Proper(ms[n])
  PROVE  Typed'
BY WritesProper DEF Typed, ServerSets, copierVars, observed

LEMMA StartTurnTyped ==
  ASSUME Typed, NEW t \in Threads, NEW u \in Turns, StartTurn(t, u)
  PROVE  /\ running' \subseteq Threads \X Turns /\ used' \subseteq Threads \X Turns
         /\ running \subseteq running' /\ <<t, u>> \in running'
         /\ used \subseteq used' /\ <<t, u>> \in used' /\ UNCHANGED threads
BY DEF StartTurn, Typed

LEMMA AnnounceTyped ==
  ASSUME Typed, NEW w \in Threads \X Turns, Announce(w)
  PROVE  \E ms \in Seq(Messages) : Write(ms) /\ \A n \in 1..Len(ms) : Proper(ms[n])
<1> DEFINE m == Notify("active", w[1], {w[2]})
           o == Notify("started", w[1], {w[2]})
<1>1. \A n \in 1..Len(<<>>) : Proper(<<>>[n])
  OBVIOUS
<1>2. <<>> \in Seq(Messages) /\ <<m, o>> \in Seq(Messages) /\ Proper(m) /\ Proper(o)
  BY ServerMessages
<1>3. Write(<<m, o>>) \/ Write(<<>>)
  BY DEF Announce
<1> HIDE DEF m, o
<1>4. \A n \in 1..Len(<<m, o>>) : Proper(<<m, o>>[n])
  BY <1>2
<1> QED BY <1>1, <1>2, <1>3, <1>4

LEMMA ServerTyped ==
  ASSUME Typed, Serve \/ WriteAnswer \/ AnnounceTurn \/ ServerTurn \/ TurnEnds \/ RepeatTerminal \/ Unload \/ ServerRequest
  PROVE  Typed'
<1> USE DEF turns, threads, copierVars
<1>1. \A m : Len(<<m>>) = 1 /\ <<m>>[1] = m
  OBVIOUS
<1>2. ASSUME NEW m, <<m>> \in Seq(Messages), Proper(m), Write(<<m>>), UNCHANGED copierVars, ServerSets'
      PROVE  Typed'
  <2>1. \A n \in 1..Len(<<m>>) : Proper(<<m>>[n])
    BY <1>1, <1>2
  <2> QED BY <1>2, <2>1, ServerWrites
<1>3. ASSUME UNCHANGED <<copierVars, toClient>>, ServerSets' PROVE Typed'
  BY <1>3 DEF Typed, ServerSets, observed, Pos, At
<1>4. ServerSets
  BY DEF Typed, ServerSets
<1>5. CASE Serve
  <2>1. PICK r \in asked : /\ asked' = asked \ {r}
                           /\ ServeOpen(r) \/ ServeTurn(r) \/ ServeRemove(r) \/ ServeExec(r) \/ Refuse(r)
    BY <1>5 DEF Serve
  <2>2. UNCHANGED copierVars /\ r.id \in Ids /\ r.thread \in Threads
    BY <1>5 DEF Serve, Typed
  <2>3. CASE ServeOpen(r)
    <3>1. TurnsOf(r.thread) \in SUBSET Turns
      BY TurnsOfThread
    <3> QED BY <1>2, <1>4, <2>1, <2>2, <2>3, <3>1, ServerMessages DEF ServeOpen, ServerSets
  <2>4. CASE ServeTurn(r)
    <3>1. PICK u \in Turns : /\ StartTurn(r.thread, u)
                             /\ mine' = mine \cup {<<r.thread, u>>} /\ untold' = untold \cup {<<r.thread, u>>}
                             /\ owed' = owed \cup {[id |-> r.id, thread |-> r.thread, turns |-> {u}]}
      BY <2>4 DEF ServeTurn
    <3>2. ServerSets'
      <4>1. [id |-> r.id, thread |-> r.thread, turns |-> {u}] \in [id : Ids, thread : Threads, turns : SUBSET Turns]
        BY <2>2
      <4>2. owed' \subseteq [id : Ids, thread : Threads, turns : SUBSET Turns]
        BY <1>4, <3>1, <4>1 DEF ServerSets
      <4>3. /\ running' \subseteq Threads \X Turns /\ used' \subseteq Threads \X Turns
            /\ mine' \subseteq used' /\ untold' \subseteq running' \cap mine' /\ UNCHANGED threads
        BY <1>4, <2>2, <3>1, StartTurnTyped DEF ServerSets
      <4> QED BY <1>4, <2>1, <4>2, <4>3 DEF ServerSets
    <3> QED BY <1>3, <2>2, <2>4, <3>2 DEF ServeTurn
  <2>5. CASE ServeRemove(r)
    BY <1>2, <1>4, <2>1, <2>2, <2>5, ServerMessages DEF ServeRemove, ServerSets
  <2>6. CASE ServeExec(r)
    BY <1>3, <1>4, <2>1, <2>2, <2>6 DEF ServeExec, ServerSets
  <2>7. CASE Refuse(r)
    BY <1>2, <1>4, <2>1, <2>2, <2>7, ServerMessages DEF Refuse, ServerSets
  <2> QED BY <2>1, <2>3, <2>4, <2>5, <2>6, <2>7
<1>6. CASE WriteAnswer
  <2>1. PICK r \in owed : Write(<<Result(r, r.turns)>>) /\ owed' = owed \ {r}
    BY <1>6 DEF WriteAnswer
  <2>2. r.turns \in SUBSET Turns
    BY DEF Typed
  <2> QED BY <1>2, <1>4, <1>6, <2>1, <2>2, ServerMessages DEF WriteAnswer, ServerSets
<1>7. CASE ServerTurn
  <2>1. PICK t \in loaded, u \in Turns : StartTurn(t, u) /\ Announce(<<t, u>>)
    BY <1>7 DEF ServerTurn
  <2>2. t \in Threads /\ <<t, u>> \in Threads \X Turns
    BY DEF Typed
  <2>3. ServerSets' /\ UNCHANGED copierVars
    BY <1>4, <1>7, <2>1, <2>2, StartTurnTyped DEF ServerSets, ServerTurn
  <2> QED BY <2>1, <2>2, <2>3, AnnounceTyped, ServerWrites
<1>12. CASE AnnounceTurn
  <2>1. PICK w \in untold : Announce(w) /\ untold' = untold \ {w}
    BY <1>12 DEF AnnounceTurn
  <2>2. w \in Threads \X Turns
    BY DEF Typed
  <2>3. ServerSets' /\ UNCHANGED copierVars
    BY <1>4, <1>12, <2>1 DEF ServerSets, AnnounceTurn
  <2> QED BY <2>1, <2>2, <2>3, AnnounceTyped, ServerWrites
<1>8. CASE TurnEnds
  <2>1. PICK w \in running \ untold :
           /\ running' = running \ {w}
           /\ Write(IF w[1] \in sub THEN <<Notify("completed", w[1], {w[2]}), Notify("idle", w[1], {})>> ELSE <<>>)
    BY <1>8 DEF TurnEnds
  <2>2. w[1] \in Threads /\ w[2] \in Turns
    BY DEF Typed
  <2>3. ServerSets' /\ UNCHANGED copierVars
    BY <1>4, <1>8, <2>1 DEF ServerSets, TurnEnds
  <2>4. \A m, o \in Messages : Proper(m) /\ Proper(o) => \A n \in 1..Len(<<m, o>>) : Proper(<<m, o>>[n])
    OBVIOUS
  <2>5. <<>> \in Seq(Messages) /\ \A n \in 1..Len(<<>>) : Proper(<<>>[n])
    OBVIOUS
  <2>6. /\ <<Notify("completed", w[1], {w[2]}), Notify("idle", w[1], {})>> \in Seq(Messages)
        /\ \A n \in 1..Len(<<Notify("completed", w[1], {w[2]}), Notify("idle", w[1], {})>>) :
              Proper(<<Notify("completed", w[1], {w[2]}), Notify("idle", w[1], {})>>[n])
    BY <2>2, <2>4, ServerMessages
  <2> QED BY <2>1, <2>3, <2>5, <2>6, ServerWrites
<1>9. CASE RepeatTerminal
  <2>1. PICK w \in used \ running : w[1] \in sub /\ Write(<<Notify("completed", w[1], {w[2]})>>)
    BY <1>9 DEF RepeatTerminal
  <2>2. w[1] \in Threads /\ w[2] \in Turns
    BY DEF Typed
  <2> QED BY <1>2, <1>4, <1>9, <2>1, <2>2, ServerMessages DEF RepeatTerminal, ServerSets
<1>10. CASE Unload
  <2>1. PICK t \in loaded \ sub : loaded' = loaded \ {t} /\ Write(<<Notify("closed", t, {})>>)
    BY <1>10 DEF Unload
  <2>2. t \in Threads
    BY DEF Typed
  <2> QED BY <1>2, <1>4, <1>10, <2>1, <2>2, ServerMessages DEF Unload, ServerSets
<1>11. CASE ServerRequest
  <2>1. PICK i \in ServerIds : Write(<<Message("request", i, None, {})>>)
    BY <1>11 DEF ServerRequest
  <2> QED BY <1>2, <1>4, <1>11, <2>1, ServerMessages DEF ServerRequest, ServerSets
<1> QED BY <1>5, <1>6, <1>7, <1>8, <1>9, <1>10, <1>11, <1>12

LEMMA TypedStep == Typed /\ [Next]_vars => Typed'
<1>1. ASSUME Typed, UNCHANGED vars PROVE Typed'
  BY <1>1 DEF vars, observed, turns, threads, Typed, Pos, At
<1> QED BY <1>1, CopierTyped, ServerTyped DEF Next

----------------------------------------------------------------------------
(* Requests: an unanswered one is in one place.                             *)

Answers == {"result", "error"}

\* What an answer m tells of the request q.
Answering(q, m) ==
    m.type = "result" =>
        /\ m.thread = q.thread
        /\ m.turns # {} => q.kind \in {"turn", "open"}
        /\ q.kind = "turn" => m.turns # {}

IsOwed(r) == /\ pending[r.id].thread = r.thread
             /\ pending[r.id].kind = (IF r.turns = {} THEN "exec" ELSE "turn")

\* Each request is with the server, owed or answered, and the observer's record of it says what
\* it asks for.
RequestInv ==
    /\ \A r \in asked : pending[r.id] = [kind |-> r.kind, thread |-> r.thread]
    /\ \A r \in owed : IsOwed(r) /\ \A o \in owed : o.id = r.id => o = r
    /\ \A r \in asked, o \in owed : r.id # o.id
    /\ \A n \in Pos : IF At(n).type \in Answers
                       THEN /\ At(n).id \in Ids /\ pending[At(n).id] # NoRequest
                            /\ Answering(pending[At(n).id], At(n))
                            /\ \A r \in asked \cup owed : r.id # At(n).id
                       ELSE At(n).id \notin Ids
    /\ \A n, m \in Pos : n # m /\ At(n).type \in Answers => At(m).id # At(n).id
    /\ \A i \in Ids : pending[i] = NoRequest \/ (\E r \in asked \cup owed : r.id = i)
                         \/ \E n \in Pos : At(n).id = i
    /\ mid # NotMid => mid.answer.type \in Answers /\ mid.request # NoRequest
                         /\ Answering(mid.request, mid.answer)

----------------------------------------------------------------------------
(* Turns: which ones are known, and from where.                             *)

Tells(m, w) == m.thread = w[1] /\ w[2] \in m.turns

Carries(m, w) == m.type \in {"started", "result"} /\ Tells(m, w)

Ends(m, w) == m.type = "completed" /\ Tells(m, w)

Owed(w) == \E r \in owed : r.thread = w[1] /\ w[2] \in r.turns

\* The answer to the request that started w.
Answered(n, w) == At(n).type = "result" /\ Tells(At(n), w) /\ pending[At(n).id].kind = "turn"

Carried(w) == \E n \in Pos : Carries(At(n), w)

Ended(w) == \E n \in Pos : Ends(At(n), w)

Known(w) == w \in active \/ Carries(mid.answer, w) \/ Owed(w) \/ Carried(w)

\* Nothing ends that has not been started, nor twice; a turn is known to a subscriber only, and
\* its end is told to whoever knew it.
TurnInv ==
    /\ running \subseteq used /\ terminal \subseteq used \ running /\ IsFiniteSet(used)
    /\ \A w \in Threads \X Turns :
          /\ Known(w) => w \in used
          /\ Ended(w) => w \in used \ running
          /\ Known(w) /\ w \in running => w[1] \in sub
          /\ reliable /\ Known(w) /\ w \notin running => w \in terminal \/ Ended(w)
    /\ reliable => active \cap terminal = {}

Closes(n, w) == At(n).type = "closed" /\ At(n).thread = w[1]

\* A running turn of a subscribed thread has been announced, or is to be, and after the thread was
\* closed for the last time.
AnnouncedInv ==
    \A w \in running \ untold :
        w[1] \in sub =>
            /\ w \in active \/ Carries(mid.answer, w) \/ Carried(w)
            /\ \A n \in Pos : Closes(n, w) => \E m \in Pos : m > n /\ Carries(At(m), w)

\* One that the client asked for is counted from its request on, or its answer is being read.
MineInv ==
    \A w \in running \cap mine :
        /\ \/ w \in active \/ Owed(w)
           \/ Carries(mid.answer, w) /\ mid.request.kind = "turn"
           \/ \E n \in Pos : Answered(n, w)
        /\ \A n \in Pos : Closes(n, w) => Owed(w) \/ \E m \in Pos : m > n /\ Answered(m, w)

----------------------------------------------------------------------------
(* Threads.                                                                 *)

Quiets(m, t) == m.thread = t /\ m.type \in {"completed", "idle", "closed"}

\* After position n the thread is said not to be busy, or will be once its turn has ended.
Settles(n, t) ==
    \/ \E m \in Pos : m > n /\ Quiets(At(m), t)
    \/ t \in sub /\ TurnsOf(t) # {}

IsOpen(n, t) == At(n).type = "result" /\ At(n).thread = t /\ pending[At(n).id].kind = "open"

BusyInv ==
    \A t \in Threads :
        /\ t \in busy => Settles(0, t)
        /\ mid.request.kind = "open" /\ mid.answer.type = "result" /\ mid.answer.turns # {}
              /\ mid.request.thread = t => Settles(0, t)
        /\ \A n \in Pos :
              \/ At(n).type = "active" /\ At(n).thread = t
              \/ IsOpen(n, t) /\ At(n).turns # {}
              => Settles(n, t)

IsRemoval(n, t) ==
    At(n).thread = t /\ \/ At(n).type = "closed"
                        \/ At(n).type = "result" /\ pending[At(n).id].kind \in {"archive", "delete"}

MidIs(kinds, t) == mid.answer.type = "result" /\ mid.request.kind \in kinds /\ mid.request.thread = t

\* What the observer has been told of a thread last is that it is open, or that it is not.
ToldOpen(t) ==
    \/ \E n \in Pos : IsOpen(n, t) /\ \A m \in Pos : m > n => ~IsRemoval(m, t)
    \/ /\ \A n \in Pos : ~IsRemoval(n, t)
       /\ MidIs({"open"}, t) \/ (t \in live /\ ~MidIs({"archive", "delete"}, t))

ToldRemoved(t) ==
    \/ \E n \in Pos : IsRemoval(n, t) /\ \A m \in Pos : m > n => ~IsOpen(m, t)
    \/ /\ \A n \in Pos : ~IsOpen(n, t)
       /\ MidIs({"archive", "delete"}, t) \/ (t \notin live /\ ~MidIs({"open"}, t))

ThreadInv ==
    /\ \A t \in sub : ToldOpen(t)
    /\ \A t \in Threads \ loaded : ToldRemoved(t)

Recorded == {i \in Ids : pending[i] # NoRequest}

Counts == IsFiniteSet(busy) /\ IsFiniteSet(Recorded)

Inv == Typed /\ RequestInv /\ TurnInv /\ AnnouncedInv /\ MineInv /\ BusyInv /\ ThreadInv /\ Counts

----------------------------------------------------------------------------
(* Requests are kept in one place.                                          *)

\* One message is written, or the two of a turn's start or end.
LEMMA WrittenOne ==
  ASSUME Typed, NEW m, <<m>> \in Seq(Messages), Write(<<m>>)
  PROVE  \E k \in Nat : /\ Pos' = Pos \cup {k} /\ toClient'[k] = m
                        /\ \A n \in Pos : n < k /\ At(n)' = At(n)
<1> DEFINE ms == <<m>>
           k == Len(toClient) + 1
<1>1. ms \in Seq(Messages) /\ Write(ms) /\ Len(ms) = 1 /\ ms[1] = m
  OBVIOUS
<1> HIDE DEF ms
<1>2. /\ Len(toClient) \in Nat /\ Pos' = 1..Len(toClient) + 1
      /\ \A n \in Pos : At(n)' = At(n)
      /\ toClient'[Len(toClient) + 1] = m
  <2>1. /\ Len(toClient) \in Nat /\ Pos' = 1..Len(toClient) + Len(ms)
        /\ \A n \in Pos : At(n)' = At(n)
        /\ \A n \in 1..Len(ms) : toClient'[Len(toClient) + n] = ms[n]
    BY <1>1, Written
  <2>2. 1 \in 1..Len(ms)
    BY <1>1
  <2> QED BY <1>1, <2>1, <2>2
<1>3. Pos' = Pos \cup {k} /\ \A n \in Pos : n < k
  BY <1>2 DEF Pos
<1> QED BY <1>2, <1>3

LEMMA WrittenTwo ==
  ASSUME Typed, NEW m, NEW o, <<m, o>> \in Seq(Messages), Write(<<m, o>>)
  PROVE  \E k \in Nat : /\ Pos' = Pos \cup {k, k + 1} /\ toClient'[k] = m /\ toClient'[k + 1] = o
                        /\ \A n \in Pos : n < k /\ At(n)' = At(n)
<1> DEFINE ms == <<m, o>>
           k == Len(toClient) + 1
<1>1. ms \in Seq(Messages) /\ Write(ms) /\ Len(ms) = 2 /\ ms[1] = m /\ ms[2] = o
  OBVIOUS
<1> HIDE DEF ms
<1>2. /\ Len(toClient) \in Nat /\ Pos' = 1..Len(toClient) + 2
      /\ \A n \in Pos : At(n)' = At(n)
      /\ toClient'[Len(toClient) + 1] = m /\ toClient'[Len(toClient) + 2] = o
  <2>1. /\ Len(toClient) \in Nat /\ Pos' = 1..Len(toClient) + Len(ms)
        /\ \A n \in Pos : At(n)' = At(n)
        /\ \A n \in 1..Len(ms) : toClient'[Len(toClient) + n] = ms[n]
    BY <1>1, Written
  <2>2. 1 \in 1..Len(ms) /\ 2 \in 1..Len(ms)
    BY <1>1
  <2> QED BY <1>1, <2>1, <2>2
<1>3. Pos' = Pos \cup {k, k + 1} /\ \A n \in Pos : n < k
  BY <1>2 DEF Pos
<1>4. k \in Nat /\ k + 1 = Len(toClient) + 2
  BY <1>2
<1> QED BY <1>2, <1>3, <1>4

LEMMA WrittenNone ==
  ASSUME Typed, Write(<<>>)
  PROVE  toClient' = toClient
BY ConcatEmptySeq DEF Write, Typed

\* Nothing of what is written is an answer.
NoAnswers ==
    /\ \A n \in Pos : n \in Pos' /\ At(n)' = At(n)
    /\ \A n \in Pos' \ Pos : At(n)'.type \notin Answers /\ At(n)'.id \notin Ids

LEMMA NotifyNoAnswers ==
  ASSUME Typed, NEW m, <<m>> \in Seq(Messages), Write(<<m>>), m.type \notin Answers, m.id \notin Ids
  PROVE  NoAnswers
<1>1. PICK k \in Nat : /\ Pos' = Pos \cup {k} /\ toClient'[k] = m
                       /\ \A n \in Pos : n < k /\ At(n)' = At(n)
  BY WrittenOne
<1> QED BY <1>1 DEF NoAnswers, At

LEMMA NotifyTwoNoAnswers ==
  ASSUME Typed, NEW m, NEW o, <<m, o>> \in Seq(Messages), Write(<<m, o>>),
         m.type \notin Answers, m.id \notin Ids, o.type \notin Answers, o.id \notin Ids
  PROVE  NoAnswers
<1>1. PICK k \in Nat : /\ Pos' = Pos \cup {k, k + 1} /\ toClient'[k] = m /\ toClient'[k + 1] = o
                       /\ \A n \in Pos : n < k /\ At(n)' = At(n)
  BY WrittenTwo
<1> QED BY <1>1 DEF NoAnswers, At

LEMMA NoneNoAnswers == ASSUME toClient' = toClient PROVE NoAnswers
BY DEF NoAnswers, Pos, At

LEMMA Notifications ==
  /\ \A ty, t, us : /\ Notify(ty, t, us).type = ty /\ Notify(ty, t, us).id \notin Ids
                    /\ Notify(ty, t, us).thread = t /\ Notify(ty, t, us).turns = us
  /\ \A ty, i, t, us : /\ Message(ty, i, t, us).type = ty /\ Message(ty, i, t, us).id = i
                       /\ Message(ty, i, t, us).thread = t /\ Message(ty, i, t, us).turns = us
  /\ \A r, us : /\ Result(r, us).type = "result" /\ Result(r, us).id = r.id
                /\ Result(r, us).thread = r.thread /\ Result(r, us).turns = us
BY ObserverAssumption DEF Notify, Message, Result, ObserverAssumption

LEMMA AnnounceNoAnswers ==
  ASSUME Typed, NEW w \in Threads \X Turns, Announce(w)
  PROVE  NoAnswers
<1> DEFINE m == Notify("active", w[1], {w[2]})
           o == Notify("started", w[1], {w[2]})
<1>1. /\ <<m, o>> \in Seq(Messages) /\ m.type \notin Answers /\ m.id \notin Ids
      /\ o.type \notin Answers /\ o.id \notin Ids
  BY ServerMessages, Notifications DEF Answers
<1>2. Write(<<m, o>>) \/ Write(<<>>)
  BY DEF Announce
<1> HIDE DEF m, o
<1> QED BY <1>1, <1>2, NotifyTwoNoAnswers, WrittenNone, NoneNoAnswers

LEMMA AskedKind ==
  ASSUME RequestInv, NEW r \in asked
  PROVE  pending[r.id].kind = r.kind /\ pending[r.id].thread = r.thread
<1>1. pending[r.id] = [kind |-> r.kind, thread |-> r.thread]
  BY DEF RequestInv
<1> QED BY <1>1

LEMMA AskedOnce == ASSUME Typed, RequestInv PROVE \A a, r \in asked : a.id = r.id => a = r
<1>1. \A a \in asked : a = [id |-> a.id, kind |-> a.kind, thread |-> a.thread]
  BY DEF Typed
<1>2. \A a \in asked : a.kind = pending[a.id].kind /\ a.thread = pending[a.id].thread
  BY AskedKind
<1> QED BY <1>1, <1>2

\* Where nothing is answered, a request stays where it is or becomes owed.
LEMMA NothingAnswered ==
  ASSUME Typed, RequestInv, NoAnswers, UNCHANGED <<pending, mid>>,
         \/ UNCHANGED <<asked, owed>>
         \/ \E r \in asked, o \in [id : Ids, thread : Threads, turns : SUBSET Turns] :
               /\ o.id = r.id /\ asked' = asked \ {r} /\ owed' = owed \cup {o} /\ IsOwed(o)
  PROVE  RequestInv'
<1>1. CASE UNCHANGED <<asked, owed>>
  BY <1>1 DEF RequestInv, NoAnswers, IsOwed
<1>2. ASSUME NEW r \in asked, NEW o \in [id : Ids, thread : Threads, turns : SUBSET Turns],
             o.id = r.id, asked' = asked \ {r}, owed' = owed \cup {o}, IsOwed(o)
      PROVE  RequestInv'
  <2>1. \A a \in asked : a.id = r.id => a = r
    BY AskedOnce
  <2>2. \A q \in owed : q.id # o.id
    BY <1>2 DEF RequestInv
  <2>3. /\ \A q \in asked' : pending'[q.id] = [kind |-> q.kind, thread |-> q.thread]
        /\ \A q \in owed' : IsOwed(q)' /\ \A p \in owed' : p.id = q.id => p = q
        /\ \A q \in asked', p \in owed' : q.id # p.id
    BY <1>2, <2>1, <2>2 DEF RequestInv, IsOwed
  <2>4. {q.id : q \in asked \cup owed} = {q.id : q \in asked' \cup owed'}
    BY <1>2
  <2>5. \A n \in Pos' : IF At(n)'.type \in Answers
                       THEN /\ At(n)'.id \in Ids /\ pending'[At(n)'.id] # NoRequest
                            /\ Answering(pending'[At(n)'.id], At(n)')
                            /\ \A q \in asked' \cup owed' : q.id # At(n)'.id
                       ELSE At(n)'.id \notin Ids
    BY <2>4 DEF RequestInv, NoAnswers
  <2>6. \A n, m \in Pos' : n # m /\ At(n)'.type \in Answers => At(m)'.id # At(n)'.id
    BY <2>5 DEF RequestInv, NoAnswers
  <2>7. \A i \in Ids : \/ pending'[i] = NoRequest \/ (\E q \in asked' \cup owed' : q.id = i)
                       \/ \E n \in Pos' : At(n)'.id = i
    BY <2>4 DEF RequestInv, NoAnswers
  <2> QED BY <2>3, <2>5, <2>6, <2>7 DEF RequestInv, Answering
<1> QED BY <1>1, <1>2

\* An answer takes the place of its request.
LEMMA RequestAnswered ==
  ASSUME Typed, RequestInv, UNCHANGED <<pending, mid>>, NEW r \in asked \cup owed,
         \/ r \in asked /\ asked' = asked \ {r} /\ owed' = owed
         \/ r \in owed /\ owed' = owed \ {r} /\ asked' = asked,
         NEW m, <<m>> \in Seq(Messages), Write(<<m>>), m.type \in Answers, m.id = r.id,
         Answering(pending[r.id], m)
  PROVE  RequestInv'
<1>1. PICK k \in Nat : /\ Pos' = Pos \cup {k} /\ toClient'[k] = m
                       /\ \A n \in Pos : n < k /\ At(n)' = At(n)
  BY WrittenOne
<1>2. r.id \in Ids /\ pending[r.id] # NoRequest
  <2>1. r \in asked => r.kind \in Kinds /\ r.id \in Ids
    BY DEF Typed
  <2>2. r \in owed => r.id \in Ids
    BY DEF Typed
  <2>3. r \in asked => pending[r.id].kind = r.kind
    BY AskedKind
  <2>4. r \in owed => pending[r.id].kind \in {"exec", "turn"}
    BY DEF RequestInv, IsOwed
  <2> QED BY <2>1, <2>2, <2>3, <2>4 DEF NoRequest, Kinds
<1>3. \A q \in asked' \cup owed' : q \in asked \cup owed /\ q.id # r.id
  BY AskedOnce DEF RequestInv
<1>4. \A n \in Pos : At(n).id # r.id
  BY <1>2 DEF RequestInv
<1>5. /\ \A q \in asked' : pending'[q.id] = [kind |-> q.kind, thread |-> q.thread]
      /\ \A q \in owed' : IsOwed(q)' /\ \A p \in owed' : p.id = q.id => p = q
      /\ \A q \in asked', p \in owed' : q.id # p.id
  BY DEF RequestInv, IsOwed
<1>6. \A n \in Pos' : IF At(n)'.type \in Answers
                     THEN /\ At(n)'.id \in Ids /\ pending'[At(n)'.id] # NoRequest
                          /\ Answering(pending'[At(n)'.id], At(n)')
                          /\ \A q \in asked' \cup owed' : q.id # At(n)'.id
                     ELSE At(n)'.id \notin Ids
  BY <1>1, <1>2, <1>3 DEF RequestInv, At
<1>7. \A n, o \in Pos' : n # o /\ At(n)'.type \in Answers => At(o)'.id # At(n)'.id
  BY <1>1, <1>4 DEF RequestInv, At
<1>8. \A i \in Ids : \/ pending'[i] = NoRequest \/ (\E q \in asked' \cup owed' : q.id = i)
                     \/ \E n \in Pos' : At(n)'.id = i
  <2>1. ASSUME NEW i \in Ids, i = r.id PROVE \E n \in Pos' : At(n)'.id = i
    BY <1>1, <2>1 DEF At
  <2>2. ASSUME NEW i \in Ids, i # r.id, NEW q \in asked \cup owed, q.id = i PROVE q \in asked' \cup owed'
    BY <2>2
  <2> QED BY <1>1, <2>1, <2>2 DEF RequestInv
<1> QED BY <1>5, <1>6, <1>7, <1>8 DEF RequestInv, Answering

LEMMA RequestInit == Init => RequestInv
BY DEF Init, RequestInv, Pos, NotMid

\* What is read and is no answer was told to nobody in particular.
LEMMA NotificationRead ==
  ASSUME Typed, RequestInv, toClient # <<>>, Consume, At(1).type \notin Answers,
         UNCHANGED <<pending, mid, asked, owed>>
  PROVE  RequestInv'
<1>1. /\ 1 \in Pos /\ Pos' = 1..Len(toClient) - 1 /\ Len(toClient) \in Nat \ {0} /\ Pos = 1..Len(toClient)
      /\ \A n \in Pos' : n + 1 \in Pos /\ At(n)' = At(n + 1)
  BY Consumed DEF Pos
<1>2. \A n \in Pos : n # 1 => n - 1 \in Pos' /\ At(n - 1)' = At(n)
  <2> SUFFICES ASSUME NEW n \in Pos, n # 1 PROVE n - 1 \in Pos' /\ At(n - 1)' = At(n)
    OBVIOUS
  <2>1. n - 1 \in Pos' /\ (n - 1) + 1 = n
    BY <1>1
  <2> QED BY <1>1, <2>1
<1>3. At(1).id \notin Ids
  BY <1>1 DEF RequestInv
<1>4. \A i \in Ids : \/ pending'[i] = NoRequest \/ (\E q \in asked' \cup owed' : q.id = i)
                     \/ \E n \in Pos' : At(n)'.id = i
  <2> SUFFICES ASSUME NEW i \in Ids, pending[i] # NoRequest, ~ \E q \in asked \cup owed : q.id = i
               PROVE  \E n \in Pos' : At(n)'.id = i
    OBVIOUS
  <2>1. PICK n \in Pos : At(n).id = i
    BY DEF RequestInv
  <2> QED BY <1>2, <1>3, <2>1
<1>5. \A n \in Pos' : IF At(n)'.type \in Answers
                     THEN /\ At(n)'.id \in Ids /\ pending'[At(n)'.id] # NoRequest
                          /\ Answering(pending'[At(n)'.id], At(n)')
                          /\ \A q \in asked' \cup owed' : q.id # At(n)'.id
                     ELSE At(n)'.id \notin Ids
  BY <1>1 DEF RequestInv
<1>6. \A n, m \in Pos' : n # m => n + 1 # m + 1
  BY <1>1
<1>7. \A n, m \in Pos' : n # m /\ At(n)'.type \in Answers => At(m)'.id # At(n)'.id
  BY <1>1, <1>6 DEF RequestInv
<1> QED BY <1>4, <1>5, <1>7 DEF RequestInv, IsOwed, Answering

LEMMA AnswerRead ==
  ASSUME Typed, RequestInv, ObserveAnswer
  PROVE  /\ RequestInv'
         /\ At(1).type \in Answers =>
              /\ mid' = [request |-> pending[At(1).id], answer |-> At(1)]
              /\ pending' = [pending EXCEPT ![At(1).id] = NoRequest]
              /\ At(1).id \in Ids
         /\ At(1).type \notin Answers => UNCHANGED <<pending, mid>>
<1>1. toClient # <<>> /\ Consume /\ UNCHANGED <<asked, owed>> /\ Arrived = At(1)
  BY Consumed DEF ObserveAnswer, Ready, serverRest
<1>2. /\ 1 \in Pos /\ Pos' = 1..Len(toClient) - 1 /\ Len(toClient) \in Nat \ {0} /\ Pos = 1..Len(toClient)
      /\ \A n \in Pos' : n + 1 \in Pos /\ At(n)' = At(n + 1)
  BY <1>1, Consumed DEF Pos
<1>3. CASE At(1).type \notin Answers
  <2>1. At(1).id \notin Ids
    BY <1>2, <1>3 DEF RequestInv
  <2>2. UNCHANGED <<pending, mid>>
    BY <1>1, <2>1 DEF ObserveAnswer
  <2> QED BY <1>1, <1>3, <2>2, NotificationRead
<1>4. CASE At(1).type \in Answers
  <2> DEFINE i == At(1).id
  <2>1. /\ i \in Ids /\ pending[i] # NoRequest /\ Answering(pending[i], At(1))
        /\ \A r \in asked \cup owed : r.id # i
        /\ \A m \in Pos : m # 1 => At(m).id # i
    BY <1>2, <1>4 DEF RequestInv
  <2>2. /\ mid' = [request |-> pending[i], answer |-> At(1)]
        /\ pending' = [pending EXCEPT ![i] = NoRequest]
    BY <1>1, <2>1 DEF ObserveAnswer
  <2>3. pending'[i] = NoRequest /\ \A j \in Ids : j # i => pending'[j] = pending[j]
    BY <2>1, <2>2 DEF Typed
  <2>4. \A r \in asked \cup owed : r.id \in Ids /\ pending'[r.id] = pending[r.id]
    BY <2>1, <2>3 DEF Typed
  <2>5. \A n \in Pos' : At(n)'.id # i
    <3> SUFFICES ASSUME NEW n \in Pos' PROVE At(n + 1).id # i
      BY <1>2
    <3>1. n + 1 \in Pos /\ n + 1 # 1
      BY <1>2
    <3> QED BY <2>1, <3>1
  <2> HIDE DEF i
  <2>6. /\ \A q \in asked' : pending'[q.id] = [kind |-> q.kind, thread |-> q.thread]
        /\ \A q \in owed' : IsOwed(q)' /\ \A p \in owed' : p.id = q.id => p = q
        /\ \A q \in asked', p \in owed' : q.id # p.id
    BY <1>1, <2>4 DEF RequestInv, IsOwed
  <2>7. \A n \in Pos' : IF At(n)'.type \in Answers
                       THEN /\ At(n)'.id \in Ids /\ pending'[At(n)'.id] # NoRequest
                            /\ Answering(pending'[At(n)'.id], At(n)')
                            /\ \A q \in asked' \cup owed' : q.id # At(n)'.id
                       ELSE At(n)'.id \notin Ids
    BY <1>1, <1>2, <2>3, <2>5 DEF RequestInv
  <2>8. \A n, m \in Pos' : n # m => n + 1 # m + 1
    BY <1>2
  <2>9. \A n, m \in Pos' : n # m /\ At(n)'.type \in Answers => At(m)'.id # At(n)'.id
    BY <1>2, <2>8 DEF RequestInv
  <2>10. \A j \in Ids : \/ pending'[j] = NoRequest \/ (\E q \in asked' \cup owed' : q.id = j)
                        \/ \E n \in Pos' : At(n)'.id = j
    <3> SUFFICES ASSUME NEW j \in Ids, j # i, pending[j] # NoRequest, ~ \E q \in asked \cup owed : q.id = j
                 PROVE  \E n \in Pos' : At(n)'.id = j
      BY <1>1, <2>3
    <3>1. PICK n \in Pos : At(n).id = j
      BY DEF RequestInv
    <3>2. n # 1
      BY <3>1 DEF i
    <3>3. n - 1 \in Pos' /\ (n - 1) + 1 = n
      BY <1>2, <3>2
    <3>4. At(n - 1)' = At(n)
      BY <1>2, <3>3
    <3> QED BY <3>1, <3>3, <3>4
  <2>11. /\ mid'.answer.type \in Answers /\ mid'.request # NoRequest
         /\ Answering(mid'.request, mid'.answer)
    BY <1>4, <2>1, <2>2
  <2>12. RequestInv'
    BY <2>6, <2>7, <2>9, <2>10, <2>11 DEF RequestInv, Answering
  <2> QED BY <1>4, <2>1, <2>2, <2>12 DEF i
<1> QED BY <1>3, <1>4

LEMMA CopierRequests ==
  ASSUME Typed, RequestInv,
         \/ ObserveClient \/ ObserveAnswer \/ FinishRequest \/ ObserveStarted \/ ObserveTerminal
         \/ ObserveStatus \/ ObserveClosed
  PROVE  RequestInv'
<1> USE DEF observed, turns, threads, serverVars, serverRest
<1>1. CASE ObserveClient
  <2>1. PICK i \in Ids, k \in Kinds, t \in Threads :
           /\ pending[i] = NoRequest /\ \A r \in asked \cup owed : r.id # i
           /\ pending' = [pending EXCEPT ![i] = [kind |-> k, thread |-> t]]
           /\ asked' = asked \cup {[id |-> i, kind |-> k, thread |-> t]}
    BY <1>1 DEF ObserveClient
  <2>2. /\ pending'[i] = [kind |-> k, thread |-> t] /\ \A j \in Ids : j # i => pending'[j] = pending[j]
    BY <2>1 DEF Typed
  <2>3. \A n \in Pos : At(n).type \in Answers => At(n).id # i
    BY <2>1 DEF RequestInv
  <2>4. UNCHANGED <<mid, owed, toClient>> /\ Pos' = Pos /\ \A n \in Pos : At(n)' = At(n)
    BY <1>1 DEF ObserveClient, Pos, At
  <2>5. /\ \A q \in asked' : pending'[q.id] = [kind |-> q.kind, thread |-> q.thread]
        /\ \A q \in owed' : IsOwed(q)' /\ \A p \in owed' : p.id = q.id => p = q
        /\ \A q \in asked', p \in owed' : q.id # p.id
    <3>1. \A r \in asked \cup owed : r.id \in Ids /\ pending'[r.id] = pending[r.id]
      BY <2>1, <2>2 DEF Typed
    <3> QED BY <2>1, <2>2, <2>4, <3>1 DEF RequestInv, IsOwed
  <2>6. \A n \in Pos' : IF At(n)'.type \in Answers
                       THEN /\ At(n)'.id \in Ids /\ pending'[At(n)'.id] # NoRequest
                            /\ Answering(pending'[At(n)'.id], At(n)')
                            /\ \A q \in asked' \cup owed' : q.id # At(n)'.id
                       ELSE At(n)'.id \notin Ids
    BY <2>1, <2>2, <2>3, <2>4 DEF RequestInv
  <2>7. \A j \in Ids : \/ pending'[j] = NoRequest \/ (\E q \in asked' \cup owed' : q.id = j)
                       \/ \E n \in Pos' : At(n)'.id = j
    <3> DEFINE new == [id |-> i, kind |-> k, thread |-> t]
    <3>1. new \in asked' /\ new.id = i
      BY <2>1
    <3>2. \A q \in asked \cup owed : q \in asked' \cup owed'
      BY <2>1, <2>4
    <3>3. ASSUME NEW j \in Ids, j # i, pending[j] # NoRequest
          PROVE  (\E q \in asked' \cup owed' : q.id = j) \/ \E n \in Pos' : At(n)'.id = j
      <4>1. (\E q \in asked \cup owed : q.id = j) \/ \E n \in Pos : At(n).id = j
        BY <3>3 DEF RequestInv
      <4> QED BY <2>4, <3>2, <4>1
    <3> QED BY <2>2, <3>1, <3>3
  <2> QED BY <2>4, <2>5, <2>6, <2>7 DEF RequestInv, Answering
<1>2. CASE ObserveAnswer
  BY <1>2, AnswerRead
<1>3. CASE FinishRequest
  BY <1>3 DEF FinishRequest, RequestInv, Pos, At, Answering, IsOwed
<1>4. ASSUME ObserveStarted \/ ObserveTerminal \/ ObserveStatus \/ ObserveClosed
      PROVE  RequestInv'
  <2>1. /\ toClient # <<>> /\ Consume /\ UNCHANGED <<pending, mid, asked, owed>>
        /\ Arrived.type \in {"started", "completed", "active", "idle", "closed"}
    BY <1>4 DEF ObserveStarted, ObserveTerminal, ObserveStatus, ObserveClosed, Ready
  <2>2. At(1).type \notin Answers
    BY <2>1, Consumed DEF Answers
  <2> QED BY <2>1, <2>2, NotificationRead
<1> QED BY <1>1, <1>2, <1>3, <1>4

\* The server's steps: it answers what it was asked, once.
LEMMA ServerRequests ==
  ASSUME Typed, RequestInv, Ids \cap ServerIds = {},
         Serve \/ WriteAnswer \/ AnnounceTurn \/ ServerTurn \/ TurnEnds \/ RepeatTerminal \/ Unload \/ ServerRequest
  PROVE  RequestInv'
<1>1. \A r \in asked \cup owed : r.id \in Ids /\ r.thread \in Threads
  BY DEF Typed
<1>2. CASE Serve
  <2>1. PICK r \in asked : /\ asked' = asked \ {r}
                           /\ ServeOpen(r) \/ ServeTurn(r) \/ ServeRemove(r) \/ ServeExec(r) \/ Refuse(r)
    BY <1>2 DEF Serve
  <2>2. UNCHANGED <<pending, mid>>
    BY <1>2 DEF Serve, copierVars
  <2>3. pending[r.id].kind = r.kind /\ pending[r.id].thread = r.thread
    BY AskedKind
  <2>4. ASSUME NEW us \in SUBSET Turns, Write(<<Result(r, us)>>), owed' = owed,
               us # {} => r.kind = "open", r.kind # "turn"
        PROVE  RequestInv'
    <3>1. Result(r, us).type \in Answers /\ Result(r, us).id = r.id /\ <<Result(r, us)>> \in Seq(Messages)
      BY Notifications, ServerMessages DEF Answers
    <3>2. Answering(pending[r.id], Result(r, us))
      BY <2>3, <2>4, Notifications DEF Answering
    <3> DEFINE m == Result(r, us)
    <3>3. <<m>> \in Seq(Messages) /\ Write(<<m>>) /\ m.type \in Answers /\ m.id = r.id /\ Answering(pending[r.id], m)
      BY <2>4, <3>1, <3>2
    <3> HIDE DEF m
    <3> QED BY <2>1, <2>2, <2>4, <3>3, RequestAnswered
  <2>5. CASE ServeOpen(r)
    <3>1. TurnsOf(r.thread) \in SUBSET Turns
      BY TurnsOfThread
    <3> QED BY <2>4, <2>5, <3>1 DEF ServeOpen
  <2>6. CASE ServeTurn(r)
    <3>1. PICK u \in Turns : /\ StartTurn(r.thread, u)
                             /\ owed' = owed \cup {[id |-> r.id, thread |-> r.thread, turns |-> {u}]}
      BY <2>6 DEF ServeTurn
    <3> DEFINE o == [id |-> r.id, thread |-> r.thread, turns |-> {u}]
    <3>2. o \in [id : Ids, thread : Threads, turns : SUBSET Turns] /\ o.id = r.id
      BY <1>1
    <3>3. IsOwed(o)
      BY <2>3, <2>6 DEF IsOwed, ServeTurn
    <3>4. NoAnswers
      BY <2>6, NoneNoAnswers DEF ServeTurn
    <3> QED BY <2>1, <2>2, <3>1, <3>2, <3>3, <3>4, NothingAnswered
  <2>7. CASE ServeRemove(r)
    BY <2>4, <2>7 DEF ServeRemove
  <2>8. CASE ServeExec(r)
    <3> DEFINE o == [id |-> r.id, thread |-> r.thread, turns |-> {}]
    <3>1. o \in [id : Ids, thread : Threads, turns : SUBSET Turns] /\ o.id = r.id
      BY <1>1
    <3>2. IsOwed(o) /\ owed' = owed \cup {o} /\ NoAnswers
      BY <2>3, <2>8, NoneNoAnswers DEF IsOwed, ServeExec
    <3> QED BY <2>1, <2>2, <3>1, <3>2, NothingAnswered
  <2>9. CASE Refuse(r)
    <3> DEFINE m == Message("error", r.id, None, {})
    <3>1. <<m>> \in Seq(Messages) /\ Write(<<m>>) /\ owed' = owed
      BY <1>1, <2>9, ServerMessages DEF Refuse
    <3>2. m.type \in Answers /\ m.id = r.id /\ Answering(pending[r.id], m)
      BY Notifications DEF Answers, Answering
    <3> HIDE DEF m
    <3> QED BY <2>1, <2>2, <3>1, <3>2, RequestAnswered
  <2> QED BY <2>1, <2>5, <2>6, <2>7, <2>8, <2>9
<1>3. CASE WriteAnswer
  <2>1. PICK r \in owed : Write(<<Result(r, r.turns)>>) /\ owed' = owed \ {r}
    BY <1>3 DEF WriteAnswer
  <2>2. UNCHANGED <<pending, mid, asked>> /\ r.turns \in SUBSET Turns
    BY <1>3 DEF WriteAnswer, copierVars, Typed
  <2> DEFINE m == Result(r, r.turns)
  <2>3. <<m>> \in Seq(Messages) /\ Write(<<m>>) /\ m.type \in Answers /\ m.id = r.id
    BY <2>1, <2>2, ServerMessages, Notifications DEF Answers
  <2>4. IsOwed(r)
    BY DEF RequestInv
  <2>5. Answering(pending[r.id], m)
    BY <2>4, Notifications DEF Answering, IsOwed
  <2> HIDE DEF m
  <2> QED BY <2>1, <2>2, <2>3, <2>5, RequestAnswered
<1>4. ASSUME AnnounceTurn \/ ServerTurn \/ TurnEnds \/ RepeatTerminal \/ Unload \/ ServerRequest
      PROVE  NoAnswers
  <2>1. ASSUME AnnounceTurn \/ ServerTurn PROVE NoAnswers
    <3>1. PICK w \in Threads \X Turns : Announce(w)
      BY <2>1 DEF AnnounceTurn, ServerTurn, Typed
    <3> QED BY <3>1, AnnounceNoAnswers
  <2>2. ASSUME TurnEnds PROVE NoAnswers
    <3>1. PICK w \in running \ untold :
             Write(IF w[1] \in sub THEN <<Notify("completed", w[1], {w[2]}), Notify("idle", w[1], {})>> ELSE <<>>)
      BY <2>2 DEF TurnEnds
    <3>2. w[1] \in Threads /\ w[2] \in Turns
      BY DEF Typed
    <3> DEFINE m == Notify("completed", w[1], {w[2]})
               o == Notify("idle", w[1], {})
    <3>3. m.type \notin Answers /\ m.id \notin Ids /\ o.type \notin Answers /\ o.id \notin Ids
      BY Notifications DEF Answers
    <3>5. <<m, o>> \in Seq(Messages)
      BY <3>2, ServerMessages
    <3>4. Write(<<m, o>>) \/ Write(<<>>)
      BY <3>1
    <3> HIDE DEF m, o
    <3> QED BY <3>3, <3>4, <3>5, NotifyTwoNoAnswers, WrittenNone, NoneNoAnswers
  <2>3. ASSUME RepeatTerminal \/ Unload \/ ServerRequest PROVE NoAnswers
    <3>1. PICK m : <<m>> \in Seq(Messages) /\ Write(<<m>>) /\ m.type \notin Answers /\ m.id \notin Ids
      <4>1. ASSUME RepeatTerminal
            PROVE  \E m : <<m>> \in Seq(Messages) /\ Write(<<m>>) /\ m.type \notin Answers /\ m.id \notin Ids
        <5>1. PICK w \in used \ running : w[1] \in sub /\ Write(<<Notify("completed", w[1], {w[2]})>>)
          BY <4>1 DEF RepeatTerminal
        <5>2. w[1] \in Threads /\ w[2] \in Turns
          BY DEF Typed
        <5> DEFINE m == Notify("completed", w[1], {w[2]})
        <5>3. m.type \notin Answers /\ m.id \notin Ids
          BY Notifications DEF Answers
        <5>4. <<m>> \in Seq(Messages)
          BY <5>2, ServerMessages
        <5> QED BY <5>1, <5>3, <5>4
      <4>2. ASSUME Unload
            PROVE  \E m : <<m>> \in Seq(Messages) /\ Write(<<m>>) /\ m.type \notin Answers /\ m.id \notin Ids
        <5>1. PICK t \in loaded \ sub : Write(<<Notify("closed", t, {})>>)
          BY <4>2 DEF Unload
        <5>2. t \in Threads
          BY DEF Typed
        <5> DEFINE m == Notify("closed", t, {})
        <5>3. m.type \notin Answers /\ m.id \notin Ids
          BY Notifications DEF Answers
        <5>4. <<m>> \in Seq(Messages)
          BY <5>2, ServerMessages
        <5> QED BY <5>1, <5>3, <5>4
      <4>3. ASSUME ServerRequest
            PROVE  \E m : <<m>> \in Seq(Messages) /\ Write(<<m>>) /\ m.type \notin Answers /\ m.id \notin Ids
        BY <4>3, ServerMessages, Notifications DEF Answers, ServerRequest
      <4> QED BY <2>3, <4>1, <4>2, <4>3
    <3> QED BY <3>1, NotifyNoAnswers
  <2> QED BY <1>4, <2>1, <2>2, <2>3
<1>5. ASSUME AnnounceTurn \/ ServerTurn \/ TurnEnds \/ RepeatTerminal \/ Unload \/ ServerRequest
      PROVE  RequestInv'
  <2>1. UNCHANGED <<pending, mid, asked, owed>>
    BY <1>5 DEF AnnounceTurn, ServerTurn, TurnEnds, RepeatTerminal, Unload, ServerRequest, copierVars
  <2> QED BY <1>4, <1>5, <2>1, NothingAnswered
<1> QED BY <1>2, <1>3, <1>5

LEMMA RequestStep ==
  ASSUME Ids \cap ServerIds = {}
  PROVE  Typed /\ RequestInv /\ [Next]_vars => RequestInv'
<1>1. ASSUME Typed, RequestInv, UNCHANGED vars PROVE RequestInv'
  BY <1>1 DEF vars, RequestInv, Pos, At, Answering, IsOwed
<1> QED BY <1>1, CopierRequests, ServerRequests DEF Next

----------------------------------------------------------------------------
(* The queue: what a step adds at its end, or takes from its front.         *)

\* The messages of S, and no others, have been added at the end.
Wrote(S) ==
    /\ \A n \in Pos : n \in Pos' /\ At(n)' = At(n)
    /\ \A k \in Pos' \ Pos : At(k)' \in S /\ \A n \in Pos : k > n
    /\ \A m \in S : \E k \in Pos' \ Pos : At(k)' = m

LEMMA WroteNone == ASSUME toClient' = toClient PROVE Wrote({})
BY DEF Wrote, Pos, At

LEMMA WroteOne ==
  ASSUME Typed, NEW m, <<m>> \in Seq(Messages), Write(<<m>>)
  PROVE  Wrote({m})
<1>1. PICK k \in Nat : /\ Pos' = Pos \cup {k} /\ toClient'[k] = m
                       /\ \A n \in Pos : n < k /\ At(n)' = At(n)
  BY WrittenOne
<1>2. k \notin Pos /\ \A n \in Pos : k > n
  BY <1>1 DEF Pos
<1> QED BY <1>1, <1>2 DEF Wrote, At

LEMMA WroteTwo ==
  ASSUME Typed, NEW m, NEW o, <<m, o>> \in Seq(Messages), Write(<<m, o>>)
  PROVE  Wrote({m, o})
<1>1. PICK k \in Nat : /\ Pos' = Pos \cup {k, k + 1} /\ toClient'[k] = m /\ toClient'[k + 1] = o
                       /\ \A n \in Pos : n < k /\ At(n)' = At(n)
  BY WrittenTwo
<1>2. k \notin Pos /\ k + 1 \notin Pos /\ \A n \in Pos : k > n /\ k + 1 > n
  BY <1>1 DEF Pos
<1> QED BY <1>1, <1>2 DEF Wrote, At

\* What a turn's announcement and its end write, and what the other steps of the server's do.
Started(t, u) == IF t \in sub THEN {Notify("active", t, {u}), Notify("started", t, {u})} ELSE {}

EndOf(w) == IF w[1] \in sub THEN {Notify("completed", w[1], {w[2]}), Notify("idle", w[1], {})} ELSE {}

LEMMA WroteStart ==
  ASSUME Typed, NEW t \in Threads, NEW u \in Turns, Announce(<<t, u>>)
  PROVE  Wrote(Started(t, u))
<1>1. CASE t \in sub
  <2> DEFINE m == Notify("active", t, {u})
             o == Notify("started", t, {u})
  <2>1. Write(<<m, o>>) /\ <<m, o>> \in Seq(Messages) /\ Started(t, u) = {m, o}
    BY <1>1, ServerMessages DEF Announce, Started
  <2> HIDE DEF m, o
  <2> QED BY <2>1, WroteTwo
<1>2. CASE t \notin sub
  BY <1>2, WrittenNone, WroteNone DEF Announce, Started
<1> QED BY <1>1, <1>2

LEMMA WroteEnd ==
  ASSUME Typed, NEW w \in running,
         Write(IF w[1] \in sub THEN <<Notify("completed", w[1], {w[2]}), Notify("idle", w[1], {})>> ELSE <<>>)
  PROVE  Wrote(EndOf(w))
<1>0. w[1] \in Threads /\ w[2] \in Turns
  BY DEF Typed
<1>1. CASE w[1] \in sub
  <2> DEFINE m == Notify("completed", w[1], {w[2]})
             o == Notify("idle", w[1], {})
  <2>1. <<m, o>> \in Seq(Messages)
    BY <1>0, ServerMessages
  <2>2. Write(<<m, o>>) /\ EndOf(w) = {m, o}
    BY <1>1 DEF EndOf
  <2> HIDE DEF m, o
  <2> QED BY <2>1, <2>2, WroteTwo
<1>2. CASE w[1] \notin sub
  BY <1>2, WrittenNone, WroteNone DEF EndOf
<1> QED BY <1>1, <1>2

LEMMA WroteResult ==
  ASSUME Typed, NEW r \in asked \cup owed, NEW us \in SUBSET Turns, Write(<<Result(r, us)>>)
  PROVE  Wrote({Result(r, us)})
<1> DEFINE m == Result(r, us)
<1>1. <<m>> \in Seq(Messages) /\ Write(<<m>>)
  BY ServerMessages
<1> HIDE DEF m
<1>2. Wrote({m})
  BY <1>1, WroteOne
<1> QED BY <1>2 DEF m

LEMMA WroteRefusal ==
  ASSUME Typed, NEW r \in asked, Refuse(r)
  PROVE  Wrote({Message("error", r.id, None, {})})
<1> DEFINE m == Message("error", r.id, None, {})
<1>1. r.id \in Ids
  BY DEF Typed
<1>2. <<m>> \in Seq(Messages) /\ Write(<<m>>)
  BY <1>1, ServerMessages DEF Refuse
<1> HIDE DEF m
<1>3. Wrote({m})
  BY <1>2, WroteOne
<1> QED BY <1>3 DEF m

LEMMA WroteRest ==
  ASSUME Typed
  PROVE  /\ \A w \in used : Write(<<Notify("completed", w[1], {w[2]})>>) => Wrote({Notify("completed", w[1], {w[2]})})
         /\ \A t \in loaded : Write(<<Notify("closed", t, {})>>) => Wrote({Notify("closed", t, {})})
         /\ \A i \in ServerIds : Write(<<Message("request", i, None, {})>>) => Wrote({Message("request", i, None, {})})
<1>1. ASSUME NEW w \in used, Write(<<Notify("completed", w[1], {w[2]})>>)
      PROVE  Wrote({Notify("completed", w[1], {w[2]})})
  <2> DEFINE m == Notify("completed", w[1], {w[2]})
  <2>1. w[1] \in Threads /\ w[2] \in Turns
    BY DEF Typed
  <2>2. <<m>> \in Seq(Messages) /\ Write(<<m>>)
    BY <1>1, <2>1, ServerMessages
  <2> HIDE DEF m
  <2>3. Wrote({m})
    BY <2>2, WroteOne
  <2> QED BY <2>3 DEF m
<1>2. ASSUME NEW t \in loaded, Write(<<Notify("closed", t, {})>>) PROVE Wrote({Notify("closed", t, {})})
  <2> DEFINE m == Notify("closed", t, {})
  <2>2. <<m>> \in Seq(Messages) /\ Write(<<m>>)
    BY <1>2, ServerMessages DEF Typed
  <2> HIDE DEF m
  <2>3. Wrote({m})
    BY <2>2, WroteOne
  <2> QED BY <2>3 DEF m
<1>3. ASSUME NEW i \in ServerIds, Write(<<Message("request", i, None, {})>>)
      PROVE  Wrote({Message("request", i, None, {})})
  <2> DEFINE m == Message("request", i, None, {})
  <2>2. <<m>> \in Seq(Messages) /\ Write(<<m>>)
    BY <1>3, ServerMessages
  <2> HIDE DEF m
  <2>3. Wrote({m})
    BY <2>2, WroteOne
  <2> QED BY <2>3 DEF m
<1> QED BY <1>1, <1>2, <1>3

\* The first message has been taken, and the others have moved up by one.
Read ==
    /\ 1 \in Pos /\ \A n \in Pos : n = 1 \/ n > 1
    /\ \A n \in Pos' : n + 1 \in Pos /\ n + 1 > 1 /\ At(n)' = At(n + 1)
    /\ \A n \in Pos : n # 1 => n - 1 \in Pos' /\ At(n - 1)' = At(n)
    /\ \A n \in Pos', m \in Pos : m > n + 1 <=> m # 1 /\ m - 1 > n
    /\ \A n, m \in Pos' : m > n <=> m + 1 > n + 1
    /\ \A n \in Pos' : n > 0
    /\ \A m \in Pos : m > 1 => m # 1 /\ m - 1 > 0

LEMMA ReadFirst == ASSUME Typed, toClient # <<>>, Consume PROVE Read
<1>1. /\ 1 \in Pos /\ Pos' = 1..Len(toClient) - 1 /\ Len(toClient) \in Nat \ {0} /\ Pos = 1..Len(toClient)
      /\ \A n \in Pos' : n + 1 \in Pos /\ At(n)' = At(n + 1)
  BY Consumed DEF Pos
<1>2. \A n \in Pos : n # 1 => n - 1 \in Pos' /\ At(n - 1)' = At(n)
  <2> SUFFICES ASSUME NEW n \in Pos, n # 1 PROVE n - 1 \in Pos' /\ At(n - 1)' = At(n)
    OBVIOUS
  <2>1. n - 1 \in Pos' /\ (n - 1) + 1 = n
    BY <1>1
  <2> QED BY <1>1, <2>1
<1>3. /\ \A n \in Pos', m \in Pos : m > n + 1 <=> m # 1 /\ m - 1 > n
      /\ \A n, m \in Pos' : m > n <=> m + 1 > n + 1
      /\ \A n \in Pos' : n > 0 /\ n + 1 > 1
      /\ \A m \in Pos : m > 1 => m # 1 /\ m - 1 > 0
      /\ \A n \in Pos : n = 1 \/ n > 1
  BY <1>1
<1> QED BY <1>1, <1>2, <1>3 DEF Read

\* The steps that read a notification, and the one that reads an answer.
LEMMA NotificationSteps ==
  ASSUME Typed, ObserveStarted \/ ObserveTerminal \/ ObserveStatus \/ ObserveClosed
  PROVE  /\ Read /\ mid = NotMid /\ Arrived = At(1) /\ At(1) \in Messages /\ Proper(At(1))
         /\ UNCHANGED <<pending, mid, serverRest>>
<1>1. toClient # <<>> /\ Consume /\ mid = NotMid /\ UNCHANGED <<pending, mid, serverRest>>
  BY DEF ObserveStarted, ObserveTerminal, ObserveStatus, ObserveClosed, Ready
<1> QED BY <1>1, ReadFirst, Consumed DEF Typed

LEMMA AnswerSteps ==
  ASSUME Typed, RequestInv, ObserveAnswer
  PROVE  /\ Read /\ mid = NotMid /\ At(1) \in Messages /\ At(1).type \in {"result", "error", "request"}
         /\ UNCHANGED <<observed, serverRest>>
         /\ At(1).type \in Answers =>
              /\ mid' = [request |-> pending[At(1).id], answer |-> At(1)]
              /\ pending' = [pending EXCEPT ![At(1).id] = NoRequest]
              /\ At(1).id \in Ids
         /\ At(1).type \notin Answers => UNCHANGED <<pending, mid>>
<1>1. toClient # <<>> /\ Consume /\ mid = NotMid /\ UNCHANGED <<observed, serverRest>> /\ Arrived = At(1)
  BY Consumed DEF ObserveAnswer, Ready
<1>2. At(1) \in Messages /\ Proper(At(1)) /\ At(1).id # None
  BY <1>1, Consumed DEF Typed, ObserveAnswer
<1> QED BY <1>1, <1>2, ReadFirst, AnswerRead DEF Proper

\* What each step of the server's changes, by what it has written.
TurnStarted(t, u) ==
    /\ t \in Threads /\ u \in Turns /\ TurnsOf(t) = {} /\ <<t, u>> \notin used
    /\ running' = running \cup {<<t, u>>} /\ used' = used \cup {<<t, u>>}
    /\ UNCHANGED threads

ServedOpen(r) ==
    /\ r.kind = "open" /\ Wrote({Result(r, TurnsOf(r.thread))})
    /\ loaded' = loaded \cup {r.thread} /\ sub' = sub \cup {r.thread} /\ UNCHANGED <<owed, turns>>

ServedTurn(r, u) ==
    /\ r.kind = "turn" /\ r.thread \in sub /\ TurnStarted(r.thread, u) /\ Wrote({})
    /\ mine' = mine \cup {<<r.thread, u>>} /\ untold' = untold \cup {<<r.thread, u>>}
    /\ owed' = owed \cup {[id |-> r.id, thread |-> r.thread, turns |-> {u}]}

ServedRemove(r) ==
    /\ r.kind \in {"archive", "delete", "unsubscribe"} /\ TurnsOf(r.thread) = {}
    /\ Wrote({Result(r, {})}) /\ sub' = sub \ {r.thread}
    /\ loaded' = IF r.kind = "unsubscribe" THEN loaded ELSE loaded \ {r.thread}
    /\ UNCHANGED <<owed, turns>>

ServedExec(r) ==
    /\ r.kind = "exec" /\ Wrote({}) /\ UNCHANGED <<turns, threads>>
    /\ owed' = owed \cup {[id |-> r.id, thread |-> r.thread, turns |-> {}]}

Refused(r) == Wrote({Message("error", r.id, None, {})}) /\ UNCHANGED <<owed, turns, threads>>

AnswerWritten(r) ==
    Wrote({Result(r, r.turns)}) /\ owed' = owed \ {r} /\ UNCHANGED <<asked, turns, threads>>

TurnTold(w) ==
    /\ untold' = untold \ {w} /\ Wrote(Started(w[1], w[2]))
    /\ UNCHANGED <<asked, owed, running, mine, used, threads>>

TurnEnded(w) ==
    running' = running \ {w} /\ Wrote(EndOf(w)) /\ UNCHANGED <<asked, owed, mine, used, untold, threads>>

Repeated(w) ==
    /\ w[1] \in sub /\ Wrote({Notify("completed", w[1], {w[2]})})
    /\ UNCHANGED <<asked, owed, turns, threads>>

Unloaded(t) ==
    /\ TurnsOf(t) = {} /\ loaded' = loaded \ {t} /\ Wrote({Notify("closed", t, {})})
    /\ UNCHANGED <<asked, owed, turns, sub>>

Served(r) ==
    /\ asked' = asked \ {r} /\ r.id \in Ids /\ r.thread \in Threads
    /\ \/ ServedOpen(r) \/ (\E u \in Turns : ServedTurn(r, u)) \/ ServedRemove(r) \/ ServedExec(r) \/ Refused(r)

ServerStep ==
    /\ UNCHANGED copierVars
    /\ \/ \E r \in asked : Served(r)
       \/ \E r \in owed : r.id \in Ids /\ AnswerWritten(r)
       \/ \E w \in untold : TurnTold(w)
       \/ \E t \in loaded, u \in Turns : /\ TurnStarted(t, u) /\ Wrote(Started(t, u))
                                         /\ UNCHANGED <<asked, owed, mine, untold>>
       \/ \E w \in running : TurnEnded(w)
       \/ \E w \in used \ running : Repeated(w)
       \/ \E t \in loaded \ sub : Unloaded(t)
       \/ \E i \in ServerIds : Wrote({Message("request", i, None, {})})
                                 /\ UNCHANGED <<asked, owed, turns, threads>>

LEMMA ServerSteps ==
  ASSUME Typed, Serve \/ WriteAnswer \/ AnnounceTurn \/ ServerTurn \/ TurnEnds \/ RepeatTerminal \/ Unload \/ ServerRequest
  PROVE  ServerStep
<1>1. ASSUME NEW t \in Threads, NEW u \in Turns, StartTurn(t, u) PROVE TurnStarted(t, u)
  BY <1>1 DEF StartTurn, TurnStarted
<1>2. CASE Serve
  <2>1. PICK r \in asked : /\ asked' = asked \ {r}
                           /\ ServeOpen(r) \/ ServeTurn(r) \/ ServeRemove(r) \/ ServeExec(r) \/ Refuse(r)
    BY <1>2 DEF Serve
  <2>2. UNCHANGED copierVars
    BY <1>2 DEF Serve
  <2>3. r.id \in Ids /\ r.thread \in Threads
    BY DEF Typed
  <2>4. ASSUME ServeOpen(r) PROVE ServedOpen(r)
    <3>1. TurnsOf(r.thread) \in SUBSET Turns
      BY TurnsOfThread
    <3> QED BY <2>4, <3>1, WroteResult DEF ServeOpen, ServedOpen
  <2>5. ASSUME ServeTurn(r) PROVE \E u \in Turns : ServedTurn(r, u)
    BY <1>1, <2>3, <2>5, WroteNone DEF ServeTurn, ServedTurn
  <2>6. ASSUME ServeRemove(r) PROVE ServedRemove(r)
    <3>1. {} \in SUBSET Turns
      OBVIOUS
    <3>2. Wrote({Result(r, {})})
      BY <2>6, <3>1, WroteResult DEF ServeRemove
    <3> QED BY <2>6, <3>2 DEF ServeRemove, ServedRemove
  <2>7. ASSUME ServeExec(r) PROVE ServedExec(r)
    BY <2>7, WroteNone DEF ServeExec, ServedExec
  <2>8. ASSUME Refuse(r) PROVE Refused(r)
    BY <2>8, WroteRefusal DEF Refuse, Refused
  <2> QED BY <2>1, <2>2, <2>3, <2>4, <2>5, <2>6, <2>7, <2>8 DEF ServerStep, Served
<1>3. CASE WriteAnswer
  <2>1. PICK r \in owed : Write(<<Result(r, r.turns)>>) /\ owed' = owed \ {r}
    BY <1>3 DEF WriteAnswer
  <2>2. r.turns \in SUBSET Turns /\ r.id \in Ids
    BY DEF Typed
  <2>3. Wrote({Result(r, r.turns)})
    BY <2>1, <2>2, WroteResult
  <2> QED BY <1>3, <2>1, <2>2, <2>3 DEF WriteAnswer, ServerStep, AnswerWritten
<1>4. CASE ServerTurn
  BY <1>1, <1>4, WroteStart DEF ServerTurn, ServerStep, Typed
<1>9. CASE AnnounceTurn
  <2>1. PICK w \in untold : Announce(w) /\ untold' = untold \ {w}
    BY <1>9 DEF AnnounceTurn
  <2>2. w[1] \in Threads /\ w[2] \in Turns /\ w = <<w[1], w[2]>>
    BY DEF Typed
  <2>3. Wrote(Started(w[1], w[2]))
    BY <2>1, <2>2, WroteStart
  <2> QED BY <1>9, <2>1, <2>3 DEF AnnounceTurn, ServerStep, TurnTold
<1>5. CASE TurnEnds
  BY <1>5, WroteEnd DEF TurnEnds, ServerStep, TurnEnded
<1>6. CASE RepeatTerminal
  BY <1>6, WroteRest DEF RepeatTerminal, ServerStep, Repeated
<1>7. CASE Unload
  BY <1>7, WroteRest DEF Unload, ServerStep, Unloaded
<1>8. CASE ServerRequest
  BY <1>8, WroteRest DEF ServerRequest, ServerStep
<1> QED BY <1>2, <1>3, <1>4, <1>5, <1>6, <1>7, <1>8, <1>9

----------------------------------------------------------------------------
(* Turns are known while they run, and ended once.                          *)

LEMMA WroteKnown ==
  ASSUME NEW S, Wrote(S)
  PROVE  \A w : /\ Carried(w)' <=> Carried(w) \/ \E m \in S : Carries(m, w)
                /\ Ended(w)' <=> Ended(w) \/ \E m \in S : Ends(m, w)
<1> SUFFICES ASSUME NEW w
             PROVE  /\ Carried(w)' <=> Carried(w) \/ \E m \in S : Carries(m, w)
                    /\ Ended(w)' <=> Ended(w) \/ \E m \in S : Ends(m, w)
  OBVIOUS
<1>1. Carried(w)' <=> Carried(w) \/ \E m \in S : Carries(m, w)
  BY DEF Carried, Wrote
<1>2. Ended(w)' <=> Ended(w) \/ \E m \in S : Ends(m, w)
  BY DEF Ended, Wrote
<1> QED BY <1>1, <1>2

LEMMA ReadKnown ==
  ASSUME Read
  PROVE  \A w : /\ Carried(w) <=> Carries(At(1), w) \/ Carried(w)'
                /\ Ended(w) <=> Ends(At(1), w) \/ Ended(w)'
<1> SUFFICES ASSUME NEW w
             PROVE  /\ Carried(w) <=> Carries(At(1), w) \/ Carried(w)'
                    /\ Ended(w) <=> Ends(At(1), w) \/ Ended(w)'
  OBVIOUS
<1>1. Carried(w) <=> Carries(At(1), w) \/ Carried(w)'
  BY DEF Carried, Read
<1>2. Ended(w) <=> Ends(At(1), w) \/ Ended(w)'
  BY DEF Ended, Read
<1> QED BY <1>1, <1>2

LEMMA NothingMid == \A w : ~Carries(NotMid.answer, w)
BY DEF NotMid, Notify, Message, Carries

LEMMA TurnInit == Init => TurnInv
<1> SUFFICES ASSUME Init PROVE TurnInv
  OBVIOUS
<1>1. running = used /\ IsFiniteSet(used)
  <2>1. PICK earlier \in {{}} \cup {{w} : w \in Threads \X Turns} : running = earlier /\ used = earlier
    BY DEF Init
  <2>2. IsFiniteSet({}) /\ \A w : IsFiniteSet({w})
    BY FS_EmptySet, FS_Singleton
  <2> QED BY <2>1, <2>2
<1>2. \A w : ~Known(w) /\ ~Ended(w)
  BY NothingMid DEF Init, Known, Carried, Ended, Owed, Pos
<1> QED BY <1>1, <1>2 DEF Init, TurnInv

\* The turns that a finished request makes active are those its answer carries.
LEMMA Finished ==
  ASSUME Typed, RequestInv, FinishRequest
  PROVE  /\ mid # NotMid /\ mid' = NotMid /\ UNCHANGED <<pending, terminal, toClient, serverRest>>
         /\ Answering(mid.request, mid.answer) /\ mid.answer.type \in Answers
         /\ active \subseteq active'
         /\ \A w \in active' : w \in active \/ (w \notin terminal /\ Carries(mid.answer, w))
         /\ \A w \in Threads \X Turns : Carries(mid.answer, w) => w \in terminal \/ w \in active'
<1>1. /\ mid # NotMid /\ mid' = NotMid /\ UNCHANGED <<pending, terminal, toClient, serverRest>>
      /\ Answering(mid.request, mid.answer) /\ mid.answer.type \in Answers
  BY DEF FinishRequest, RequestInv
<1>2. CASE Answer.type # "error" /\ FinishTurn
  <2>1. Answer.thread = mid.request.thread /\ Answer.type = "result" /\ Answer.turns # {}
    BY <1>1, <1>2 DEF Answering, Answer, FinishTurn, Answers
  <2>2. active' = active \cup InProgress(Answer.thread)
    BY <1>2, <2>1 DEF FinishTurn
  <2>3. \A w : w \in InProgress(Answer.thread) => w \notin terminal /\ Carries(mid.answer, w)
    BY <2>1 DEF InProgress, Carries, Tells, Answer
  <2>4. \A w \in Threads \X Turns : Carries(mid.answer, w) => w \in terminal \/ w \in InProgress(Answer.thread)
    BY <2>1 DEF InProgress, Carries, Tells, Answer
  <2> QED BY <1>1, <2>2, <2>3, <2>4
<1>3. CASE Answer.type # "error" /\ FinishOpen
  <2>1. Answer.thread = mid.request.thread /\ Answer.type = "result"
    BY <1>1, <1>3 DEF Answering, Answer, Answers
  <2>2. active' = active \cup InProgress(Answer.thread)
    BY <1>3, <2>1 DEF FinishOpen
  <2>3. \A w : w \in InProgress(Answer.thread) => w \notin terminal /\ Carries(mid.answer, w)
    BY <2>1 DEF InProgress, Carries, Tells, Answer
  <2>4. \A w \in Threads \X Turns : Carries(mid.answer, w) => w \in terminal \/ w \in InProgress(Answer.thread)
    BY <2>1 DEF InProgress, Carries, Tells, Answer
  <2> QED BY <1>1, <2>2, <2>3, <2>4
<1>4. CASE Answer.type # "error" /\ FinishRemove
  <2>1. active' = active
    BY <1>4 DEF FinishRemove
  <2>2. \A w : ~Carries(mid.answer, w)
    BY <1>1, <1>4 DEF FinishRemove, Answering, Carries, Tells, Answer, Answers
  <2> QED BY <1>1, <2>1, <2>2
<1>5. CASE Answer.type = "error" \/ mid.request.kind \in {"exec", "unsubscribe"}
  <2>1. active' = active
    <3>1. CASE Answer.type = "error"
      BY <3>1 DEF FinishRequest
    <3>2. CASE mid.request.kind \in {"exec", "unsubscribe"}
      BY <3>2 DEF FinishRequest, FinishTurn, FinishOpen, FinishRemove
    <3> QED BY <1>5, <3>1, <3>2
  <2>2. \A w : ~Carries(mid.answer, w)
    BY <1>1, <1>5 DEF Answering, Carries, Tells, Answer, Answers
  <2> QED BY <1>1, <2>1, <2>2
<1> QED BY <1>2, <1>3, <1>4, <1>5 DEF FinishRequest

\* A terminal event that arrives is recorded, or the observation is unreliable from then on.
LEMMA HeadTurns ==
  ASSUME Typed, ObserveStarted \/ ObserveTerminal \/ ObserveStatus \/ ObserveClosed
  PROVE  /\ \A w \in HeadTurn : Tells(At(1), w)
         /\ \A w \in Threads \X Turns : Tells(At(1), w) => w \in HeadTurn
         /\ HeadTurn \subseteq Threads \X Turns
<1>1. Arrived = At(1) /\ At(1) \in Messages /\ Proper(At(1)) /\ Arrived.type \in {"started", "completed", "active", "idle", "closed"}
  BY NotificationSteps DEF ObserveStarted, ObserveTerminal, ObserveStatus, ObserveClosed
<1>2. At(1).thread \in Threads /\ At(1).turns \subseteq Turns
  BY <1>1 DEF Proper, Messages
<1> QED BY <1>1, <1>2 DEF HeadTurn, Tells

LEMMA CopierTurns ==
  ASSUME Typed, RequestInv, TurnInv, reliable,
         \/ ObserveClient \/ ObserveAnswer \/ FinishRequest \/ ObserveStarted \/ ObserveTerminal
         \/ ObserveStatus \/ ObserveClosed
  PROVE  TurnInv'
<1> USE DEF observed, turns, threads, serverVars, serverRest
<1>1. CASE ObserveClient
  BY <1>1 DEF ObserveClient, TurnInv, Known, Carried, Ended, Owed, Pos, At
<1>2. CASE ObserveAnswer
  <2>1. /\ Read /\ mid = NotMid /\ At(1).type \in {"result", "error", "request"}
        /\ UNCHANGED <<observed, serverRest>>
        /\ mid' = mid \/ mid'.answer = At(1)
    BY <1>2, AnswerSteps DEF Answers
  <2>2. \A w : Known(w)' => Known(w)
    BY <2>1, ReadKnown, NothingMid DEF Known, Owed
  <2>3. \A w : Ended(w)' <=> Ended(w)
    BY <2>1, ReadKnown DEF Ends
  <2> QED BY <2>1, <2>2, <2>3 DEF TurnInv
<1>3. CASE FinishRequest
  <2>1. /\ mid' = NotMid /\ UNCHANGED <<pending, terminal, toClient, serverRest>>
        /\ \A w \in active' : w \in active \/ (w \notin terminal /\ Carries(mid.answer, w))
    BY <1>3, Finished
  <2>2. \A w : (Carried(w)' <=> Carried(w)) /\ (Ended(w)' <=> Ended(w)) /\ (Owed(w)' <=> Owed(w))
    BY <2>1 DEF Carried, Ended, Owed, Pos, At
  <2>3. \A w : ~Carries(mid'.answer, w)
    BY <2>1, NothingMid
  <2>4. \A w : Known(w)' => Known(w)
    BY <2>1, <2>2, <2>3 DEF Known
  <2>5. active \cap terminal = {} => active' \cap terminal' = {}
    BY <2>1
  <2> QED BY <2>1, <2>2, <2>4, <2>5 DEF TurnInv
<1>4. ASSUME ObserveStarted \/ ObserveStatus \/ ObserveClosed
      PROVE  TurnInv'
  <2>1. /\ Read /\ Arrived = At(1)
        /\ UNCHANGED <<terminal, mid, serverRest, reliable>>
    BY <1>4, NotificationSteps DEF ObserveStarted, ObserveStatus, ObserveClosed
  <2>2. At(1).type # "completed"
    BY <1>4, <2>1 DEF ObserveStarted, ObserveStatus, ObserveClosed
  <2>3. \A w \in active' : w \in active \/ (w \notin terminal /\ Carries(At(1), w))
    BY <1>4, <2>1, HeadTurns DEF ObserveStarted, ObserveStatus, ObserveClosed, Carries
  <2>4. \A w : Known(w)' => Known(w)
    BY <2>1, <2>3, ReadKnown DEF Known, Owed
  <2>5. \A w : Ended(w)' <=> Ended(w)
    BY <2>1, <2>2, ReadKnown DEF Ends
  <2>6. active \cap terminal = {} => active' \cap terminal' = {}
    BY <2>1, <2>3
  <2> QED BY <2>1, <2>4, <2>5, <2>6 DEF TurnInv
<1>5. CASE ObserveTerminal
  <2>1. /\ Read /\ Arrived = At(1) /\ At(1).type = "completed"
        /\ UNCHANGED <<mid, serverRest>> /\ active' = active \ HeadTurn
        /\ reliable' => terminal' = terminal \cup HeadTurn
        /\ terminal' \subseteq terminal \cup HeadTurn
    BY <1>5, NotificationSteps DEF ObserveTerminal
  <2>2. \A w \in Threads \X Turns : Ends(At(1), w) <=> w \in HeadTurn
    BY <1>5, <2>1, HeadTurns DEF Ends
  <2>3. \A w : Known(w)' => Known(w)
    BY <2>1, ReadKnown DEF Known, Owed
  <2>4. \A w \in Threads \X Turns : (Ended(w)' => Ended(w)) /\ (Ended(w) => Ended(w)' \/ w \in HeadTurn)
    BY <2>1, <2>2, ReadKnown
  <2>5. \A w \in HeadTurn : Ended(w)
    BY <1>5, <2>1, <2>2, HeadTurns, ReadKnown
  <2>6. HeadTurn \subseteq used \ running
    BY <1>5, <2>5, HeadTurns DEF TurnInv
  <2>7. reliable' => active' \cap terminal' = {}
    BY <2>1 DEF TurnInv
  <2>8. ASSUME NEW w \in Threads \X Turns, reliable', Known(w)', w \notin running'
        PROVE  w \in terminal' \/ Ended(w)'
    <3>1. w \in terminal \/ Ended(w)
      BY <2>1, <2>3, <2>8 DEF TurnInv
    <3> QED BY <2>1, <2>4, <2>8, <3>1
  <2> QED BY <2>1, <2>3, <2>4, <2>6, <2>7, <2>8 DEF TurnInv
<1> QED BY <1>1, <1>2, <1>3, <1>4, <1>5

\* What the server's messages say of turns.
LEMMA ServerTells ==
  /\ \A r, us, w : /\ Carries(Result(r, us), w) <=> r.thread = w[1] /\ w[2] \in us
                   /\ ~Ends(Result(r, us), w)
  /\ \A i, w : /\ ~Carries(Message("error", i, None, {}), w) /\ ~Ends(Message("error", i, None, {}), w)
               /\ ~Carries(Message("request", i, None, {}), w) /\ ~Ends(Message("request", i, None, {}), w)
  /\ \A t, u, w : /\ (\E m \in Started(t, u) : Carries(m, w)) <=> t \in sub /\ t = w[1] /\ u = w[2]
                  /\ \A m \in Started(t, u) : ~Ends(m, w)
  /\ \A v, w : /\ (\E m \in EndOf(v) : Ends(m, w)) <=> v[1] \in sub /\ v[1] = w[1] /\ v[2] = w[2]
               /\ \A m \in EndOf(v) : ~Carries(m, w)
               /\ ~Carries(Notify("completed", v[1], {v[2]}), w)
               /\ Ends(Notify("completed", v[1], {v[2]}), w) <=> v[1] = w[1] /\ v[2] = w[2]
  /\ \A t, w : ~Carries(Notify("closed", t, {}), w) /\ ~Ends(Notify("closed", t, {}), w)
<1>1. /\ \A r, us, w : /\ Carries(Result(r, us), w) <=> r.thread = w[1] /\ w[2] \in us
                       /\ ~Ends(Result(r, us), w)
  BY DEF Result, Message, Carries, Ends, Tells
<1>2. /\ \A i, w : /\ ~Carries(Message("error", i, None, {}), w) /\ ~Ends(Message("error", i, None, {}), w)
                   /\ ~Carries(Message("request", i, None, {}), w) /\ ~Ends(Message("request", i, None, {}), w)
  BY DEF Message, Carries, Ends, Tells
<1>3. \A ty, t, us, w :
         /\ Carries(Notify(ty, t, us), w) <=> ty \in {"started", "result"} /\ t = w[1] /\ w[2] \in us
         /\ Ends(Notify(ty, t, us), w) <=> ty = "completed" /\ t = w[1] /\ w[2] \in us
  BY DEF Notify, Message, Carries, Ends, Tells
<1>4. \A t, u, w : /\ (\E m \in Started(t, u) : Carries(m, w)) <=> t \in sub /\ t = w[1] /\ u = w[2]
                   /\ \A m \in Started(t, u) : ~Ends(m, w)
  BY <1>3 DEF Started
<1>5. \A v, w : /\ (\E m \in EndOf(v) : Ends(m, w)) <=> v[1] \in sub /\ v[1] = w[1] /\ v[2] = w[2]
                /\ \A m \in EndOf(v) : ~Carries(m, w)
  BY <1>3 DEF EndOf
<1>6. \A v, w : /\ ~Carries(Notify("completed", v[1], {v[2]}), w)
                /\ Ends(Notify("completed", v[1], {v[2]}), w) <=> v[1] = w[1] /\ v[2] = w[2]
  BY <1>3
<1>7. \A t, w : ~Carries(Notify("closed", t, {}), w) /\ ~Ends(Notify("closed", t, {}), w)
  BY <1>3
<1> QED BY <1>1, <1>2, <1>4, <1>5, <1>6, <1>7

\* A turn starts unknown and unended.
LEMMA TurnStarts ==
  ASSUME Typed, TurnInv, UNCHANGED <<mid, observed>>, NEW t, NEW u, TurnStarted(t, u),
         Wrote({}) \/ Wrote(Started(t, u)),
         \A w \in Threads \X Turns : Owed(w)' => Owed(w) \/ (w = <<t, u>> /\ t \in sub)
  PROVE  TurnInv'
<1> DEFINE v == <<t, u>>
<1>1. /\ running' = running \cup {v} /\ used' = used \cup {v} /\ v \notin used
      /\ UNCHANGED threads /\ v \in Threads \X Turns /\ v[1] = t /\ v[2] = u
  BY DEF TurnStarted
<1>2. \A w \in Threads \X Turns : v[1] = w[1] /\ v[2] = w[2] => v = w
  BY <1>1
<1>3. \A w \in Threads \X Turns : /\ Ended(w)' <=> Ended(w)
                                  /\ Carried(w)' => Carried(w) \/ (w = v /\ t \in sub)
                                  /\ Carried(w) => Carried(w)'
  <2>1. CASE Wrote({})
    BY <2>1, WroteKnown
  <2>2. CASE Wrote(Started(t, u))
    BY <1>1, <1>2, <2>2, WroteKnown, ServerTells
  <2> QED BY <2>1, <2>2
<1>4. \A w \in Threads \X Turns : Known(w)' => Known(w) \/ (w = v /\ t \in sub)
  BY <1>1, <1>3 DEF Known, observed
<1>5. ~Known(v) /\ ~Ended(v) /\ v \notin terminal
  BY <1>1 DEF TurnInv
<1>6. IsFiniteSet(used')
  BY <1>1, FS_AddElement DEF TurnInv
<1>7. running' \subseteq used' /\ terminal' \subseteq used' \ running'
  BY <1>1, <1>5 DEF TurnInv, observed
<1> HIDE DEF v
<1>8. ASSUME NEW w \in Threads \X Turns
      PROVE  /\ Known(w)' => w \in used'
             /\ Ended(w)' => w \in used' \ running'
             /\ Known(w)' /\ w \in running' => w[1] \in sub'
             /\ reliable' /\ Known(w)' /\ w \notin running' => w \in terminal' \/ Ended(w)'
  <2>1. CASE w = v
    BY <1>1, <1>3, <1>4, <1>5, <2>1 DEF threads
  <2>2. CASE w # v
    BY <1>1, <1>3, <1>4, <1>8, <2>2 DEF TurnInv, observed, threads
  <2> QED BY <2>1, <2>2
<1>9. reliable' => active' \cap terminal' = {}
  BY DEF TurnInv, observed
<1> QED BY <1>6, <1>7, <1>8, <1>9 DEF TurnInv

LEMMA ServerTurns ==
  ASSUME Typed, TurnInv, ServerStep
  PROVE  TurnInv'
<1> USE DEF turns, threads
<1>1. UNCHANGED <<mid, observed>>
  BY DEF ServerStep, copierVars
<1>2. ASSUME UNCHANGED <<turns, sub>>,
             \A w \in Threads \X Turns : /\ Known(w)' => Known(w)
                                         /\ Ended(w) => Ended(w)'
                                         /\ Ended(w)' => Ended(w) \/ w \in used \ running
      PROVE  TurnInv'
  BY <1>1, <1>2 DEF TurnInv, observed
<1>3. ASSUME NEW r \in asked, Served(r) PROVE TurnInv'
  <2>0. r.thread \in Threads
    BY DEF Typed
  <2>1. CASE ServedOpen(r)
    <3> DEFINE t == r.thread
               S == {Result(r, TurnsOf(t))}
    <3>1. Wrote(S) /\ UNCHANGED <<owed, turns>> /\ sub' = sub \cup {t}
      BY <2>1 DEF ServedOpen
    <3>2. \A w \in Threads \X Turns : (\E m \in S : Carries(m, w)) => w[1] = t /\ w \in running
      BY ServerTells, TurnsOfThread
    <3>3. \A w : ~ \E m \in S : Ends(m, w)
      BY ServerTells
    <3> HIDE DEF S
    <3>4. \A w \in Threads \X Turns : /\ Carried(w)' => Carried(w) \/ (w[1] = t /\ w \in running)
                                      /\ Ended(w)' <=> Ended(w)
      BY <3>1, <3>2, <3>3, WroteKnown
    <3>5. \A w \in Threads \X Turns : Known(w)' => Known(w) \/ (w[1] = t /\ w \in running)
      BY <1>1, <3>1, <3>4 DEF Known, Owed, observed
    <3> HIDE DEF t
    <3> QED BY <1>1, <3>1, <3>4, <3>5 DEF TurnInv, observed
  <2>2. ASSUME NEW u \in Turns, ServedTurn(r, u) PROVE TurnInv'
    <3> DEFINE o == [id |-> r.id, thread |-> r.thread, turns |-> {u}]
    <3>1. owed' = owed \cup {o} /\ o.thread = r.thread /\ o.turns = {u} /\ r.thread \in sub
      BY <2>2 DEF ServedTurn
    <3>2. \A w \in Threads \X Turns : Owed(w)' => Owed(w) \/ w = <<r.thread, u>>
      BY <3>1 DEF Owed
    <3>3. TurnStarted(r.thread, u) /\ Wrote({})
      BY <2>2 DEF ServedTurn
    <3> QED BY <1>1, <3>1, <3>2, <3>3, TurnStarts
  <2>3. CASE ServedRemove(r)
    <3>1. Wrote({Result(r, {})}) /\ UNCHANGED <<owed, turns>> /\ sub' = sub \ {r.thread} /\ TurnsOf(r.thread) = {}
      BY <2>3 DEF ServedRemove
    <3>2. \A w : (Carried(w)' <=> Carried(w)) /\ (Ended(w)' <=> Ended(w))
      BY <3>1, WroteKnown, ServerTells
    <3>3. \A w : Known(w)' <=> Known(w)
      BY <1>1, <3>1, <3>2 DEF Known, Owed, observed
    <3>4. \A w \in running : w[1] # r.thread
      BY <3>1 DEF TurnsOf
    <3> QED BY <1>1, <3>1, <3>2, <3>3, <3>4 DEF TurnInv, observed
  <2>4. CASE ServedExec(r)
    <3>1. Wrote({}) /\ UNCHANGED <<turns, threads>>
          /\ owed' = owed \cup {[id |-> r.id, thread |-> r.thread, turns |-> {}]}
      BY <2>4 DEF ServedExec
    <3>2. \A w : (Carried(w)' <=> Carried(w)) /\ (Ended(w)' <=> Ended(w))
      BY <3>1, WroteKnown
    <3>3. \A w : Owed(w)' => Owed(w)
      BY <3>1 DEF Owed
    <3> QED BY <1>1, <1>2, <3>1, <3>2, <3>3 DEF Known, observed
  <2>5. CASE Refused(r)
    <3>1. Wrote({Message("error", r.id, None, {})}) /\ UNCHANGED <<owed, turns, threads>>
      BY <2>5 DEF Refused
    <3>2. \A w : (Carried(w)' <=> Carried(w)) /\ (Ended(w)' <=> Ended(w))
      BY <3>1, WroteKnown, ServerTells
    <3> QED BY <1>1, <1>2, <3>1, <3>2 DEF Known, Owed, observed
  <2> QED BY <1>3, <2>1, <2>2, <2>3, <2>4, <2>5 DEF Served
<1>4. ASSUME NEW r \in owed, AnswerWritten(r) PROVE TurnInv'
  <2>1. Wrote({Result(r, r.turns)}) /\ owed' = owed \ {r} /\ UNCHANGED <<turns, threads>>
    BY <1>4 DEF AnswerWritten
  <2>2. \A w : (Carried(w)' => Carried(w) \/ Owed(w)) /\ (Ended(w)' <=> Ended(w)) /\ (Owed(w)' => Owed(w))
    BY <2>1, WroteKnown, ServerTells DEF Owed
  <2> QED BY <1>1, <1>2, <2>1, <2>2 DEF Known, observed
<1>5. ASSUME NEW t \in loaded, NEW u \in Turns, TurnStarted(t, u), Wrote(Started(t, u)), UNCHANGED owed
      PROVE  TurnInv'
  BY <1>1, <1>5, TurnStarts DEF Owed
<1>6. ASSUME NEW v \in running, TurnEnded(v) PROVE TurnInv'
  <2>1. running' = running \ {v} /\ Wrote(EndOf(v)) /\ UNCHANGED <<owed, used, threads>> /\ v \in Threads \X Turns
    BY <1>6 DEF TurnEnded, Typed
  <2>2. \A w \in Threads \X Turns : v[1] = w[1] /\ v[2] = w[2] <=> v = w
    BY <2>1
  <2>3. \A w \in Threads \X Turns : (Carried(w)' <=> Carried(w)) /\ (Ended(w)' <=> Ended(w) \/ (v[1] \in sub /\ w = v))
    <3> DEFINE S == EndOf(v)
    <3>1. \A w \in Threads \X Turns : /\ (\E m \in S : Ends(m, w)) <=> v[1] \in sub /\ w = v
                                      /\ \A m \in S : ~Carries(m, w)
      BY <2>2, ServerTells
    <3>2. Wrote(S)
      BY <2>1
    <3> HIDE DEF S
    <3> QED BY <3>1, <3>2, WroteKnown
  <2>4. \A w \in Threads \X Turns : Known(w)' <=> Known(w)
    BY <1>1, <2>1, <2>3 DEF Known, Owed, observed
  <2>5. v \in used /\ (Known(v) => v[1] \in sub)
    BY <2>1 DEF TurnInv
  <2>6. ASSUME NEW w \in Threads \X Turns
        PROVE  /\ Known(w)' => w \in used'
               /\ Ended(w)' => w \in used' \ running'
               /\ Known(w)' /\ w \in running' => w[1] \in sub'
               /\ reliable' /\ Known(w)' /\ w \notin running' => w \in terminal' \/ Ended(w)'
    BY <1>1, <2>1, <2>3, <2>4, <2>5, <2>6 DEF TurnInv, observed
  <2> QED BY <1>1, <2>1, <2>6 DEF TurnInv, observed
<1>7. ASSUME NEW v \in used \ running, Repeated(v) PROVE TurnInv'
  <2>1. Wrote({Notify("completed", v[1], {v[2]})}) /\ UNCHANGED <<owed, turns, threads>> /\ v \in Threads \X Turns
    BY <1>7 DEF Repeated, Typed
  <2>2. \A w \in Threads \X Turns : (Carried(w)' <=> Carried(w)) /\ (Ended(w)' <=> Ended(w) \/ w = v)
    <3> DEFINE m == Notify("completed", v[1], {v[2]})
    <3>1. \A w \in Threads \X Turns : (Ends(m, w) <=> w = v) /\ ~Carries(m, w)
      <4>1. \A w \in Threads \X Turns : v[1] = w[1] /\ v[2] = w[2] <=> v = w
        BY <2>1
      <4>2. \A w : ~Carries(m, w) /\ (Ends(m, w) <=> v[1] = w[1] /\ v[2] = w[2])
        BY ServerTells
      <4> QED BY <4>1, <4>2
    <3>2. Wrote({m})
      BY <2>1
    <3> HIDE DEF m
    <3> QED BY <3>1, <3>2, WroteKnown
  <2> QED BY <1>1, <1>2, <2>1, <2>2 DEF Known, Owed, observed
<1>8. ASSUME NEW t \in loaded, Unloaded(t) PROVE TurnInv'
  <2>1. Wrote({Notify("closed", t, {})}) /\ UNCHANGED <<owed, turns, sub>>
    BY <1>8 DEF Unloaded
  <2>2. \A w : (Carried(w)' <=> Carried(w)) /\ (Ended(w)' <=> Ended(w))
    BY <2>1, WroteKnown, ServerTells
  <2> QED BY <1>1, <1>2, <2>1, <2>2 DEF Known, Owed, observed
<1>9. ASSUME NEW i \in ServerIds, Wrote({Message("request", i, None, {})}), UNCHANGED <<owed, turns, threads>>
      PROVE  TurnInv'
  <2>1. \A w : (Carried(w)' <=> Carried(w)) /\ (Ended(w)' <=> Ended(w))
    BY <1>9, WroteKnown, ServerTells
  <2> QED BY <1>1, <1>2, <1>9, <2>1 DEF Known, Owed, observed
<1>10. ASSUME NEW v \in untold, TurnTold(v) PROVE TurnInv'
  <2>1. /\ Wrote(Started(v[1], v[2])) /\ UNCHANGED <<owed, running, used, threads>>
        /\ v \in running /\ v \in Threads \X Turns
    BY <1>10 DEF TurnTold, Typed
  <2>2. \A w \in Threads \X Turns : v[1] = w[1] /\ v[2] = w[2] <=> v = w
    BY <2>1
  <2>3. \A w \in Threads \X Turns : /\ Carried(w)' => Carried(w) \/ (w = v /\ v[1] \in sub)
                                    /\ Ended(w)' <=> Ended(w)
    <3> DEFINE S == Started(v[1], v[2])
    <3>1. \A w \in Threads \X Turns : /\ (\E m \in S : Carries(m, w)) <=> v[1] \in sub /\ w = v
                                      /\ \A m \in S : ~Ends(m, w)
      BY <2>2, ServerTells
    <3>2. Wrote(S)
      BY <2>1
    <3> HIDE DEF S
    <3> QED BY <3>1, <3>2, WroteKnown
  <2>4. \A w \in Threads \X Turns : Known(w)' => Known(w) \/ (w = v /\ v[1] \in sub)
    BY <1>1, <2>1, <2>3 DEF Known, Owed, observed
  <2> QED BY <1>1, <2>1, <2>3, <2>4 DEF TurnInv, observed
<1> QED BY <1>3, <1>4, <1>5, <1>6, <1>7, <1>8, <1>9, <1>10 DEF ServerStep

LEMMA TurnStep == Typed /\ RequestInv /\ TurnInv /\ [Next]_vars => TurnInv'
<1>1. ASSUME TurnInv, UNCHANGED vars PROVE TurnInv'
  BY <1>1 DEF vars, observed, turns, threads, TurnInv, Known, Carried, Ended, Owed, Pos, At
<1> QED BY <1>1, CopierTurns, ServerSteps, ServerTurns DEF Next

----------------------------------------------------------------------------
(* A running turn of a subscribed thread has been announced.                *)

LEMMA AnnouncedInit == Init => AnnouncedInv
BY DEF Init, AnnouncedInv

\* What is written may announce a turn, and closes no thread with an announced one.
LEMMA AnnouncedWritten ==
  ASSUME AnnouncedInv, UNCHANGED <<active, mid>>, NEW S, Wrote(S),
         \A w \in running' \ untold' : w[1] \in sub' =>
            /\ (w \in running \ untold /\ w[1] \in sub) \/ \E m \in S : Carries(m, w)
            /\ \A m \in S : ~(m.type = "closed" /\ m.thread = w[1])
  PROVE  AnnouncedInv'
<1> SUFFICES ASSUME NEW w \in running' \ untold', w[1] \in sub'
             PROVE  /\ w \in active' \/ Carries(mid'.answer, w) \/ Carried(w)'
                    /\ \A n \in Pos' : Closes(n, w)' => \E m \in Pos' : m > n /\ Carries(At(m)', w)
  BY DEF AnnouncedInv
<1>1. w \in active' \/ Carries(mid'.answer, w) \/ Carried(w)'
  BY WroteKnown DEF AnnouncedInv
<1>2. ASSUME NEW n \in Pos', Closes(n, w)' PROVE \E m \in Pos' : m > n /\ Carries(At(m)', w)
  <2>1. n \in Pos /\ Closes(n, w)
    BY <1>2 DEF Wrote, Closes
  <2>2. CASE \E m \in S : Carries(m, w)
    BY <2>1, <2>2 DEF Wrote
  <2>3. CASE w \in running \ untold /\ w[1] \in sub
    BY <2>1, <2>3 DEF Wrote, AnnouncedInv
  <2> QED BY <2>2, <2>3
<1> QED BY <1>1, <1>2

\* What is read is known from then on, unless it closes the thread.
LEMMA AnnouncedRead ==
  ASSUME AnnouncedInv, Read, UNCHANGED <<running, untold, sub>>, mid = NotMid,
         \A w \in running \ untold : w[1] \in sub =>
            /\ Carries(At(1), w) => w \in active' \/ Carries(mid'.answer, w)
            /\ w \in active => w \in active' \/ Closes(1, w)
  PROVE  AnnouncedInv'
<1> SUFFICES ASSUME NEW w \in running \ untold, w[1] \in sub
             PROVE  /\ w \in active' \/ Carries(mid'.answer, w) \/ Carried(w)'
                    /\ \A n \in Pos' : Closes(n, w)' => \E m \in Pos' : m > n /\ Carries(At(m)', w)
  BY DEF AnnouncedInv
<1>1. ASSUME NEW n \in Pos, Closes(n, w) PROVE \E m \in Pos : m > n /\ Carries(At(m), w)
  BY <1>1 DEF AnnouncedInv
<1>2. ASSUME NEW n \in Pos', Closes(n, w)' PROVE \E m \in Pos' : m > n /\ Carries(At(m)', w)
  <2>1. n + 1 \in Pos /\ Closes(n + 1, w)
    BY <1>2 DEF Read, Closes
  <2>2. PICK m \in Pos : m > n + 1 /\ Carries(At(m), w)
    BY <1>1, <2>1
  <2>3. m - 1 \in Pos' /\ At(m - 1)' = At(m) /\ m - 1 > n
    BY <2>2 DEF Read
  <2> QED BY <2>2, <2>3
<1>3. Closes(1, w) => Carried(w)'
  <2> SUFFICES ASSUME Closes(1, w) PROVE Carried(w)'
    OBVIOUS
  <2>1. PICK m \in Pos : m > 1 /\ Carries(At(m), w)
    BY <1>1 DEF Read
  <2>2. m - 1 \in Pos' /\ At(m - 1)' = At(m)
    BY <2>1 DEF Read
  <2> QED BY <2>1, <2>2 DEF Carried
<1>4. w \in active \/ Carried(w)
  BY NothingMid DEF AnnouncedInv
<1>5. w \in active' \/ Carries(mid'.answer, w) \/ Carried(w)'
  BY <1>3, <1>4, ReadKnown
<1> QED BY <1>2, <1>5

LEMMA CopierAnnounced ==
  ASSUME Typed, RequestInv, TurnInv, AnnouncedInv,
         \/ ObserveClient \/ ObserveAnswer \/ FinishRequest \/ ObserveStarted \/ ObserveTerminal
         \/ ObserveStatus \/ ObserveClosed
  PROVE  AnnouncedInv'
<1> USE DEF observed, turns, threads, serverVars, serverRest
<1>1. CASE ObserveClient
  BY <1>1 DEF ObserveClient, AnnouncedInv, Carried, Closes, Pos, At
<1>2. CASE ObserveAnswer
  <2>1. /\ Read /\ mid = NotMid /\ At(1).type \in {"result", "error", "request"}
        /\ UNCHANGED <<observed, serverRest>>
        /\ At(1).type \in Answers => mid'.answer = At(1)
    BY <1>2, AnswerSteps
  <2>2. \A w : Carries(At(1), w) => Carries(mid'.answer, w)
    BY <2>1 DEF Carries, Answers
  <2> QED BY <2>1, <2>2, AnnouncedRead
<1>3. CASE FinishRequest
  <2>1. /\ mid' = NotMid /\ UNCHANGED <<toClient, serverRest>> /\ active \subseteq active'
        /\ \A w \in Threads \X Turns : Carries(mid.answer, w) => w \in terminal \/ w \in active'
    BY <1>3, Finished
  <2>2. \A w : Carried(w)' <=> Carried(w)
    BY <2>1 DEF Carried, Pos, At
  <2>3. \A w \in running : w \in Threads \X Turns /\ w \notin terminal
    BY DEF Typed, TurnInv
  <2>4. Pos' = Pos /\ \A n \in Pos : At(n)' = At(n)
    BY <2>1 DEF Pos, At
  <2> QED BY <2>1, <2>2, <2>3, <2>4 DEF AnnouncedInv, Closes
<1>4. ASSUME ObserveStarted \/ ObserveTerminal \/ ObserveStatus \/ ObserveClosed
      PROVE  AnnouncedInv'
  <2>1. /\ Read /\ mid = NotMid /\ Arrived = At(1) /\ UNCHANGED <<mid, serverRest>>
    BY <1>4, NotificationSteps
  <2>2. ASSUME NEW w \in running
        PROVE  /\ Carries(At(1), w) => w \in active'
               /\ w \in active => w \in active' \/ Closes(1, w)
    <3>1. w \in Threads \X Turns /\ w \notin terminal /\ ~Ends(At(1), w)
      BY <2>1, ReadKnown DEF Typed, TurnInv
    <3>2. w \in HeadTurn <=> Tells(At(1), w)
      BY <1>4, <3>1, HeadTurns
    <3>3. CASE ObserveStarted
      BY <2>1, <3>1, <3>2, <3>3 DEF ObserveStarted, Carries
    <3>4. CASE ObserveTerminal
      BY <2>1, <3>1, <3>2, <3>4 DEF ObserveTerminal, Carries, Ends
    <3>5. CASE ObserveStatus
      BY <2>1, <3>5 DEF ObserveStatus, Carries
    <3>6. CASE ObserveClosed
      BY <2>1, <3>6 DEF ObserveClosed, Carries, Closes
    <3> QED BY <1>4, <3>3, <3>4, <3>5, <3>6
  <2> QED BY <2>1, <2>2, AnnouncedRead
<1> QED BY <1>1, <1>2, <1>3, <1>4

\* No message but the last word on a thread closes it.
LEMMA OnlyUnloadCloses ==
  /\ \A r, us : Result(r, us).type # "closed"
  /\ \A i : Message("error", i, None, {}).type # "closed" /\ Message("request", i, None, {}).type # "closed"
  /\ \A t, u : \A m \in Started(t, u) : m.type # "closed"
  /\ \A v : \A m \in EndOf(v) : m.type # "closed"
  /\ \A v : Notify("completed", v[1], {v[2]}).type # "closed"
<1>1. \A ty, t, us : Notify(ty, t, us).type = ty
  BY DEF Notify, Message
<1>2. \A t, u : \A m \in Started(t, u) : m.type # "closed"
  BY <1>1 DEF Started
<1>3. \A v : \A m \in EndOf(v) : m.type # "closed"
  BY <1>1 DEF EndOf
<1> QED BY <1>1, <1>2, <1>3 DEF Result, Message

LEMMA ServerAnnounced ==
  ASSUME Typed, AnnouncedInv, ServerStep
  PROVE  AnnouncedInv'
<1> USE DEF turns, threads
<1>1. UNCHANGED <<mid, active>>
  BY DEF ServerStep, copierVars, observed
<1>2. ASSUME NEW S, Wrote(S), running' \subseteq running, untold' = untold, sub' \subseteq sub,
             \A m \in S : m.type # "closed" \/ m.thread \notin sub
      PROVE  AnnouncedInv'
  BY <1>1, <1>2, AnnouncedWritten
<1>3. ASSUME NEW t, NEW u, TurnStarted(t, u), Wrote(Started(t, u)), untold' = untold PROVE AnnouncedInv'
  <2> DEFINE S == Started(t, u)
  <2>1. Wrote(S) /\ running' = running \cup {<<t, u>>} /\ UNCHANGED sub
    BY <1>3 DEF TurnStarted
  <2>2. \A m \in S : m.type # "closed"
    BY OnlyUnloadCloses
  <2>3. t \in sub => \E m \in S : Carries(m, <<t, u>>)
    BY ServerTells
  <2> HIDE DEF S
  <2> QED BY <1>1, <1>3, <2>1, <2>2, <2>3, AnnouncedWritten
<1>4. ASSUME NEW r \in asked, Served(r) PROVE AnnouncedInv'
  <2>1. CASE ServedOpen(r)
    <3> DEFINE t == r.thread
               S == {Result(r, TurnsOf(t))}
    <3>1. Wrote(S) /\ UNCHANGED <<owed, turns>> /\ sub' = sub \cup {t}
      BY <2>1 DEF ServedOpen
    <3>2. \A m \in S : m.type # "closed"
      BY OnlyUnloadCloses
    <3>3. ASSUME NEW w \in running, w[1] = t PROVE \E m \in S : Carries(m, w)
      <4>1. w[2] \in TurnsOf(t)
        BY <3>3 DEF TurnsOf
      <4> QED BY <3>3, <4>1, ServerTells
    <3> HIDE DEF S, t
    <3> QED BY <1>1, <3>1, <3>2, <3>3, AnnouncedWritten
  <2>2. ASSUME NEW u \in Turns, ServedTurn(r, u) PROVE AnnouncedInv'
    <3>1. /\ Wrote({}) /\ UNCHANGED sub
          /\ running' = running \cup {<<r.thread, u>>} /\ untold' = untold \cup {<<r.thread, u>>}
      BY <2>2 DEF ServedTurn, TurnStarted
    <3>2. running' \ untold' \subseteq running \ untold
      BY <3>1
    <3> QED BY <1>1, <3>1, <3>2, AnnouncedWritten
  <2>3. CASE ServedRemove(r)
    <3> DEFINE S == {Result(r, {})}
    <3>1. Wrote(S) /\ UNCHANGED <<running, untold>> /\ sub' \subseteq sub
      BY <2>3 DEF ServedRemove
    <3>2. \A m \in S : m.type # "closed"
      BY OnlyUnloadCloses
    <3> HIDE DEF S
    <3> QED BY <1>2, <3>1, <3>2
  <2>4. CASE ServedExec(r)
    BY <1>2, <2>4 DEF ServedExec
  <2>5. CASE Refused(r)
    <3> DEFINE S == {Message("error", r.id, None, {})}
    <3>1. Wrote(S) /\ UNCHANGED <<running, untold>> /\ sub' = sub
      BY <2>5 DEF Refused
    <3>2. \A m \in S : m.type # "closed"
      BY OnlyUnloadCloses
    <3> HIDE DEF S
    <3> QED BY <1>2, <3>1, <3>2
  <2> QED BY <1>4, <2>1, <2>2, <2>3, <2>4, <2>5 DEF Served
<1>5. ASSUME NEW r \in owed, AnswerWritten(r) PROVE AnnouncedInv'
  <2> DEFINE S == {Result(r, r.turns)}
  <2>1. Wrote(S) /\ UNCHANGED <<running, untold>> /\ sub' = sub
    BY <1>5 DEF AnswerWritten
  <2>2. \A m \in S : m.type # "closed"
    BY OnlyUnloadCloses
  <2> HIDE DEF S
  <2> QED BY <1>2, <2>1, <2>2
<1>6. ASSUME NEW v \in running, TurnEnded(v) PROVE AnnouncedInv'
  <2> DEFINE S == EndOf(v)
  <2>1. Wrote(S) /\ running' \subseteq running /\ untold' = untold /\ sub' = sub
    BY <1>6 DEF TurnEnded
  <2>2. \A m \in S : m.type # "closed"
    BY OnlyUnloadCloses
  <2> HIDE DEF S
  <2> QED BY <1>2, <2>1, <2>2
<1>7. ASSUME NEW v, Repeated(v) PROVE AnnouncedInv'
  <2> DEFINE S == {Notify("completed", v[1], {v[2]})}
  <2>1. Wrote(S) /\ UNCHANGED <<running, untold>> /\ sub' = sub
    BY <1>7 DEF Repeated
  <2>2. \A m \in S : m.type # "closed"
    BY OnlyUnloadCloses
  <2> HIDE DEF S
  <2> QED BY <1>2, <2>1, <2>2
<1>8. ASSUME NEW t \in loaded \ sub, Unloaded(t) PROVE AnnouncedInv'
  <2> DEFINE S == {Notify("closed", t, {})}
  <2>1. Wrote(S) /\ UNCHANGED <<running, untold>> /\ sub' = sub
    BY <1>8 DEF Unloaded
  <2>2. \A m \in S : m.thread \notin sub
    BY DEF Notify, Message
  <2> HIDE DEF S
  <2> QED BY <1>2, <2>1, <2>2
<1>9. ASSUME NEW i, Wrote({Message("request", i, None, {})}), UNCHANGED <<turns, threads>>
      PROVE  AnnouncedInv'
  <2> DEFINE S == {Message("request", i, None, {})}
  <2>1. \A m \in S : m.type # "closed"
    BY OnlyUnloadCloses
  <2>2. Wrote(S) /\ UNCHANGED <<running, untold>> /\ sub' = sub
    BY <1>9
  <2> HIDE DEF S
  <2> QED BY <1>2, <2>1, <2>2
<1>10. ASSUME NEW v \in untold, TurnTold(v) PROVE AnnouncedInv'
  <2> DEFINE S == Started(v[1], v[2])
  <2>1. Wrote(S) /\ untold' = untold \ {v} /\ UNCHANGED <<running, sub>>
    BY <1>10 DEF TurnTold
  <2>2. \A m \in S : m.type # "closed"
    BY OnlyUnloadCloses
  <2>3. v[1] \in sub => \E m \in S : Carries(m, v)
    BY ServerTells
  <2> HIDE DEF S
  <2> QED BY <1>1, <2>1, <2>2, <2>3, AnnouncedWritten
<1> QED BY <1>3, <1>4, <1>5, <1>6, <1>7, <1>8, <1>9, <1>10 DEF ServerStep

LEMMA AnnouncedStep == Typed /\ RequestInv /\ TurnInv /\ AnnouncedInv /\ [Next]_vars => AnnouncedInv'
<1>1. ASSUME AnnouncedInv, UNCHANGED vars PROVE AnnouncedInv'
  BY <1>1 DEF vars, observed, turns, threads, AnnouncedInv, Carried, Closes, Pos, At
<1> QED BY <1>1, CopierAnnounced, ServerSteps, ServerAnnounced DEF Next

----------------------------------------------------------------------------
(* A turn the client asked for is counted from its request to its end.      *)

\* The request that a message on its way answers stays recorded until the message is read.
LEMMA ClientKeeps ==
  ASSUME Typed, RequestInv, ObserveClient
  PROVE  /\ Pos' = Pos /\ \A n \in Pos : At(n)' = At(n)
         /\ \A n \in Pos : At(n).type \in Answers => pending'[At(n).id] = pending[At(n).id]
         /\ UNCHANGED <<mid, observed, serverVars>>
<1>1. UNCHANGED <<mid, observed, serverVars>>
  BY DEF ObserveClient
<1>2. Pos' = Pos /\ \A n \in Pos : At(n)' = At(n)
  BY <1>1 DEF serverVars, Pos, At
<1>3. PICK i \in Ids, k \in Kinds, t \in Threads :
         pending[i] = NoRequest /\ pending' = [pending EXCEPT ![i] = [kind |-> k, thread |-> t]]
  BY DEF ObserveClient
<1>4. \A j \in Ids : j # i => pending'[j] = pending[j]
  BY <1>3 DEF Typed
<1>5. \A n \in Pos : At(n).type \in Answers => At(n).id \in Ids /\ At(n).id # i
  BY <1>3 DEF RequestInv
<1> QED BY <1>1, <1>2, <1>4, <1>5

LEMMA ReadKeeps ==
  ASSUME Typed, RequestInv,
         ObserveAnswer \/ ObserveStarted \/ ObserveTerminal \/ ObserveStatus \/ ObserveClosed
  PROVE  /\ Read /\ mid = NotMid /\ UNCHANGED serverRest
         /\ \A n \in Pos : n # 1 /\ At(n).type \in Answers => pending'[At(n).id] = pending[At(n).id]
         /\ \A n \in Pos' : At(n)'.type \in Answers =>
               At(n)' = At(n + 1) /\ pending'[At(n)'.id] = pending[At(n + 1).id]
         /\ \A n \in Pos' : At(n)' = At(n + 1)
         /\ \A n \in Pos : n # 1 => At(n - 1)' = At(n)
<1>1. CASE ObserveAnswer
  <2>1. /\ Read /\ mid = NotMid /\ UNCHANGED serverRest
        /\ At(1).type \in Answers =>
              pending' = [pending EXCEPT ![At(1).id] = NoRequest] /\ At(1).id \in Ids
        /\ At(1).type \notin Answers => UNCHANGED pending
    BY <1>1, AnswerSteps
  <2>2. ASSUME NEW n \in Pos, n # 1, At(n).type \in Answers PROVE pending'[At(n).id] = pending[At(n).id]
    <3>1. CASE At(1).type \notin Answers
      BY <2>1, <3>1
    <3>2. CASE At(1).type \in Answers
      <4>1. At(n).id # At(1).id /\ At(n).id \in Ids
        BY <2>1, <2>2, <3>2 DEF RequestInv, Read
      <4> QED BY <2>1, <3>2, <4>1 DEF Typed
    <3> QED BY <3>1, <3>2
  <2>3. \A n \in Pos' : n + 1 \in Pos /\ n + 1 # 1 /\ At(n)' = At(n + 1)
    BY <2>1 DEF Read, Pos
  <2> QED BY <2>1, <2>2, <2>3 DEF Read
<1>2. ASSUME ObserveStarted \/ ObserveTerminal \/ ObserveStatus \/ ObserveClosed
      PROVE  Read /\ mid = NotMid /\ UNCHANGED <<pending, serverRest>>
  BY <1>2, NotificationSteps
<1> QED BY <1>1, <1>2 DEF Read

LEMMA MineInit == Init => MineInv
BY DEF Init, MineInv

\* m answers the request that started w.
Resolves(m, w) == m.type = "result" /\ Tells(m, w) /\ pending[m.id].kind = "turn"

LEMMA MineWritten ==
  ASSUME MineInv, UNCHANGED <<active, mid, pending>>, NEW S, Wrote(S),
         \A w \in running' \cap mine' :
            /\ Owed(w)' \/ (\E m \in S : Resolves(m, w)) \/ (w \in running \cap mine /\ ~Owed(w))
            /\ \A m \in S : ~(m.type = "closed" /\ m.thread = w[1])
  PROVE  MineInv'
<1> SUFFICES ASSUME NEW w \in running' \cap mine'
             PROVE  /\ \/ w \in active' \/ Owed(w)'
                       \/ Carries(mid'.answer, w) /\ mid'.request.kind = "turn"
                       \/ \E n \in Pos' : Answered(n, w)'
                    /\ \A n \in Pos' : Closes(n, w)' => Owed(w)' \/ \E m \in Pos' : m > n /\ Answered(m, w)'
  BY DEF MineInv
<1>1. CASE Owed(w)'
  BY <1>1
<1>2. CASE \E m \in S : Resolves(m, w)
  <2>1. PICK k \in Pos' \ Pos : Answered(k, w)' /\ \A n \in Pos : k > n
    BY <1>2 DEF Wrote, Answered, Resolves
  <2>2. \A n \in Pos' : Closes(n, w)' => n \in Pos
    BY DEF Wrote, Closes
  <2> QED BY <2>1, <2>2
<1>3. CASE w \in running \cap mine /\ ~Owed(w)
  <2>1. \A n \in Pos : Answered(n, w) => n \in Pos' /\ Answered(n, w)'
    BY DEF Wrote, Answered
  <2>2. \A n \in Pos' : Closes(n, w)' => n \in Pos /\ Closes(n, w)
    BY DEF Wrote, Closes
  <2> QED BY <1>3, <2>1, <2>2 DEF MineInv
<1> QED BY <1>1, <1>2, <1>3

LEMMA MineRead ==
  ASSUME MineInv, Read, UNCHANGED <<running, mine, owed>>, mid = NotMid,
         \A n \in Pos : n # 1 /\ At(n).type \in Answers => pending'[At(n).id] = pending[At(n).id],
         \A w \in running \cap mine :
            /\ Answered(1, w) => w \in active' \/ (Carries(mid'.answer, w) /\ mid'.request.kind = "turn")
            /\ w \in active => w \in active' \/ Closes(1, w)
  PROVE  MineInv'
<1> SUFFICES ASSUME NEW w \in running \cap mine
             PROVE  /\ \/ w \in active' \/ Owed(w)'
                       \/ Carries(mid'.answer, w) /\ mid'.request.kind = "turn"
                       \/ \E n \in Pos' : Answered(n, w)'
                    /\ \A n \in Pos' : Closes(n, w)' => Owed(w)' \/ \E m \in Pos' : m > n /\ Answered(m, w)'
  BY DEF MineInv
<1>0. Owed(w)' <=> Owed(w)
  BY DEF Owed
<1>1. \A n \in Pos : n # 1 /\ Answered(n, w) => n - 1 \in Pos' /\ Answered(n - 1, w)'
  BY DEF Read, Answered, Answers
<1>2. ASSUME NEW n \in Pos, Closes(n, w) PROVE Owed(w) \/ \E m \in Pos : m > n /\ Answered(m, w)
  BY <1>2 DEF MineInv
<1>3. ASSUME NEW n \in Pos', Closes(n, w)', ~Owed(w)
      PROVE  \E m \in Pos' : m > n /\ Answered(m, w)'
  <2>1. n + 1 \in Pos /\ Closes(n + 1, w)
    BY <1>3 DEF Read, Closes
  <2>2. PICK m \in Pos : m > n + 1 /\ Answered(m, w)
    BY <1>2, <1>3, <2>1
  <2>3. m # 1 /\ m - 1 > n
    BY <2>2 DEF Read
  <2> QED BY <1>1, <2>2, <2>3
<1>4. Closes(1, w) /\ ~Owed(w) => \E n \in Pos' : Answered(n, w)'
  <2> SUFFICES ASSUME Closes(1, w), ~Owed(w) PROVE \E n \in Pos' : Answered(n, w)'
    OBVIOUS
  <2>1. PICK m \in Pos : m > 1 /\ Answered(m, w)
    BY <1>2 DEF Read
  <2>2. m # 1
    BY <2>1 DEF Read
  <2> QED BY <1>1, <2>1, <2>2
<1>5. w \in active \/ Owed(w) \/ \E n \in Pos : Answered(n, w)
  BY NothingMid DEF MineInv
<1> QED BY <1>0, <1>1, <1>3, <1>4, <1>5

LEMMA CopierMine ==
  ASSUME Typed, RequestInv, TurnInv, MineInv,
         \/ ObserveClient \/ ObserveAnswer \/ FinishRequest \/ ObserveStarted \/ ObserveTerminal
         \/ ObserveStatus \/ ObserveClosed
  PROVE  MineInv'
<1> USE DEF observed, turns, threads, serverVars, serverRest
<1>1. CASE ObserveClient
  <2>1. /\ Pos' = Pos /\ \A n \in Pos : At(n)' = At(n)
        /\ \A n \in Pos : At(n).type \in Answers => pending'[At(n).id] = pending[At(n).id]
        /\ UNCHANGED <<mid, observed, serverVars>>
    BY <1>1, ClientKeeps
  <2>2. \A n \in Pos, w \in running : (Answered(n, w)' <=> Answered(n, w)) /\ (Closes(n, w)' <=> Closes(n, w))
    BY <2>1 DEF Answered, Closes, Answers
  <2> QED BY <2>1, <2>2 DEF MineInv, Owed
<1>2. CASE ObserveAnswer
  <2>1. /\ UNCHANGED <<observed, serverRest>>
        /\ At(1).type \in Answers => mid' = [request |-> pending[At(1).id], answer |-> At(1)]
    BY <1>2, AnswerSteps
  <2>2. \A w : Answered(1, w) => Carries(mid'.answer, w) /\ mid'.request.kind = "turn"
    BY <2>1 DEF Answered, Carries, Answers
  <2> QED BY <1>2, <2>1, <2>2, ReadKeeps, MineRead
<1>3. CASE FinishRequest
  <2>1. /\ mid' = NotMid /\ UNCHANGED <<pending, toClient, serverRest>> /\ active \subseteq active'
        /\ \A w \in Threads \X Turns : Carries(mid.answer, w) => w \in terminal \/ w \in active'
    BY <1>3, Finished
  <2>2. \A w \in running : w \in Threads \X Turns /\ w \notin terminal
    BY DEF Typed, TurnInv
  <2>3. Pos' = Pos /\ \A n \in Pos : At(n)' = At(n)
    BY <2>1 DEF Pos, At
  <2> QED BY <2>1, <2>2, <2>3 DEF MineInv, Closes, Answered, Owed
<1>4. ASSUME ObserveStarted \/ ObserveTerminal \/ ObserveStatus \/ ObserveClosed
      PROVE  MineInv'
  <2>1. Arrived = At(1) /\ UNCHANGED serverRest /\ Read
    BY <1>4, NotificationSteps
  <2>2. ASSUME NEW w \in running
        PROVE  ~Answered(1, w) /\ (w \in active => w \in active' \/ Closes(1, w))
    <3>1. w \in Threads \X Turns /\ ~Ends(At(1), w)
      BY <2>1, ReadKnown DEF Typed, TurnInv
    <3>2. w \in HeadTurn <=> Tells(At(1), w)
      BY <1>4, <3>1, HeadTurns
    <3>3. CASE ObserveStarted
      BY <2>1, <3>3 DEF ObserveStarted, Answered
    <3>4. CASE ObserveTerminal
      BY <2>1, <3>1, <3>2, <3>4 DEF ObserveTerminal, Answered, Ends
    <3>5. CASE ObserveStatus
      BY <2>1, <3>5 DEF ObserveStatus, Answered
    <3>6. CASE ObserveClosed
      BY <2>1, <3>6 DEF ObserveClosed, Answered, Closes
    <3> QED BY <1>4, <3>3, <3>4, <3>5, <3>6
  <2> QED BY <1>4, <2>1, <2>2, ReadKeeps, MineRead
<1> QED BY <1>1, <1>2, <1>3, <1>4

LEMMA ServerMine ==
  ASSUME Typed, RequestInv, TurnInv, MineInv, ServerStep
  PROVE  MineInv'
<1> USE DEF turns, threads
<1>1. UNCHANGED <<mid, active, pending>>
  BY DEF ServerStep, copierVars, observed
<1>2. ASSUME NEW S, Wrote(S), running' \cap mine' \subseteq running \cap mine, owed \subseteq owed',
             \A m \in S : m.type # "closed" \/ TurnsOf(m.thread) = {}
      PROVE  MineInv'
  <2>1. \A w \in running : TurnsOf(w[1]) # {}
    BY DEF TurnsOf
  <2>2. \A w : Owed(w) => Owed(w)'
    BY <1>2 DEF Owed
  <2> QED BY <1>1, <1>2, <2>1, <2>2, MineWritten
<1>4. ASSUME NEW r \in asked, Served(r) PROVE MineInv'
  <2>1. CASE ServedOpen(r)
    <3> DEFINE S == {Result(r, TurnsOf(r.thread))}
    <3>1. Wrote(S) /\ UNCHANGED <<owed, turns>>
      BY <2>1 DEF ServedOpen
    <3>2. \A m \in S : m.type # "closed"
      BY OnlyUnloadCloses
    <3> HIDE DEF S
    <3> QED BY <1>2, <3>1, <3>2
  <2>2. ASSUME NEW u \in Turns, ServedTurn(r, u) PROVE MineInv'
    <3> DEFINE v == <<r.thread, u>>
               o == [id |-> r.id, thread |-> r.thread, turns |-> {u}]
    <3>1. /\ Wrote({}) /\ running' = running \cup {v} /\ mine' = mine \cup {v} /\ owed' = owed \cup {o}
          /\ v \notin used
      BY <2>2 DEF ServedTurn, TurnStarted
    <3>3. Owed(v)'
      <4>1. o.thread = v[1] /\ v[2] \in o.turns /\ o \in owed'
        BY <3>1
      <4> HIDE DEF o, v
      <4> QED BY <4>1 DEF Owed
    <3>4. \A w : Owed(w) => Owed(w)'
      BY <3>1 DEF Owed
    <3>5. mine \subseteq used /\ running \subseteq used
      BY DEF Typed, TurnInv
    <3> HIDE DEF v, o
    <3>6. \A w \in running' \cap mine' : w = v \/ w \in running \cap mine
      BY <3>1
    <3> QED BY <1>1, <3>1, <3>3, <3>4, <3>6, MineWritten
  <2>3. CASE ServedRemove(r)
    <3> DEFINE S == {Result(r, {})}
    <3>1. Wrote(S) /\ UNCHANGED <<owed, turns>>
      BY <2>3 DEF ServedRemove
    <3>2. \A m \in S : m.type # "closed"
      BY OnlyUnloadCloses
    <3> HIDE DEF S
    <3> QED BY <1>2, <3>1, <3>2
  <2>4. CASE ServedExec(r)
    BY <1>2, <2>4 DEF ServedExec
  <2>5. CASE Refused(r)
    <3> DEFINE S == {Message("error", r.id, None, {})}
    <3>1. Wrote(S) /\ UNCHANGED <<owed, turns>>
      BY <2>5 DEF Refused
    <3>2. \A m \in S : m.type # "closed"
      BY OnlyUnloadCloses
    <3> HIDE DEF S
    <3> QED BY <1>2, <3>1, <3>2
  <2> QED BY <1>4, <2>1, <2>2, <2>3, <2>4, <2>5 DEF Served
<1>5. ASSUME NEW r \in owed, AnswerWritten(r) PROVE MineInv'
  <2> DEFINE m == Result(r, r.turns)
  <2>1. Wrote({m}) /\ UNCHANGED turns /\ owed' = owed \ {r}
    BY <1>5 DEF AnswerWritten
  <2>2. m.type = "result" /\ m.id = r.id /\ m.thread = r.thread /\ m.turns = r.turns
    BY DEF Result, Message
  <2>3. IsOwed(r)
    BY DEF RequestInv
  <2>4. \A w : Owed(w) => Owed(w)' \/ Resolves(m, w)
    BY <2>1, <2>2, <2>3 DEF Owed, Resolves, Tells, IsOwed
  <2> HIDE DEF m
  <2> QED BY <1>1, <2>1, <2>2, <2>4, MineWritten
<1>6. ASSUME NEW t \in loaded, NEW u \in Turns, TurnStarted(t, u), Wrote(Started(t, u)), UNCHANGED <<owed, mine>>
      PROVE  MineInv'
  <2> DEFINE S == Started(t, u)
  <2>1. Wrote(S) /\ running' = running \cup {<<t, u>>} /\ <<t, u>> \notin used
    BY <1>6 DEF TurnStarted
  <2>2. \A m \in S : m.type # "closed"
    BY OnlyUnloadCloses
  <2>3. running' \cap mine' \subseteq running \cap mine
    BY <1>6, <2>1 DEF Typed
  <2> HIDE DEF S
  <2> QED BY <1>2, <1>6, <2>1, <2>2, <2>3
<1>7. ASSUME NEW v \in running, TurnEnded(v) PROVE MineInv'
  <2> DEFINE S == EndOf(v)
  <2>1. Wrote(S) /\ running' \cap mine' \subseteq running \cap mine /\ owed' = owed
    BY <1>7 DEF TurnEnded
  <2>2. \A m \in S : m.type # "closed"
    BY OnlyUnloadCloses
  <2> HIDE DEF S
  <2> QED BY <1>2, <2>1, <2>2
<1>8. ASSUME NEW v, Repeated(v) PROVE MineInv'
  <2> DEFINE S == {Notify("completed", v[1], {v[2]})}
  <2>1. Wrote(S) /\ UNCHANGED <<owed, turns>>
    BY <1>8 DEF Repeated
  <2>2. \A m \in S : m.type # "closed"
    BY OnlyUnloadCloses
  <2> HIDE DEF S
  <2> QED BY <1>2, <2>1, <2>2
<1>9. ASSUME NEW t, Unloaded(t) PROVE MineInv'
  <2> DEFINE S == {Notify("closed", t, {})}
  <2>1. Wrote(S) /\ UNCHANGED <<owed, turns>> /\ TurnsOf(t) = {}
    BY <1>9 DEF Unloaded
  <2>2. \A m \in S : m.thread = t
    BY DEF Notify, Message
  <2> HIDE DEF S
  <2> QED BY <1>2, <2>1, <2>2
<1>10. ASSUME NEW i, Wrote({Message("request", i, None, {})}), UNCHANGED <<owed, turns>>
       PROVE  MineInv'
  <2> DEFINE S == {Message("request", i, None, {})}
  <2>1. \A m \in S : m.type # "closed"
    BY OnlyUnloadCloses
  <2>2. Wrote(S)
    BY <1>10
  <2> HIDE DEF S
  <2> QED BY <1>2, <1>10, <2>1, <2>2
<1>11. ASSUME NEW v \in untold, TurnTold(v) PROVE MineInv'
  <2> DEFINE S == Started(v[1], v[2])
  <2>1. Wrote(S) /\ UNCHANGED <<owed, running, mine>>
    BY <1>11 DEF TurnTold
  <2>2. \A m \in S : m.type # "closed"
    BY OnlyUnloadCloses
  <2> HIDE DEF S
  <2> QED BY <1>2, <2>1, <2>2
<1> QED BY <1>4, <1>5, <1>6, <1>7, <1>8, <1>9, <1>10, <1>11 DEF ServerStep

LEMMA MineStep == Typed /\ RequestInv /\ TurnInv /\ MineInv /\ [Next]_vars => MineInv'
<1>1. ASSUME MineInv, UNCHANGED vars PROVE MineInv'
  BY <1>1 DEF vars, observed, turns, threads, MineInv, Owed, Answered, Closes, Pos, At
<1> QED BY <1>1, CopierMine, ServerSteps, ServerMine DEF Next

----------------------------------------------------------------------------
(* No thread stays busy for ever.                                           *)

LEMMA BusyInit == Init => BusyInv
BY DEF Init, BusyInv, Pos, NotMid, NoRequest

\* m says that the thread is busy.
Occupies(m, t) ==
    m.thread = t /\ (m.type = "active" \/ (m.type = "result" /\ pending[m.id].kind = "open" /\ m.turns # {}))

LEMMA BusyWritten ==
  ASSUME BusyInv, UNCHANGED <<busy, mid, pending>>, NEW S, Wrote(S),
         \A t \in Threads : /\ t \in sub /\ TurnsOf(t) # {} =>
                                 (t \in sub' /\ TurnsOf(t)' # {}) \/ \E m \in S : Quiets(m, t)
                            /\ \A m \in S : Occupies(m, t) => t \in sub' /\ TurnsOf(t)' # {}
  PROVE  BusyInv'
<1> SUFFICES ASSUME NEW t \in Threads
             PROVE  /\ t \in busy' => Settles(0, t)'
                    /\ mid'.request.kind = "open" /\ mid'.answer.type = "result" /\ mid'.answer.turns # {}
                          /\ mid'.request.thread = t => Settles(0, t)'
                    /\ \A n \in Pos' :
                          \/ At(n)'.type = "active" /\ At(n)'.thread = t
                          \/ IsOpen(n, t)' /\ At(n)'.turns # {}
                          => Settles(n, t)'
  BY DEF BusyInv
<1>1. \A n \in Pos' : n > 0
  BY DEF Pos
<1>2. ASSUME NEW n \in Pos \cup {0}, Settles(n, t) PROVE Settles(n, t)'
  <2>1. CASE \E m \in Pos : m > n /\ Quiets(At(m), t)
    BY <2>1 DEF Settles, Wrote
  <2>2. CASE t \in sub /\ TurnsOf(t) # {}
    <3>1. CASE \E m \in S : Quiets(m, t)
      BY <1>1, <3>1 DEF Settles, Wrote
    <3> QED BY <2>2, <3>1 DEF Settles
  <2> QED BY <1>2, <2>1, <2>2 DEF Settles
<1>3. ASSUME NEW n \in Pos', Occupies(At(n), t)' PROVE Settles(n, t)'
  <2>1. CASE n \in Pos
    <3>1. Occupies(At(n), t) /\ Settles(n, t)
      BY <1>3, <2>1 DEF Wrote, Occupies, BusyInv, IsOpen
    <3> QED BY <1>2, <2>1, <3>1
  <2>2. CASE n \notin Pos
    <3>1. At(n)' \in S
      BY <2>2 DEF Wrote
    <3>2. Occupies(At(n)', t)
      BY <1>3 DEF Occupies
    <3> QED BY <3>1, <3>2 DEF Settles
  <2> QED BY <2>1, <2>2
<1>4. t \in busy => Settles(0, t)
  BY DEF BusyInv
<1>5. mid.request.kind = "open" /\ mid.answer.type = "result" /\ mid.answer.turns # {}
         /\ mid.request.thread = t => Settles(0, t)
  BY DEF BusyInv
<1>6. \A n \in Pos' : \/ At(n)'.type = "active" /\ At(n)'.thread = t
                      \/ IsOpen(n, t)' /\ At(n)'.turns # {}
                      => Occupies(At(n), t)'
  BY DEF Occupies, IsOpen
<1> QED BY <1>2, <1>3, <1>4, <1>5, <1>6

LEMMA BusyRead ==
  ASSUME BusyInv, Read, UNCHANGED <<running, sub>>,
         \A n \in Pos : n # 1 /\ At(n).type \in Answers => pending'[At(n).id] = pending[At(n).id],
         \A t \in Threads :
            /\ t \in busy' => (t \in busy /\ ~Quiets(At(1), t)) \/ Occupies(At(1), t)
            /\ mid'.request.kind = "open" /\ mid'.answer.type = "result" /\ mid'.answer.turns # {}
                  /\ mid'.request.thread = t => Occupies(At(1), t)
  PROVE  BusyInv'
<1> SUFFICES ASSUME NEW t \in Threads
             PROVE  /\ t \in busy' => Settles(0, t)'
                    /\ mid'.request.kind = "open" /\ mid'.answer.type = "result" /\ mid'.answer.turns # {}
                          /\ mid'.request.thread = t => Settles(0, t)'
                    /\ \A n \in Pos' :
                          \/ At(n)'.type = "active" /\ At(n)'.thread = t
                          \/ IsOpen(n, t)' /\ At(n)'.turns # {}
                          => Settles(n, t)'
  BY DEF BusyInv
<1>0. TurnsOf(t)' = TurnsOf(t)
  BY DEF TurnsOf
<1>1. ASSUME NEW n \in Pos', Settles(n + 1, t) PROVE Settles(n, t)'
  <2>1. CASE t \in sub /\ TurnsOf(t) # {}
    BY <1>0, <2>1 DEF Settles
  <2>2. ASSUME NEW m \in Pos, m > n + 1, Quiets(At(m), t) PROVE Settles(n, t)'
    <3>1. m # 1 /\ m - 1 > n /\ m - 1 \in Pos' /\ At(m - 1)' = At(m)
      BY <2>2 DEF Read
    <3> QED BY <2>2, <3>1 DEF Settles
  <2> QED BY <1>1, <2>1, <2>2 DEF Settles
<1>2. ASSUME NEW m \in Pos, m # 1, Quiets(At(m), t) PROVE Settles(0, t)'
  <2>1. m - 1 \in Pos' /\ At(m - 1)' = At(m) /\ m - 1 > 0
    BY <1>2 DEF Read
  <2> QED BY <1>2, <2>1 DEF Settles
<1>3. Settles(1, t) => Settles(0, t)'
  <2>1. t \in sub /\ TurnsOf(t) # {} => Settles(0, t)'
    BY <1>0 DEF Settles
  <2>2. \A m \in Pos : m > 1 => m # 1
    BY DEF Read
  <2> QED BY <1>2, <2>1, <2>2 DEF Settles
<1>4. Settles(0, t) /\ ~Quiets(At(1), t) => Settles(0, t)'
  <2>1. t \in sub /\ TurnsOf(t) # {} => Settles(0, t)'
    BY <1>0 DEF Settles
  <2> QED BY <1>2, <2>1 DEF Settles
<1>5. Occupies(At(1), t) => Settles(0, t)'
  BY <1>3 DEF BusyInv, Occupies, IsOpen, Read
<1>6. t \in busy => Settles(0, t)
  BY DEF BusyInv
<1>7. ASSUME NEW n \in Pos', Occupies(At(n), t)' PROVE Settles(n, t)'
  <2>1. n + 1 \in Pos /\ n + 1 > 1 /\ At(n)' = At(n + 1)
    BY DEF Read
  <2>2. n + 1 # 1
    BY <2>1 DEF Read
  <2>3. Occupies(At(n + 1), t)
    BY <1>7, <2>1, <2>2 DEF Occupies, Answers
  <2>4. Settles(n + 1, t)
    BY <2>1, <2>3 DEF BusyInv, Occupies, IsOpen
  <2> QED BY <1>1, <2>4
<1>8. \A n \in Pos' : \/ At(n)'.type = "active" /\ At(n)'.thread = t
                      \/ IsOpen(n, t)' /\ At(n)'.turns # {}
                      => Occupies(At(n), t)'
  BY DEF Occupies, IsOpen
<1> QED BY <1>4, <1>5, <1>6, <1>7, <1>8

LEMMA CopierBusy ==
  ASSUME Typed, RequestInv, BusyInv,
         \/ ObserveClient \/ ObserveAnswer \/ FinishRequest \/ ObserveStarted \/ ObserveTerminal
         \/ ObserveStatus \/ ObserveClosed
  PROVE  BusyInv'
<1> USE DEF observed, turns, threads, serverVars, serverRest
<1>1. CASE ObserveClient
  <2>1. /\ Pos' = Pos /\ \A n \in Pos : At(n)' = At(n)
        /\ \A n \in Pos : At(n).type \in Answers => pending'[At(n).id] = pending[At(n).id]
        /\ UNCHANGED <<mid, observed, serverVars>>
    BY <1>1, ClientKeeps
  <2>2. \A n, t : Settles(n, t)' <=> Settles(n, t)
    BY <2>1 DEF Settles, TurnsOf
  <2>3. \A n \in Pos, t \in Threads : IsOpen(n, t)' <=> IsOpen(n, t)
    BY <2>1 DEF IsOpen, Answers
  <2> QED BY <2>1, <2>2, <2>3 DEF BusyInv
<1>2. CASE ObserveAnswer
  <2>1. /\ UNCHANGED <<observed, serverRest>> /\ At(1).type \in {"result", "error", "request"} /\ mid = NotMid
        /\ At(1).type \in Answers => mid' = [request |-> pending[At(1).id], answer |-> At(1)]
        /\ At(1).type \notin Answers => mid' = mid
    BY <1>2, AnswerSteps
  <2>2. \A t : ~Quiets(At(1), t)
    BY <2>1 DEF Quiets
  <2>3. ASSUME NEW t, mid'.request.kind = "open", mid'.answer.type = "result", mid'.answer.turns # {},
               mid'.request.thread = t
        PROVE  Occupies(At(1), t)
    <3>1. At(1).type \in Answers
      BY <2>1, <2>3 DEF NotMid, NoRequest
    <3>2. Answering(pending[At(1).id], At(1))
      BY <1>2, <3>1, ReadKeeps DEF RequestInv, Read
    <3> QED BY <2>1, <2>3, <3>1, <3>2 DEF Occupies, Answering
  <2> QED BY <1>2, <2>1, <2>2, <2>3, ReadKeeps, BusyRead
<1>3. CASE FinishRequest
  <2>1. /\ mid' = NotMid /\ UNCHANGED <<pending, toClient, serverRest>>
        /\ Answering(mid.request, mid.answer) /\ mid.answer.type \in Answers
    BY <1>3, Finished
  <2>2. /\ Pos' = Pos /\ \A n \in Pos : At(n)' = At(n)
        /\ \A n, t : Settles(n, t)' <=> Settles(n, t)
        /\ \A n \in Pos : \A t : IsOpen(n, t)' <=> IsOpen(n, t)
    BY <2>1 DEF Pos, At, Settles, TurnsOf, IsOpen
  <2>3. mid'.request.kind # "open"
    BY <2>1 DEF NotMid, NoRequest
  <2>4. ASSUME NEW t \in Threads, t \in busy' PROVE Settles(0, t)
    <3>1. CASE t \in busy
      BY <3>1 DEF BusyInv
    <3>2. CASE t \notin busy
      <4>1. Answer.type # "error" /\ FinishOpen
        BY <1>3, <2>4, <3>2 DEF FinishRequest, FinishTurn, FinishRemove
      <4>2. Answer.thread = mid.request.thread /\ Answer.type = "result"
        BY <2>1, <4>1 DEF Answering, Answer, Answers
      <4>3. t = Answer.thread /\ Answer.turns # {}
        BY <2>4, <3>2, <4>1, <4>2 DEF FinishOpen
      <4> QED BY <4>1, <4>2, <4>3 DEF FinishOpen, BusyInv, Answer
    <3> QED BY <3>1, <3>2
  <2> QED BY <2>2, <2>3, <2>4 DEF BusyInv
<1>4. ASSUME ObserveStarted \/ ObserveTerminal \/ ObserveStatus \/ ObserveClosed
      PROVE  BusyInv'
  <2>1. Arrived = At(1) /\ UNCHANGED <<mid, serverRest>> /\ mid = NotMid
    BY <1>4, NotificationSteps
  <2>2. ASSUME NEW t \in busy'
        PROVE  (t \in busy /\ ~Quiets(At(1), t)) \/ Occupies(At(1), t)
    <3>1. CASE ObserveStarted
      BY <2>1, <2>2, <3>1 DEF ObserveStarted, Quiets
    <3>2. CASE ObserveTerminal
      BY <2>1, <2>2, <3>2 DEF ObserveTerminal, Quiets
    <3>3. CASE ObserveStatus
      BY <2>1, <2>2, <3>3 DEF ObserveStatus, Quiets, Occupies
    <3>4. CASE ObserveClosed
      BY <2>1, <2>2, <3>4 DEF ObserveClosed, Quiets
    <3> QED BY <1>4, <3>1, <3>2, <3>3, <3>4
  <2>3. mid'.request.kind # "open"
    BY <2>1 DEF NotMid, NoRequest
  <2> QED BY <1>4, <2>1, <2>2, <2>3, ReadKeeps, BusyRead
<1> QED BY <1>1, <1>2, <1>3, <1>4

\* What the server's messages say of a thread's being busy.
LEMMA ServerSays ==
  /\ \A r, us, t : Occupies(Result(r, us), t) <=> r.thread = t /\ us # {} /\ pending[r.id].kind = "open"
  /\ \A i, t : ~Occupies(Message("error", i, None, {}), t) /\ ~Occupies(Message("request", i, None, {}), t)
  /\ \A t, u, x : \A m \in Started(t, u) : Occupies(m, x) => t \in sub /\ t = x
  /\ \A v, t : /\ v[1] \in sub /\ v[1] = t => \E m \in EndOf(v) : Quiets(m, t)
               /\ \A m \in EndOf(v) : ~Occupies(m, t)
               /\ ~Occupies(Notify("completed", v[1], {v[2]}), t)
  /\ \A t, x : ~Occupies(Notify("closed", t, {}), x)
<1>1. \A ty, t, us, x :
         /\ Occupies(Notify(ty, t, us), x) => ty \in {"active", "result"} /\ t = x
         /\ Quiets(Notify(ty, t, us), x) <=> ty \in {"completed", "idle", "closed"} /\ t = x
  BY DEF Notify, Message, Occupies, Quiets
<1>2. \A r, us, t : Occupies(Result(r, us), t) <=> r.thread = t /\ us # {} /\ pending[r.id].kind = "open"
  BY DEF Result, Message, Occupies
<1>3. \A i, t : ~Occupies(Message("error", i, None, {}), t) /\ ~Occupies(Message("request", i, None, {}), t)
  BY DEF Message, Occupies
<1>4. \A t, u, x : \A m \in Started(t, u) : Occupies(m, x) => t \in sub /\ t = x
  BY <1>1 DEF Started
<1>5. \A v, t : /\ v[1] \in sub /\ v[1] = t => \E m \in EndOf(v) : Quiets(m, t)
                /\ \A m \in EndOf(v) : ~Occupies(m, t)
                /\ ~Occupies(Notify("completed", v[1], {v[2]}), t)
  BY <1>1 DEF EndOf
<1>6. \A t, x : ~Occupies(Notify("closed", t, {}), x)
  BY <1>1
<1> QED BY <1>2, <1>3, <1>4, <1>5, <1>6

LEMMA ServerBusy ==
  ASSUME Typed, RequestInv, BusyInv, ServerStep
  PROVE  BusyInv'
<1> USE DEF turns, threads
<1>1. UNCHANGED <<mid, busy, pending>>
  BY DEF ServerStep, copierVars, observed
<1>2. ASSUME NEW S, Wrote(S), running' = running, sub' = sub, \A m \in S, t \in Threads : ~Occupies(m, t)
      PROVE  BusyInv'
  <2>1. \A t : TurnsOf(t)' = TurnsOf(t)
    BY <1>2 DEF TurnsOf
  <2> QED BY <1>1, <1>2, <2>1, BusyWritten
<1>3. ASSUME NEW t, NEW u, TurnStarted(t, u), NEW S, Wrote(S), S = {} \/ S = Started(t, u) PROVE BusyInv'
  <2>1. Wrote(S) /\ running' = running \cup {<<t, u>>} /\ UNCHANGED sub
    BY <1>3 DEF TurnStarted
  <2>2. \A x : TurnsOf(x) # {} => TurnsOf(x)' # {}
    BY <2>1 DEF TurnsOf
  <2>3. TurnsOf(t)' # {}
    <3>1. <<t, u>> \in {x \in running' : x[1] = t}
      BY <2>1
    <3>2. TurnsOf(t)' = {w[2] : w \in {x \in running' : x[1] = t}}
      BY DEF TurnsOf
    <3> QED BY <3>1, <3>2
  <2>4. \A x \in Threads : \A m \in S : Occupies(m, x) => x \in sub /\ x = t
    BY <1>3, ServerSays
  <2> QED BY <1>1, <2>1, <2>2, <2>3, <2>4, BusyWritten
<1>4. ASSUME NEW r \in asked, Served(r) PROVE BusyInv'
  <2>0. pending[r.id].kind = r.kind
    BY AskedKind
  <2>1. CASE ServedOpen(r)
    <3> DEFINE S == {Result(r, TurnsOf(r.thread))}
    <3>1. Wrote(S) /\ running' = running /\ sub' = sub \cup {r.thread}
      BY <2>1 DEF ServedOpen
    <3>2. \A t : TurnsOf(t)' = TurnsOf(t)
      BY <3>1 DEF TurnsOf
    <3>3. \A m \in S, t \in Threads : Occupies(m, t) => t = r.thread /\ TurnsOf(t) # {}
      BY ServerSays
    <3> HIDE DEF S
    <3> QED BY <1>1, <3>1, <3>2, <3>3, BusyWritten
  <2>2. ASSUME NEW u \in Turns, ServedTurn(r, u) PROVE BusyInv'
    BY <1>3, <2>2 DEF ServedTurn
  <2>3. CASE ServedRemove(r)
    <3> DEFINE S == {Result(r, {})}
    <3>1. Wrote(S) /\ running' = running /\ sub' = sub \ {r.thread} /\ TurnsOf(r.thread) = {}
      BY <2>3 DEF ServedRemove
    <3>2. \A t : TurnsOf(t)' = TurnsOf(t)
      BY <3>1 DEF TurnsOf
    <3>3. \A m \in S, t \in Threads : ~Occupies(m, t)
      BY ServerSays
    <3> HIDE DEF S
    <3> QED BY <1>1, <3>1, <3>2, <3>3, BusyWritten
  <2>4. CASE ServedExec(r)
    BY <1>2, <2>4 DEF ServedExec
  <2>5. CASE Refused(r)
    <3> DEFINE S == {Message("error", r.id, None, {})}
    <3>1. Wrote(S) /\ UNCHANGED <<running, sub>>
      BY <2>5 DEF Refused
    <3>2. \A m \in S, t \in Threads : ~Occupies(m, t)
      BY ServerSays
    <3> HIDE DEF S
    <3> QED BY <1>2, <3>1, <3>2
  <2> QED BY <1>4, <2>1, <2>2, <2>3, <2>4, <2>5 DEF Served
<1>5. ASSUME NEW r \in owed, AnswerWritten(r) PROVE BusyInv'
  <2> DEFINE S == {Result(r, r.turns)}
  <2>1. Wrote(S) /\ UNCHANGED <<running, sub>>
    BY <1>5 DEF AnswerWritten
  <2>2. pending[r.id].kind # "open"
    BY DEF RequestInv, IsOwed
  <2>3. \A m \in S, t \in Threads : ~Occupies(m, t)
    BY <2>2, ServerSays
  <2> HIDE DEF S
  <2> QED BY <1>2, <2>1, <2>3
<1>6. ASSUME NEW v \in running, TurnEnded(v) PROVE BusyInv'
  <2> DEFINE S == EndOf(v)
  <2>1. Wrote(S) /\ running' = running \ {v} /\ sub' = sub
    BY <1>6 DEF TurnEnded
  <2>2. \A t : t # v[1] /\ TurnsOf(t) # {} => TurnsOf(t)' # {}
    BY <2>1 DEF TurnsOf
  <2>3. \A t \in Threads : /\ t = v[1] /\ t \in sub => \E m \in S : Quiets(m, t)
                           /\ \A m \in S : ~Occupies(m, t)
    BY ServerSays
  <2> HIDE DEF S
  <2> QED BY <1>1, <2>1, <2>2, <2>3, BusyWritten
<1>7. ASSUME NEW v, Repeated(v) PROVE BusyInv'
  <2> DEFINE S == {Notify("completed", v[1], {v[2]})}
  <2>1. Wrote(S) /\ UNCHANGED <<running, sub>>
    BY <1>7 DEF Repeated
  <2>2. \A m \in S, t \in Threads : ~Occupies(m, t)
    BY ServerSays
  <2> HIDE DEF S
  <2> QED BY <1>2, <2>1, <2>2
<1>8. ASSUME NEW t, Unloaded(t) PROVE BusyInv'
  <2> DEFINE S == {Notify("closed", t, {})}
  <2>1. Wrote(S) /\ UNCHANGED <<running, sub>>
    BY <1>8 DEF Unloaded
  <2>2. \A m \in S, x \in Threads : ~Occupies(m, x)
    BY ServerSays
  <2> HIDE DEF S
  <2> QED BY <1>2, <2>1, <2>2
<1>9. ASSUME NEW i, Wrote({Message("request", i, None, {})}), UNCHANGED <<turns, threads>>
      PROVE  BusyInv'
  <2> DEFINE S == {Message("request", i, None, {})}
  <2>1. \A m \in S, t \in Threads : ~Occupies(m, t)
    BY ServerSays
  <2>2. Wrote(S) /\ UNCHANGED <<running, sub>>
    BY <1>9
  <2> HIDE DEF S
  <2> QED BY <1>2, <2>1, <2>2
<1>10. ASSUME NEW v \in untold, TurnTold(v) PROVE BusyInv'
  <2> DEFINE S == Started(v[1], v[2])
  <2>1. Wrote(S) /\ UNCHANGED <<running, sub>> /\ v \in running
    BY <1>10 DEF TurnTold, Typed
  <2>2. TurnsOf(v[1]) # {} /\ \A t : TurnsOf(t)' = TurnsOf(t)
    BY <2>1 DEF TurnsOf
  <2>3. \A t \in Threads : \A m \in S : Occupies(m, t) => t \in sub /\ t = v[1]
    BY ServerSays
  <2> HIDE DEF S
  <2> QED BY <1>1, <2>1, <2>2, <2>3, BusyWritten
<1> QED BY <1>3, <1>4, <1>5, <1>6, <1>7, <1>8, <1>9, <1>10 DEF ServerStep

LEMMA BusyStep == Typed /\ RequestInv /\ BusyInv /\ [Next]_vars => BusyInv'
<1>1. ASSUME BusyInv, UNCHANGED vars PROVE BusyInv'
  BY <1>1 DEF vars, observed, turns, threads, BusyInv, Settles, IsOpen, TurnsOf, Pos, At
<1> QED BY <1>1, CopierBusy, ServerSteps, ServerBusy DEF Next

----------------------------------------------------------------------------
(* The observer is told last what a thread has become.                      *)

LEMMA ThreadInit == Init => ThreadInv
BY DEF Init, ThreadInv, ToldRemoved, MidIs, NotMid, NoRequest, Pos, IsOpen

Removal == {"archive", "delete"}

\* What a message says of the thread.
Opens(m, t) == m.type = "result" /\ m.thread = t /\ pending[m.id].kind = "open"

Removes(m, t) ==
    m.thread = t /\ (m.type = "closed" \/ (m.type = "result" /\ pending[m.id].kind \in Removal))

LEMMA Says ==
  \A n, t : /\ IsOpen(n, t) <=> Opens(At(n), t)
            /\ IsRemoval(n, t) <=> Removes(At(n), t)
            /\ ~(IsOpen(n, t) /\ IsRemoval(n, t))
BY DEF IsOpen, IsRemoval, Opens, Removes, Removal

LEMMA ThreadWritten ==
  ASSUME ThreadInv, UNCHANGED <<live, mid, pending>>, NEW S, Wrote(S),
         \A t \in sub' : /\ t \in sub \/ \E m \in S : Opens(m, t)
                         /\ \A m \in S : ~Removes(m, t),
         \A t \in Threads \ loaded' : /\ t \notin loaded \/ \E m \in S : Removes(m, t)
                                      /\ \A m \in S : ~Opens(m, t)
  PROVE  ThreadInv'
<1>1. \A n \in Pos : \A t : (IsOpen(n, t)' <=> IsOpen(n, t)) /\ (IsRemoval(n, t)' <=> IsRemoval(n, t))
  BY DEF Wrote, IsOpen, IsRemoval
<1>2. \A k \in Pos' \ Pos : \A t : (IsOpen(k, t)' <=> Opens(At(k)', t)) /\ (IsRemoval(k, t)' <=> Removes(At(k)', t))
  BY DEF IsOpen, IsRemoval, Opens, Removes, Removal
<1>3. \A ks, t : MidIs(ks, t)' <=> MidIs(ks, t)
  BY DEF MidIs
<1>4. \A k \in Pos' \ Pos, m \in Pos : ~(m > k)
  BY DEF Wrote, Pos
<1>5. ASSUME NEW t \in sub' PROVE ToldOpen(t)'
  <2>1. \A k \in Pos' \ Pos : ~IsRemoval(k, t)'
    BY <1>2 DEF Wrote
  <2>2. CASE t \in sub
    <3>1. CASE \E n \in Pos : IsOpen(n, t) /\ \A m \in Pos : m > n => ~IsRemoval(m, t)
      <4>1. PICK n \in Pos : IsOpen(n, t) /\ \A m \in Pos : m > n => ~IsRemoval(m, t)
        BY <3>1
      <4>2. n \in Pos' /\ IsOpen(n, t)' /\ \A m \in Pos' : m > n => ~IsRemoval(m, t)'
        BY <1>1, <2>1, <4>1 DEF Wrote
      <4> QED BY <4>2 DEF ToldOpen
    <3>2. CASE /\ \A n \in Pos : ~IsRemoval(n, t)
               /\ MidIs({"open"}, t) \/ (t \in live /\ ~MidIs({"archive", "delete"}, t))
      BY <1>1, <1>3, <2>1, <3>2 DEF ToldOpen
    <3> QED BY <2>2, <3>1, <3>2 DEF ThreadInv, ToldOpen
  <2>3. CASE \E m \in S : Opens(m, t)
    <3>1. PICK k \in Pos' \ Pos : IsOpen(k, t)'
      BY <1>2, <2>3 DEF Wrote
    <3>2. \A m \in Pos' : m > k => ~IsRemoval(m, t)'
      BY <1>4, <2>1
    <3> QED BY <3>1, <3>2 DEF ToldOpen
  <2> QED BY <2>2, <2>3
<1>6. ASSUME NEW t \in Threads \ loaded' PROVE ToldRemoved(t)'
  <2>1. \A k \in Pos' \ Pos : ~IsOpen(k, t)'
    BY <1>2 DEF Wrote
  <2>2. CASE t \notin loaded
    <3>1. CASE \E n \in Pos : IsRemoval(n, t) /\ \A m \in Pos : m > n => ~IsOpen(m, t)
      <4>1. PICK n \in Pos : IsRemoval(n, t) /\ \A m \in Pos : m > n => ~IsOpen(m, t)
        BY <3>1
      <4>2. n \in Pos' /\ IsRemoval(n, t)' /\ \A m \in Pos' : m > n => ~IsOpen(m, t)'
        BY <1>1, <2>1, <4>1 DEF Wrote
      <4> QED BY <4>2 DEF ToldRemoved
    <3>2. CASE /\ \A n \in Pos : ~IsOpen(n, t)
               /\ MidIs({"archive", "delete"}, t) \/ (t \notin live /\ ~MidIs({"open"}, t))
      BY <1>1, <1>3, <2>1, <3>2 DEF ToldRemoved
    <3> QED BY <2>2, <3>1, <3>2 DEF ThreadInv, ToldRemoved
  <2>3. CASE \E m \in S : Removes(m, t)
    <3>1. PICK k \in Pos' \ Pos : IsRemoval(k, t)'
      BY <1>2, <2>3 DEF Wrote
    <3>2. \A m \in Pos' : m > k => ~IsOpen(m, t)'
      BY <1>4, <2>1
    <3> QED BY <3>1, <3>2 DEF ToldRemoved
  <2> QED BY <2>2, <2>3
<1> QED BY <1>5, <1>6 DEF ThreadInv

LEMMA ThreadRead ==
  ASSUME ThreadInv, Read, mid = NotMid, UNCHANGED <<sub, loaded>>,
         \A n \in Pos : n # 1 /\ At(n).type \in Answers => pending'[At(n).id] = pending[At(n).id],
         \A t : /\ Opens(At(1), t) => MidIs({"open"}, t)'
                /\ Removes(At(1), t) => MidIs(Removal, t)' \/ (t \notin live' /\ ~MidIs({"open"}, t)')
                /\ MidIs({"open"}, t)' => Opens(At(1), t)
                /\ MidIs(Removal, t)' => Removes(At(1), t)
                /\ t \in live => t \in live' \/ Removes(At(1), t)
                /\ t \in live' => t \in live
  PROVE  ThreadInv'
<1>1. \A n \in Pos : \A t : n # 1 => n - 1 \in Pos' /\ (IsOpen(n - 1, t)' <=> IsOpen(n, t))
                                 /\ (IsRemoval(n - 1, t)' <=> IsRemoval(n, t))
  BY DEF Read, IsOpen, IsRemoval, Answers
<1>2. \A n \in Pos' : n + 1 \in Pos /\ n + 1 # 1 /\ (n + 1) - 1 = n
  BY DEF Read, Pos
<1>3. \A n \in Pos' : \A t : (IsOpen(n, t)' <=> IsOpen(n + 1, t)) /\ (IsRemoval(n, t)' <=> IsRemoval(n + 1, t))
  BY <1>1, <1>2
<1>4. \A t : ~MidIs({"open"}, t) /\ ~MidIs(Removal, t)
  BY DEF MidIs, NotMid, NoRequest, Removal
<1>5. ASSUME NEW t \in sub PROVE ToldOpen(t)'
  <2>1. CASE \E n \in Pos : IsOpen(n, t) /\ \A m \in Pos : m > n => ~IsRemoval(m, t)
    <3>1. PICK n \in Pos : IsOpen(n, t) /\ \A m \in Pos : m > n => ~IsRemoval(m, t)
      BY <2>1
    <3>2. CASE n = 1
      <4>1. \A m \in Pos' : ~IsRemoval(m, t)'
        BY <1>2, <1>3, <3>1, <3>2 DEF Read
      <4>2. MidIs({"open"}, t)'
        BY <3>1, <3>2, Says
      <4> QED BY <4>1, <4>2 DEF ToldOpen
    <3>3. CASE n # 1
      <4>1. n - 1 \in Pos' /\ IsOpen(n - 1, t)' /\ (n - 1) + 1 = n
        BY <1>1, <3>1, <3>3 DEF Pos
      <4>2. \A m \in Pos' : m > n - 1 => ~IsRemoval(m, t)'
        BY <1>2, <1>3, <3>1, <4>1 DEF Read
      <4> QED BY <4>1, <4>2 DEF ToldOpen
    <3> QED BY <3>2, <3>3
  <2>2. CASE (\A n \in Pos : ~IsRemoval(n, t)) /\ t \in live
    <3>1. \A n \in Pos' : ~IsRemoval(n, t)'
      BY <1>2, <1>3, <2>2
    <3>2. ~Removes(At(1), t)
      BY <2>2, Says DEF Read
    <3> QED BY <2>2, <3>1, <3>2 DEF ToldOpen, Removal
  <2> QED BY <1>4, <2>1, <2>2 DEF ThreadInv, ToldOpen
<1>6. ASSUME NEW t \in Threads \ loaded PROVE ToldRemoved(t)'
  <2>1. CASE \E n \in Pos : IsRemoval(n, t) /\ \A m \in Pos : m > n => ~IsOpen(m, t)
    <3>1. PICK n \in Pos : IsRemoval(n, t) /\ \A m \in Pos : m > n => ~IsOpen(m, t)
      BY <2>1
    <3>2. CASE n = 1
      <4>1. \A m \in Pos' : ~IsOpen(m, t)'
        BY <1>2, <1>3, <3>1, <3>2 DEF Read
      <4>2. MidIs(Removal, t)' \/ (t \notin live' /\ ~MidIs({"open"}, t)')
        BY <3>1, <3>2, Says
      <4> QED BY <4>1, <4>2 DEF ToldRemoved, Removal
    <3>3. CASE n # 1
      <4>1. n - 1 \in Pos' /\ IsRemoval(n - 1, t)' /\ (n - 1) + 1 = n
        BY <1>1, <3>1, <3>3 DEF Pos
      <4>2. \A m \in Pos' : m > n - 1 => ~IsOpen(m, t)'
        BY <1>2, <1>3, <3>1, <4>1 DEF Read
      <4> QED BY <4>1, <4>2 DEF ToldRemoved
    <3> QED BY <3>2, <3>3
  <2>2. CASE (\A n \in Pos : ~IsOpen(n, t)) /\ t \notin live
    <3>1. \A n \in Pos' : ~IsOpen(n, t)'
      BY <1>2, <1>3, <2>2
    <3>2. ~Opens(At(1), t)
      BY <2>2, Says DEF Read
    <3> QED BY <2>2, <3>1, <3>2 DEF ToldRemoved
  <2> QED BY <1>4, <2>1, <2>2 DEF ThreadInv, ToldRemoved, Removal
<1> QED BY <1>5, <1>6 DEF ThreadInv

LEMMA CopierThreads ==
  ASSUME Typed, RequestInv, ThreadInv,
         \/ ObserveClient \/ ObserveAnswer \/ FinishRequest \/ ObserveStarted \/ ObserveTerminal
         \/ ObserveStatus \/ ObserveClosed
  PROVE  ThreadInv'
<1> USE DEF observed, turns, threads, serverVars, serverRest
<1>1. CASE ObserveClient
  <2>1. /\ Pos' = Pos /\ \A n \in Pos : At(n)' = At(n)
        /\ \A n \in Pos : At(n).type \in Answers => pending'[At(n).id] = pending[At(n).id]
        /\ UNCHANGED <<mid, observed, serverVars>>
    BY <1>1, ClientKeeps
  <2>2. \A n \in Pos : \A t : (IsOpen(n, t)' <=> IsOpen(n, t)) /\ (IsRemoval(n, t)' <=> IsRemoval(n, t))
    BY <2>1 DEF IsOpen, IsRemoval, Answers
  <2>3. \A ks, t : MidIs(ks, t)' <=> MidIs(ks, t)
    BY <2>1 DEF MidIs
  <2>4. \A t : (ToldOpen(t) => ToldOpen(t)') /\ (ToldRemoved(t) => ToldRemoved(t)')
    BY <2>1, <2>2, <2>3 DEF ToldOpen, ToldRemoved
  <2> QED BY <2>1, <2>4 DEF ThreadInv
<1>2. CASE ObserveAnswer
  <2>1. /\ UNCHANGED <<observed, serverRest>> /\ At(1).type \in {"result", "error", "request"} /\ mid = NotMid
        /\ At(1).type \in Answers => mid' = [request |-> pending[At(1).id], answer |-> At(1)]
        /\ At(1).type \notin Answers => mid' = mid
    BY <1>2, AnswerSteps
  <2>2. At(1).type \in Answers => Answering(pending[At(1).id], At(1))
    BY <1>2, ReadKeeps DEF RequestInv, Read
  <2>3. ASSUME NEW ks, "none" \notin ks, NEW t
        PROVE  MidIs(ks, t)' <=> At(1).type = "result" /\ pending[At(1).id].kind \in ks /\ At(1).thread = t
    <3>1. CASE At(1).type \in Answers
      BY <2>1, <2>2, <3>1 DEF MidIs, Answering
    <3>2. CASE At(1).type \notin Answers
      BY <2>1, <2>3, <3>2 DEF MidIs, NotMid, NoRequest, Answers
    <3> QED BY <3>1, <3>2
  <2>4. \A t : /\ MidIs({"open"}, t)' <=> Opens(At(1), t)
               /\ MidIs(Removal, t)' <=> Removes(At(1), t)
    <3>1. "none" \notin {"open"} /\ "none" \notin Removal
      BY DEF Removal
    <3>2. \A t : MidIs({"open"}, t)' <=> At(1).type = "result" /\ pending[At(1).id].kind \in {"open"} /\ At(1).thread = t
      BY <2>3, <3>1
    <3>3. \A t : MidIs(Removal, t)' <=> At(1).type = "result" /\ pending[At(1).id].kind \in Removal /\ At(1).thread = t
      BY <2>3, <3>1
    <3> QED BY <2>1, <3>2, <3>3 DEF Opens, Removes
  <2> QED BY <1>2, <2>1, <2>4, ReadKeeps, ThreadRead
<1>3. CASE FinishRequest
  <2>1. /\ mid' = NotMid /\ UNCHANGED <<pending, toClient, serverRest>>
        /\ Answering(mid.request, mid.answer) /\ mid.answer.type \in Answers
    BY <1>3, Finished
  <2>2. /\ Pos' = Pos /\ \A n \in Pos : At(n)' = At(n)
        /\ \A n \in Pos : \A t : (IsOpen(n, t)' <=> IsOpen(n, t)) /\ (IsRemoval(n, t)' <=> IsRemoval(n, t))
    BY <2>1 DEF Pos, At, IsOpen, IsRemoval
  <2>3. \A t : ~MidIs({"open"}, t)' /\ ~MidIs(Removal, t)'
    BY <2>1 DEF MidIs, NotMid, NoRequest, Removal
  <2>4. \A t : /\ MidIs({"open"}, t) => t \in live'
               /\ MidIs(Removal, t) => t \notin live'
               /\ ~MidIs({"open"}, t) /\ ~MidIs(Removal, t) => (t \in live' <=> t \in live)
    <3>1. CASE Answer.type = "error"
      BY <1>3, <3>1 DEF FinishRequest, MidIs, Answer
    <3>2. CASE Answer.type # "error" /\ FinishOpen
      <4>1. live' = live \cup {mid.request.thread} /\ mid.request.kind = "open" /\ mid.answer.type = "result"
        BY <2>1, <3>2 DEF FinishOpen, Answering, Answer, Answers
      <4> QED BY <4>1 DEF MidIs, Removal
    <3>3. CASE Answer.type # "error" /\ FinishRemove
      <4>1. live' = live \ {mid.request.thread} /\ mid.request.kind \in Removal /\ mid.answer.type = "result"
        BY <2>1, <3>3 DEF FinishRemove, Answer, Answers, Removal
      <4> QED BY <4>1 DEF MidIs, Removal
    <3>4. CASE Answer.type # "error" /\ (FinishTurn \/ mid.request.kind \in {"exec", "unsubscribe"})
      BY <1>3, <3>4 DEF FinishRequest, FinishTurn, FinishOpen, FinishRemove, MidIs, Removal
    <3> QED BY <1>3, <3>1, <3>2, <3>3, <3>4 DEF FinishRequest
  <2>5. \A t : ~(MidIs({"open"}, t) /\ MidIs(Removal, t))
    BY DEF MidIs, Removal
  <2>6. \A t \in sub : ToldOpen(t)'
    <3> SUFFICES ASSUME NEW t \in sub PROVE ToldOpen(t)'
      OBVIOUS
    <3>1. ToldOpen(t)
      BY DEF ThreadInv
    <3>2. CASE \E n \in Pos : IsOpen(n, t) /\ \A m \in Pos : m > n => ~IsRemoval(m, t)
      BY <2>2, <3>2 DEF ToldOpen
    <3>3. CASE /\ \A n \in Pos : ~IsRemoval(n, t)
               /\ MidIs({"open"}, t) \/ (t \in live /\ ~MidIs(Removal, t))
      BY <2>2, <2>3, <2>4, <3>3 DEF ToldOpen, Removal
    <3> QED BY <3>1, <3>2, <3>3 DEF ToldOpen, Removal
  <2>7. \A t \in Threads \ loaded : ToldRemoved(t)'
    <3> SUFFICES ASSUME NEW t \in Threads \ loaded PROVE ToldRemoved(t)'
      OBVIOUS
    <3>1. ToldRemoved(t)
      BY DEF ThreadInv
    <3>2. CASE \E n \in Pos : IsRemoval(n, t) /\ \A m \in Pos : m > n => ~IsOpen(m, t)
      BY <2>2, <3>2 DEF ToldRemoved
    <3>3. CASE /\ \A n \in Pos : ~IsOpen(n, t)
               /\ MidIs(Removal, t) \/ (t \notin live /\ ~MidIs({"open"}, t))
      BY <2>2, <2>3, <2>4, <3>3 DEF ToldRemoved, Removal
    <3> QED BY <3>1, <3>2, <3>3 DEF ToldRemoved, Removal
  <2> QED BY <2>1, <2>6, <2>7 DEF ThreadInv
<1>4. ASSUME ObserveStarted \/ ObserveTerminal \/ ObserveStatus \/ ObserveClosed
      PROVE  ThreadInv'
  <2>1. Arrived = At(1) /\ UNCHANGED <<mid, serverRest>> /\ mid = NotMid
    BY <1>4, NotificationSteps
  <2>2. \A t : ~MidIs({"open"}, t)' /\ ~MidIs(Removal, t)'
    BY <2>1 DEF MidIs, NotMid, NoRequest, Removal
  <2>3. ASSUME NEW t
        PROVE  /\ ~Opens(At(1), t)
               /\ Removes(At(1), t) => t \notin live'
               /\ t \in live => t \in live' \/ Removes(At(1), t)
               /\ t \in live' => t \in live
    <3>1. CASE ObserveStarted
      BY <2>1, <3>1 DEF ObserveStarted, Opens, Removes
    <3>2. CASE ObserveTerminal
      BY <2>1, <3>2 DEF ObserveTerminal, Opens, Removes
    <3>3. CASE ObserveStatus
      BY <2>1, <3>3 DEF ObserveStatus, Opens, Removes
    <3>4. CASE ObserveClosed
      BY <2>1, <3>4 DEF ObserveClosed, Opens, Removes
    <3> QED BY <1>4, <3>1, <3>2, <3>3, <3>4
  <2> QED BY <1>4, <2>1, <2>2, <2>3, ReadKeeps, ThreadRead
<1> QED BY <1>1, <1>2, <1>3, <1>4

\* What the server's messages say of a thread's being loaded.
LEMMA ServerTold ==
  /\ \A r, us, t : /\ Opens(Result(r, us), t) <=> r.thread = t /\ pending[r.id].kind = "open"
                   /\ Removes(Result(r, us), t) <=> r.thread = t /\ pending[r.id].kind \in Removal
  /\ \A i, t : /\ ~Opens(Message("error", i, None, {}), t) /\ ~Opens(Message("request", i, None, {}), t)
               /\ ~Removes(Message("error", i, None, {}), t) /\ ~Removes(Message("request", i, None, {}), t)
  /\ \A t, u, x : \A m \in Started(t, u) : ~Opens(m, x) /\ ~Removes(m, x)
  /\ \A v, t : /\ \A m \in EndOf(v) : ~Opens(m, t) /\ ~Removes(m, t)
               /\ ~Opens(Notify("completed", v[1], {v[2]}), t) /\ ~Removes(Notify("completed", v[1], {v[2]}), t)
  /\ \A t, x : ~Opens(Notify("closed", t, {}), x) /\ (Removes(Notify("closed", t, {}), x) <=> t = x)
<1>1. \A ty, t, us, x : ty \notin {"result"} =>
         /\ ~Opens(Notify(ty, t, us), x)
         /\ Removes(Notify(ty, t, us), x) <=> ty = "closed" /\ t = x
  BY DEF Notify, Message, Opens, Removes
<1>2. \A r, us, t : /\ Opens(Result(r, us), t) <=> r.thread = t /\ pending[r.id].kind = "open"
                    /\ Removes(Result(r, us), t) <=> r.thread = t /\ pending[r.id].kind \in Removal
  BY DEF Result, Message, Opens, Removes
<1>3. \A i, t : /\ ~Opens(Message("error", i, None, {}), t) /\ ~Opens(Message("request", i, None, {}), t)
                /\ ~Removes(Message("error", i, None, {}), t) /\ ~Removes(Message("request", i, None, {}), t)
  BY DEF Message, Opens, Removes
<1>4. \A t, u, x : \A m \in Started(t, u) : ~Opens(m, x) /\ ~Removes(m, x)
  BY <1>1 DEF Started
<1>5. \A v, t : /\ \A m \in EndOf(v) : ~Opens(m, t) /\ ~Removes(m, t)
                /\ ~Opens(Notify("completed", v[1], {v[2]}), t)
                /\ ~Removes(Notify("completed", v[1], {v[2]}), t)
  BY <1>1 DEF EndOf
<1>6. \A t, x : ~Opens(Notify("closed", t, {}), x) /\ (Removes(Notify("closed", t, {}), x) <=> t = x)
  BY <1>1
<1> QED BY <1>2, <1>3, <1>4, <1>5, <1>6

LEMMA ServerThreads ==
  ASSUME Typed, RequestInv, ThreadInv, ServerStep
  PROVE  ThreadInv'
<1> USE DEF turns, threads
<1>1. UNCHANGED <<mid, live, pending>>
  BY DEF ServerStep, copierVars, observed
<1>2. ASSUME NEW S, Wrote(S), sub' \subseteq sub, loaded' = loaded, \A m \in S : \A t : ~Opens(m, t) /\ ~Removes(m, t)
      PROVE  ThreadInv'
  BY <1>1, <1>2, ThreadWritten
<1>3. ASSUME NEW t, NEW u, Wrote(Started(t, u)), UNCHANGED threads PROVE ThreadInv'
  <2> DEFINE S == Started(t, u)
  <2>1. Wrote(S) /\ UNCHANGED threads
    BY <1>3
  <2>2. \A m \in S : \A x : ~Opens(m, x) /\ ~Removes(m, x)
    BY ServerTold
  <2> HIDE DEF S
  <2> QED BY <1>2, <2>1, <2>2
<1>4. ASSUME NEW r \in asked, Served(r) PROVE ThreadInv'
  <2>0. pending[r.id].kind = r.kind
    BY AskedKind
  <2>1. CASE ServedOpen(r)
    <3> DEFINE S == {Result(r, TurnsOf(r.thread))}
    <3>1. Wrote(S) /\ loaded' = loaded \cup {r.thread} /\ sub' = sub \cup {r.thread} /\ r.kind = "open"
      BY <2>1 DEF ServedOpen
    <3>2. \A m \in S : \A t : (Opens(m, t) <=> t = r.thread) /\ ~Removes(m, t)
      BY <2>0, <3>1, ServerTold DEF Removal
    <3>3. \E m \in S : TRUE
      OBVIOUS
    <3> HIDE DEF S
    <3> QED BY <1>1, <3>1, <3>2, <3>3, ThreadWritten
  <2>2. ASSUME NEW u \in Turns, ServedTurn(r, u) PROVE ThreadInv'
    BY <1>2, <2>2 DEF ServedTurn, TurnStarted
  <2>3. CASE ServedRemove(r)
    <3> DEFINE S == {Result(r, {})}
    <3>1. /\ Wrote(S) /\ sub' = sub \ {r.thread} /\ r.kind \in {"archive", "delete", "unsubscribe"}
          /\ loaded' = IF r.kind = "unsubscribe" THEN loaded ELSE loaded \ {r.thread}
      BY <2>3 DEF ServedRemove
    <3>2. \A m \in S : \A t : ~Opens(m, t) /\ (Removes(m, t) <=> t = r.thread /\ r.kind # "unsubscribe")
      BY <2>0, <3>1, ServerTold DEF Removal
    <3>3. \E m \in S : TRUE
      OBVIOUS
    <3> HIDE DEF S
    <3> QED BY <1>1, <3>1, <3>2, <3>3, ThreadWritten
  <2>4. CASE ServedExec(r)
    BY <1>2, <2>4 DEF ServedExec
  <2>5. CASE Refused(r)
    <3> DEFINE S == {Message("error", r.id, None, {})}
    <3>1. Wrote(S) /\ UNCHANGED threads
      BY <2>5 DEF Refused
    <3>2. \A m \in S : \A t : ~Opens(m, t) /\ ~Removes(m, t)
      BY ServerTold
    <3> HIDE DEF S
    <3> QED BY <1>2, <3>1, <3>2
  <2> QED BY <1>4, <2>1, <2>2, <2>3, <2>4, <2>5 DEF Served
<1>5. ASSUME NEW r \in owed, AnswerWritten(r) PROVE ThreadInv'
  <2> DEFINE S == {Result(r, r.turns)}
  <2>1. Wrote(S) /\ UNCHANGED threads
    BY <1>5 DEF AnswerWritten
  <2>2. pending[r.id].kind \in {"exec", "turn"}
    BY DEF RequestInv, IsOwed
  <2>3. \A m \in S : \A t : ~Opens(m, t) /\ ~Removes(m, t)
    BY <2>2, ServerTold DEF Removal
  <2> HIDE DEF S
  <2> QED BY <1>2, <2>1, <2>3
<1>6. ASSUME NEW v \in running, TurnEnded(v) PROVE ThreadInv'
  <2> DEFINE S == EndOf(v)
  <2>1. Wrote(S) /\ UNCHANGED threads
    BY <1>6 DEF TurnEnded
  <2>2. \A m \in S : \A t : ~Opens(m, t) /\ ~Removes(m, t)
    BY ServerTold
  <2> HIDE DEF S
  <2> QED BY <1>2, <2>1, <2>2
<1>7. ASSUME NEW v, Repeated(v) PROVE ThreadInv'
  <2> DEFINE S == {Notify("completed", v[1], {v[2]})}
  <2>1. Wrote(S) /\ UNCHANGED threads
    BY <1>7 DEF Repeated
  <2> DEFINE o == Notify("completed", v[1], {v[2]})
  <2>2. \A t : ~Opens(o, t) /\ ~Removes(o, t)
    BY ServerTold
  <2>3. S = {o}
    OBVIOUS
  <2> HIDE DEF S, o
  <2> QED BY <1>2, <2>1, <2>2, <2>3
<1>8. ASSUME NEW t \in loaded \ sub, Unloaded(t) PROVE ThreadInv'
  <2> DEFINE S == {Notify("closed", t, {})}
  <2>1. Wrote(S) /\ loaded' = loaded \ {t} /\ sub' = sub
    BY <1>8 DEF Unloaded
  <2>2. \A m \in S : \A x : ~Opens(m, x) /\ (Removes(m, x) <=> x = t)
    BY ServerTold
  <2>3. \E m \in S : TRUE
    OBVIOUS
  <2> HIDE DEF S
  <2> QED BY <1>1, <2>1, <2>2, <2>3, ThreadWritten
<1>9. ASSUME NEW i, Wrote({Message("request", i, None, {})}), UNCHANGED threads
      PROVE  ThreadInv'
  <2> DEFINE S == {Message("request", i, None, {})}
  <2>1. \A m \in S : \A t : ~Opens(m, t) /\ ~Removes(m, t)
    BY ServerTold
  <2>2. Wrote(S)
    BY <1>9
  <2> HIDE DEF S
  <2> QED BY <1>2, <1>9, <2>1, <2>2
<1> QED BY <1>3, <1>4, <1>5, <1>6, <1>7, <1>8, <1>9 DEF ServerStep, TurnStarted, TurnTold

LEMMA ThreadStep == Typed /\ RequestInv /\ ThreadInv /\ [Next]_vars => ThreadInv'
<1>1. ASSUME ThreadInv, UNCHANGED vars PROVE ThreadInv'
  BY <1>1 DEF vars, observed, turns, threads, ThreadInv, ToldOpen, ToldRemoved, IsOpen, IsRemoval, MidIs, Pos, At
<1> QED BY <1>1, CopierThreads, ServerSteps, ServerThreads DEF Next

----------------------------------------------------------------------------
(* What is counted is finite.                                               *)

LEMMA CountsInit == Init => Counts
<1> SUFFICES ASSUME Init PROVE Counts
  OBVIOUS
<1>1. busy = {} /\ Recorded = {}
  BY DEF Init, Recorded
<1> QED BY <1>1, FS_EmptySet DEF Counts

LEMMA CountsStep == Typed /\ Counts /\ [Next]_vars => Counts'
<1> SUFFICES ASSUME Typed, Counts, [Next]_vars PROVE Counts'
  OBVIOUS
<1> USE DEF observed, turns, threads, serverVars, serverRest
<1>1. IsFiniteSet(busy) /\ IsFiniteSet(Recorded)
  BY DEF Counts
<1>2. ASSUME busy' = busy \/ (\E t : busy' \subseteq busy \cup {t}),
             Recorded' = Recorded \/ \E i : Recorded' \subseteq Recorded \cup {i}
      PROVE  Counts'
  <2>1. \A t : IsFiniteSet(busy \cup {t}) /\ IsFiniteSet(Recorded \cup {t})
    BY <1>1, FS_AddElement
  <2>2. IsFiniteSet(busy')
    BY <1>1, <1>2, <2>1, FS_Subset
  <2>3. IsFiniteSet(Recorded')
    BY <1>1, <1>2, <2>1, FS_Subset
  <2> QED BY <2>2, <2>3 DEF Counts
<1>3. CASE ObserveClient
  <2>1. PICK i \in Ids, k \in Kinds, t \in Threads : pending' = [pending EXCEPT ![i] = [kind |-> k, thread |-> t]]
    BY <1>3 DEF ObserveClient
  <2>2. \A j \in Ids : j # i => pending'[j] = pending[j]
    BY <2>1 DEF Typed
  <2>3. Recorded' \subseteq Recorded \cup {i}
    BY <2>2 DEF Recorded
  <2> QED BY <1>2, <1>3, <2>3 DEF ObserveClient
<1>4. CASE ObserveAnswer
  <2>1. \A j \in Ids : pending'[j] = pending[j] \/ pending'[j] = NoRequest
    BY <1>4 DEF ObserveAnswer, Typed
  <2>2. \A i : Recorded' \subseteq Recorded \cup {i}
    BY <2>1 DEF Recorded
  <2> QED BY <1>2, <1>4, <2>2 DEF ObserveAnswer
<1>5. CASE FinishRequest
  <2>1. Recorded' = Recorded
    BY <1>5 DEF FinishRequest, Recorded
  <2>2. busy' = busy \/ \E t : busy' \subseteq busy \cup {t}
    <3>1. CASE FinishOpen
      BY <3>1 DEF FinishOpen
    <3> QED BY <1>5, <3>1 DEF FinishRequest, FinishTurn, FinishRemove
  <2> QED BY <1>2, <2>1, <2>2
<1>6. CASE ObserveStarted \/ ObserveTerminal \/ ObserveStatus \/ ObserveClosed
  <2>1. Recorded' = Recorded
    BY <1>6 DEF ObserveStarted, ObserveTerminal, ObserveStatus, ObserveClosed, Recorded
  <2>2. busy' = busy \/ \E t : busy' \subseteq busy \cup {t}
    BY <1>6 DEF ObserveStarted, ObserveTerminal, ObserveStatus, ObserveClosed
  <2> QED BY <1>2, <2>1, <2>2
<1>7. CASE Serve \/ WriteAnswer \/ AnnounceTurn \/ ServerTurn \/ TurnEnds \/ RepeatTerminal \/ Unload \/ ServerRequest
  <2>1. UNCHANGED copierVars
    BY <1>7 DEF Serve, WriteAnswer, AnnounceTurn, ServerTurn, TurnEnds, RepeatTerminal, Unload, ServerRequest
  <2> QED BY <1>2, <2>1 DEF copierVars, Recorded
<1>8. CASE UNCHANGED vars
  BY <1>2, <1>8 DEF vars, Recorded
<1> QED BY <1>3, <1>4, <1>5, <1>6, <1>7, <1>8 DEF Next

----------------------------------------------------------------------------
(* The theorems.                                                            *)

LEMMA InvInit == Init => Inv
BY TypedInit, RequestInit, TurnInit, AnnouncedInit, MineInit, BusyInit, ThreadInit, CountsInit DEF Inv

LEMMA InvStep == ASSUME Ids \cap ServerIds = {} PROVE Inv /\ [Next]_vars => Inv'
BY TypedStep, RequestStep, TurnStep, AnnouncedStep, MineStep, BusyStep, ThreadStep, CountsStep DEF Inv

LEMMA Invariance == ASSUME Ids \cap ServerIds = {} PROVE Spec => []Inv
BY InvInit, InvStep, PTL DEF Spec

\* The three numbers that ActiveCount adds up are 0 when it is.
LEMMA NothingCounted ==
  ASSUME Inv
  PROVE  ActiveCount = 0 <=> /\ active = {}
                             /\ {t \in busy : ~\E w \in active : w[1] = t} = {}
                             /\ {i \in Ids : Counted(pending[i])} = {}
<1> DEFINE B == {t \in busy : ~\E w \in active : w[1] = t}
           P == {i \in Ids : Counted(pending[i])}
<1>1. IsFiniteSet(active)
  <2>1. active \subseteq used
    BY DEF Inv, Typed, TurnInv, Known
  <2>2. IsFiniteSet(used)
    BY DEF Inv, TurnInv
  <2> QED BY <2>1, <2>2, FS_Subset
<1>2. IsFiniteSet(B)
  <2>1. IsFiniteSet(busy) /\ B \subseteq busy
    BY DEF Inv, Counts
  <2> QED BY <2>1, FS_Subset
<1>3. IsFiniteSet(P)
  <2>1. P \subseteq Recorded
    BY DEF Counted, NoRequest, Recorded
  <2>2. IsFiniteSet(Recorded)
    BY DEF Inv, Counts
  <2> QED BY <2>1, <2>2, FS_Subset
<1>4. /\ Cardinality(active) \in Nat /\ Cardinality(B) \in Nat /\ Cardinality(P) \in Nat
  BY <1>1, <1>2, <1>3, FS_CardinalityType
<1>5. /\ Cardinality(active) = 0 <=> active = {}
      /\ Cardinality(B) = 0 <=> B = {}
      /\ Cardinality(P) = 0 <=> P = {}
  BY <1>1, <1>2, <1>3, FS_EmptySet
<1>6. ActiveCount = Cardinality(active) + Cardinality(B) + Cardinality(P)
  BY DEF ActiveCount
<1> HIDE DEF B, P
<1>7. ActiveCount = 0 <=> active = {} /\ B = {} /\ P = {}
  BY <1>4, <1>5, <1>6
<1> QED BY <1>7 DEF B, P

\* The observer's and the server's state keep their types, and the terminal set its capacity.
THEOREM ObserverTypeCorrect == Spec => []TypeOK
<1>1. Typed => TypeOK
  BY DEF Typed, TypeOK
<1> QED BY TypedInit, TypedStep, <1>1, PTL DEF Spec

\* While the observation is reliable and counts nothing, the only turn in progress that the client
\* asked for is one whose answer is just being read, between that answer's two critical sections;
\* any other of a thread it has open is still to be announced to it, or its answer to be recorded.
THEOREM NoTurnUncounted == ASSUME Ids \cap ServerIds = {} PROVE Spec => []TurnsCounted
<1>1. Inv => TurnsCounted
  <2> SUFFICES ASSUME Inv, ActiveCount = 0, NEW w \in running, ~Finishing(w, "turn")
               PROVE  /\ w \notin mine
                      /\ w[1] \in live \cap sub => Finishing(w, "open") \/ InTransit(w)
    BY DEF TurnsCounted
  <2>1. active = {} /\ \A i \in Ids : ~Counted(pending[i])
    BY NothingCounted
  <2>2. Carries(mid.answer, w) => Finishing(w, "open")
    <3> SUFFICES ASSUME Carries(mid.answer, w) PROVE Finishing(w, "open")
      OBVIOUS
    <3>1. mid.answer.type \in Answers /\ Answering(mid.request, mid.answer)
      BY NothingMid DEF Inv, RequestInv
    <3>2. mid.request.kind \in {"turn", "open"}
      BY <3>1 DEF Answering, Answers, Carries, Tells
    <3> QED BY <3>2 DEF Finishing, Answer, Carries, Tells
  <2>3. ~Owed(w)
    <3> SUFFICES ASSUME NEW r \in owed, w[2] \in r.turns PROVE FALSE
      BY DEF Owed
    <3>1. r.id \in Ids /\ IsOwed(r) /\ r.turns # {}
      BY DEF Inv, Typed, RequestInv
    <3> QED BY <2>1, <3>1 DEF IsOwed, Counted
  <2>4. \A n \in Pos : ~Answered(n, w)
    <3>1. \A n \in Pos : At(n).type = "result" => At(n).id \in Ids
      BY DEF Inv, RequestInv, Answers
    <3> QED BY <2>1, <3>1 DEF Answered, Counted
  <2>5. w \notin mine
    BY <2>1, <2>2, <2>3, <2>4 DEF Inv, MineInv, Finishing
  <2>6. w[1] \in sub => Finishing(w, "open") \/ InTransit(w)
    <3>1. w \notin untold
      BY <2>5 DEF Inv, Typed
    <3>2. w[1] \in sub => Carried(w) \/ Carries(mid.answer, w)
      BY <2>1, <2>2, <3>1 DEF Inv, AnnouncedInv
    <3>3. Carried(w) => InTransit(w)
      BY DEF Carried, Carries, Tells, InTransit, Pos, At
    <3> QED BY <2>2, <3>2, <3>3
  <2> QED BY <2>5, <2>6
<1> QED BY Invariance, <1>1, PTL

\* "Pending command execution also protects against idle reclamation": while a command has no
\* answer, the observer counts it.
THEOREM NoCommandUncounted == ASSUME Ids \cap ServerIds = {} PROVE Spec => []CommandsCounted
<1>1. Inv => CommandsCounted
  <2> SUFFICES ASSUME Inv, ActiveCount = 0 PROVE Commands = {}
    BY DEF CommandsCounted
  <2>1. \A i \in Ids : ~Counted(pending[i])
    BY NothingCounted
  <2>2. ASSUME NEW r \in asked, r.kind = "exec" PROVE FALSE
    <3>1. pending[r.id].kind = "exec" /\ r.id \in Ids
      BY <2>2, AskedKind DEF Inv, Typed
    <3> QED BY <2>1, <3>1 DEF Counted
  <2>3. ASSUME NEW r \in owed, r.turns = {} PROVE FALSE
    <3>1. pending[r.id].kind = "exec" /\ r.id \in Ids
      BY <2>3 DEF Inv, Typed, RequestInv, IsOwed
    <3> QED BY <2>1, <3>1 DEF Counted
  <2> QED BY <2>2, <2>3 DEF Commands
<1> QED BY Invariance, <1>1, PTL

LEMMA QuietState ==
  ASSUME Inv, Quiescent
  PROVE  /\ Pos = {} /\ mid = NotMid /\ active = {} /\ busy = {} /\ \A i \in Ids : pending[i] = NoRequest
<1>1. Pos = {} /\ mid = NotMid /\ running = {} /\ asked = {} /\ owed = {} /\ reliable
  BY DEF Quiescent, Pos
<1>2. active = {}
  <2>1. \A w \in active : w \in Threads \X Turns /\ Known(w)
    BY DEF Inv, Typed, Known
  <2>2. \A w : ~Ended(w)
    BY <1>1 DEF Ended
  <2> QED BY <1>1, <2>1, <2>2 DEF Inv, TurnInv
<1>3. busy = {}
  <2>1. \A t : ~Settles(0, t)
    BY <1>1 DEF Settles, TurnsOf
  <2> QED BY <2>1 DEF Inv, Typed, BusyInv
<1>4. \A i \in Ids : pending[i] = NoRequest
  BY <1>1 DEF Inv, RequestInv
<1> QED BY <1>1, <1>2, <1>3, <1>4

\* No work stays counted for ever: when there is nothing left to do or to observe, the
\* observer counts nothing.
THEOREM ObserverConverges == ASSUME Ids \cap ServerIds = {} PROVE Spec => []IdleConverges
<1>1. Inv => IdleConverges
  <2> SUFFICES ASSUME Inv, Quiescent PROVE ActiveCount = 0
    BY DEF IdleConverges
  <2>1. active = {} /\ busy = {} /\ \A i \in Ids : ~Counted(pending[i])
    BY QuietState DEF Counted, NoRequest
  <2> QED BY <2>1, NothingCounted
<1> QED BY Invariance, <1>1, PTL

\* Then the idle threads it knows are loaded, and all that this connection keeps loaded are
\* among them.
THEOREM ThreadsKnown == ASSUME Ids \cap ServerIds = {} PROVE Spec => []ThreadsConverge
<1>1. Inv => ThreadsConverge
  <2> SUFFICES ASSUME Inv, Quiescent PROVE sub \subseteq IdleThreads /\ IdleThreads \subseteq loaded
    BY DEF ThreadsConverge
  <2>1. Pos = {} /\ mid = NotMid /\ active = {} /\ busy = {}
    BY QuietState
  <2>2. \A ks, t : "none" \notin ks => ~MidIs(ks, t)
    BY <2>1 DEF MidIs, NotMid, NoRequest
  <2>3. \A t \in sub : t \in live
    BY <2>1, <2>2 DEF Inv, ThreadInv, ToldOpen, MidIs, NotMid, NoRequest
  <2>4. \A t \in Threads \ loaded : t \notin live
    BY <2>1, <2>2 DEF Inv, ThreadInv, ToldRemoved, MidIs, NotMid, NoRequest
  <2>5. IdleThreads = live /\ live \subseteq Threads
    BY <2>1 DEF IdleThreads, Inv, Typed
  <2> QED BY <2>3, <2>4, <2>5
<1> QED BY Invariance, <1>1, PTL

=============================================================================
