--------------------------- MODULE TakeoverProofs ---------------------------
(****************************************************************************)
(* Proofs about Takeover, for any managers and any timeout: types, the gate *)
(* time of a takeover, and what becomes of the requests it has sent and of  *)
(* the thread it has archived.                                              *)
(****************************************************************************)
EXTENDS Takeover, TLAPS

USE TakeoverAssumption DEF TakeoverAssumption

Phases == Running \cup {"new", "done", "killed"}

Clocks == [age : Nat, shared : Nat, until : Nat]

\* The types of what handling an answer changes.
Typed ==
    /\ pc \in [Managers -> Phases] /\ outcome \in [Managers -> Outcomes \cup {"none"}]
    /\ clock \in [Managers -> Clocks] /\ sent \subseteq Requests

----------------------------------------------------------------------------
(* Types.                                                                   *)

\* Moving on, asking and returning keep the types.
LEMMA Pieces ==
  ASSUME Typed, NEW m \in Managers
  PROVE  /\ \A w \in Phases : Goto(m, w) => /\ pc' \in [Managers -> Phases]
                                            /\ outcome' \in [Managers -> Outcomes \cup {"none"}]
         /\ \A to \in Runtimes, k \in {"read", "archive", "unarchive"} :
               Ask(m, to, k) => sent' \subseteq Requests
         /\ \A o \in Outcomes : Return(m, o) => Typed'
         /\ Leave(m, "killed") => pc' \in [Managers -> Phases] /\ clock' \in [Managers -> Clocks]
<1> USE DEF Typed
<1>1. ASSUME NEW w \in Phases, Goto(m, w)
      PROVE  pc' \in [Managers -> Phases] /\ outcome' \in [Managers -> Outcomes \cup {"none"}]
  BY <1>1 DEF Goto
<1>2. ASSUME NEW to \in Runtimes, NEW k \in {"read", "archive", "unarchive"}, Ask(m, to, k)
      PROVE  sent' \subseteq Requests
  BY <1>2 DEF Ask, Request, Requests
<1>3. NoClock \in Clocks
  BY DEF NoClock, Clocks
<1>4. ASSUME NEW o \in Outcomes, Return(m, o) PROVE Typed'
  BY <1>3, <1>4 DEF Return, Leave, Phases
<1>5. ASSUME Leave(m, "killed")
      PROVE  pc' \in [Managers -> Phases] /\ clock' \in [Managers -> Clocks]
  BY <1>3, <1>5 DEF Leave, Phases
<1> QED BY <1>1, <1>2, <1>4, <1>5

\* Handling an answer keeps the types, whatever the answer.
LEMMA HandleType ==
  ASSUME Typed, NEW m \in Managers, NEW a, Handle(m, a)
  PROVE  Typed'
<1>1. m \in Runtimes /\ Shared \in Runtimes
  BY DEF Runtimes
<1>2. {"greetShared", "archive", "unarchive", "pause", "rollback"} \subseteq Phases
  BY DEF Phases, Running, Waiting, Greeting, Asking
<1>3. {"AlreadyOwned", "TakenOver", "RefusedActive", "RefusedUnprovenStatus",
       "NoSharedOwner", "Failed", "FailedRolledBack", "FailedRollback"} \subseteq Outcomes
  BY DEF Outcomes
<1>4. clock[m] \in Clocks
  BY DEF Typed
<1> USE <1>1, <1>2, <1>3, Pieces
<1>5. CASE IsolatedRead(m, a)
  <2>1. CASE Goto(m, "greetShared") /\ UNCHANGED sent /\ clock' = [clock EXCEPT ![m].shared = Age(m)]
    <3>1. [clock[m] EXCEPT !.shared = clock[m].age] \in Clocks
      BY <1>4 DEF Clocks
    <3>2. clock' \in [Managers -> Clocks]
      BY <2>1, <3>1 DEF Typed, Age
    <3> QED BY <2>1, <3>2 DEF Typed
  <2> QED BY <1>5, <2>1 DEF IsolatedRead
<1>6. CASE SharedRead(m, a)
  <2>1. CASE Ask(m, Shared, "archive") /\ Goto(m, "archive") /\ UNCHANGED clock
    BY <2>1 DEF Typed
  <2> QED BY <1>6, <2>1 DEF SharedRead
<1>7. CASE ArchiveAnswered(m, a)
  <2>1. CASE /\ Ask(m, m, "unarchive") /\ Goto(m, "unarchive")
             /\ clock' = [clock EXCEPT ![m].until = Age(m) + Timeout]
    <3>1. [clock[m] EXCEPT !.until = clock[m].age + Timeout] \in Clocks
      BY <1>4 DEF Clocks
    <3>2. clock' \in [Managers -> Clocks]
      BY <2>1, <3>1 DEF Typed, Age
    <3> QED BY <2>1, <3>2 DEF Typed
  <2> QED BY <1>7, <2>1 DEF ArchiveAnswered
<1>8. CASE UnarchiveAnswered(m, a)
  <2>1. CASE Goto(m, "pause") /\ UNCHANGED <<clock, sent>>
    BY <2>1 DEF Typed
  <2>2. CASE Ask(m, Shared, "unarchive") /\ Goto(m, "rollback") /\ UNCHANGED clock
    BY <2>2 DEF Typed
  <2> QED BY <1>8, <2>1, <2>2 DEF UnarchiveAnswered
<1>9. CASE RollbackAnswered(m, a)
  BY <1>9 DEF RollbackAnswered
<1> QED BY <1>5, <1>6, <1>7, <1>8, <1>9 DEF Handle

\* A reply is an answer, whoever it is for.
LEMMA ReplyType ==
  ASSUME answer \in [Managers -> Answers \cup {"none"}], NEW q, NEW a \in Answers, Reply(q, a)
  PROVE  answer' \in [Managers -> Answers \cup {"none"}]
BY DEF Reply

LEMMA TypeIsTyped == TypeOK => Typed
BY DEF TypeOK, Typed, Phases, Clocks

\* Whatever the runtimes do, each variable keeps its type.
LEMMA ServeType ==
  ASSUME TypeOK, NEW q \in sent, Serve(q)
  PROVE  TypeOK'
<1>1. q.by \in Managers /\ q.to \in Runtimes
  BY DEF TypeOK, Requests
<1>2. \A a \in {Status(q.to), "unknown", "ok", "writer", "error"} : a \in Answers
  BY DEF Answers, Statuses, Status
<1>3. answer' \in [Managers -> Answers \cup {"none"}]
  BY <1>2, ReplyType DEF Serve, TypeOK
<1>4. /\ owner' \in Runtimes \cup {None} /\ writer' \in Runtimes \cup {None}
      /\ active' \in BOOLEAN /\ archived' \in BOOLEAN
  BY <1>1 DEF Serve, TypeOK, thread, Archive, Unarchive, Runtimes
<1>5. sent' \subseteq Requests
  BY DEF Serve, TypeOK
<1> QED BY <1>3, <1>4, <1>5 DEF Serve, TypeOK, manager

LEMMA TypeStep == TypeOK /\ [Next]_vars => TypeOK'
<1> SUFFICES ASSUME TypeOK, [Next]_vars PROVE TypeOK'
  OBVIOUS
<1>1. Typed
  BY TypeIsTyped
<1>2. Typed' /\ UNCHANGED <<thread, sawIdle, answer>> => TypeOK'
  BY DEF Typed, TypeOK, thread, Phases, Clocks
<1>3. ASSUME NEW m \in Managers, Begin(m) \/ Greeted(m) \/ Retry(m) PROVE TypeOK'
  <2>1. {"greetIsolated", "readIsolated", "readShared", "unarchive"} \subseteq Phases
    BY DEF Phases, Running, Waiting, Greeting, Asking
  <2>2. m \in Runtimes /\ Shared \in Runtimes
    BY DEF Runtimes
  <2>3. Typed'
    BY <1>1, <1>3, <2>1, <2>2, Pieces DEF Begin, Greeted, Retry, Typed
  <2> QED BY <1>2, <1>3, <2>3 DEF Begin, Greeted, Retry
<1>4. ASSUME NEW m \in Managers, Receive(m) PROVE TypeOK'
  <2>1. Typed'
    BY <1>1, <1>4, HandleType DEF Receive
  <2>2. answer' \in [Managers -> Answers \cup {"none"}] /\ sawIdle' \in [Managers -> BOOLEAN]
    BY <1>4 DEF Receive, TypeOK
  <2> QED BY <1>4, <2>1, <2>2 DEF Receive, Typed, TypeOK, thread, Phases, Clocks
<1>5. ASSUME NEW m \in Managers, Break(m) PROVE TypeOK'
  <2>1. Typed'
    <3>1. "Failed" \in Outcomes
      BY DEF Outcomes
    <3> QED BY <1>1, <1>5, <3>1, HandleType, Pieces DEF Break
  <2>2. answer' \in [Managers -> Answers \cup {"none"}]
    BY <1>5 DEF Break, TypeOK
  <2> QED BY <1>5, <2>1, <2>2 DEF Break, Typed, TypeOK, thread, Phases, Clocks
<1>6. ASSUME NEW m \in Managers, Kill(m) PROVE TypeOK'
  <2>1. pc' \in [Managers -> Phases] /\ clock' \in [Managers -> Clocks]
    BY <1>1, <1>6, Pieces DEF Kill
  <2>2. answer' \in [Managers -> Answers \cup {"none"}]
    BY <1>6 DEF Kill, TypeOK
  <2> QED BY <1>6, <2>1, <2>2 DEF Kill, TypeOK, thread, Phases, Clocks
<1>7. ASSUME Tick PROVE TypeOK'
  <2>1. \A m \in Managers : [clock[m] EXCEPT !.age = @ + 1] \in Clocks
    BY <1>1 DEF Typed, Clocks
  <2>2. clock' \in [Managers -> Clocks]
    BY <1>1, <1>7, <2>1 DEF Tick, Typed
  <2>3. pc' \in [Managers -> Phases]
    BY <1>1, <1>7 DEF Tick, Typed, Phases, Running
  <2> QED BY <1>7, <2>2, <2>3 DEF Tick, TypeOK, thread, Phases, Clocks
<1>8. ASSUME NEW q \in sent, Serve(q) PROVE TypeOK'
  BY <1>8, ServeType
<1>9. ASSUME ReleaseWriter \/ Work \/ \E r \in Runtimes : Resume(r) PROVE TypeOK'
  BY <1>9 DEF ReleaseWriter, Work, Resume, TypeOK, manager, Runtimes
<1>10. CASE UNCHANGED vars
  BY <1>10 DEF TypeOK, vars, manager, thread
<1> QED BY <1>3, <1>4, <1>5, <1>6, <1>7, <1>8, <1>9, <1>10 DEF Next

LEMMA TypeInit == Init => TypeOK
<1>1. NoClock \in Clocks
  BY DEF NoClock, Clocks
<1>2. Init => Typed
  BY <1>1 DEF Init, Typed, Phases
<1> QED BY <1>2 DEF Init, Typed, TypeOK, Phases, Clocks, Runtimes

\* For any managers and any timeout: the variables of managers, requests and runtimes keep
\* their types (the state of prepare_resume and RpcClient).
THEOREM TakeoverTypeCorrect == Spec => []TypeOK
BY TypeInit, TypeStep, PTL DEF Spec

----------------------------------------------------------------------------
(* The gate time.                                                           *)

\* Every deadline is within two lives of a client, and a pause begins before the isolated
\* client's.
AgeInv ==
    \A m \in Managers :
        /\ clock[m].age <= 2 * Timeout /\ clock[m].shared <= Timeout
        /\ pc[m] = "pause" => clock[m].age <= Timeout

LEMMA AgeStep == TypeOK /\ AgeInv /\ [Next]_vars => AgeInv'
<1> SUFFICES ASSUME TypeOK, AgeInv, [Next]_vars PROVE AgeInv'
  OBVIOUS
<1>1. Typed
  BY TypeIsTyped
<1> DEFINE Good(c, p) == /\ c.age <= 2 * Timeout /\ c.shared <= Timeout
                         /\ p = "pause" => c.age <= Timeout
<1>2. ASSUME NEW m \in Managers,
             \A o \in Managers \ {m} : pc'[o] = pc[o] /\ clock'[o] = clock[o],
             Good(clock'[m], pc'[m])
      PROVE  AgeInv'
  BY <1>2 DEF AgeInv
<1>3. NoClock.age <= 2 * Timeout /\ NoClock.shared <= Timeout /\ NoClock.age <= Timeout
  BY DEF NoClock
<1>4. \A m \in Managers : clock[m] \in Clocks /\ Good(clock[m], pc[m])
  BY <1>1 DEF AgeInv, Typed
<1>5. ASSUME NEW m \in Managers, NEW o, Return(m, o) PROVE AgeInv'
  BY <1>1, <1>2, <1>3, <1>5 DEF Return, Leave, Typed
<1>6. ASSUME NEW m \in Managers, NEW w, w # "pause", Goto(m, w), UNCHANGED clock PROVE AgeInv'
  BY <1>1, <1>2, <1>4, <1>6 DEF Goto, Typed
<1>7. ASSUME NEW m \in Managers, NEW a, Handle(m, a), a # "error", Age(m) <= Deadline(m)
      PROVE  AgeInv'
  <2>1. CASE IsolatedRead(m, a)
    <3>1. CASE Goto(m, "greetShared") /\ clock' = [clock EXCEPT ![m].shared = Age(m)]
      <4>1. clock[m].age <= Timeout
        BY <1>7, <2>1 DEF Deadline, Age, IsolatedRead
      <4>2. /\ clock'[m].age = clock[m].age /\ clock'[m].shared = clock[m].age
            /\ pc'[m] = "greetShared"
            /\ \A o \in Managers \ {m} : pc'[o] = pc[o] /\ clock'[o] = clock[o]
        BY <1>1, <1>4, <3>1 DEF Goto, Age, Typed, Clocks
      <4> QED BY <1>2, <1>4, <4>1, <4>2
    <3> QED BY <1>5, <2>1, <3>1 DEF IsolatedRead
  <2>2. CASE SharedRead(m, a)
    BY <1>5, <1>6, <2>2 DEF SharedRead
  <2>3. CASE ArchiveAnswered(m, a)
    <3>1. CASE Goto(m, "unarchive") /\ clock' = [clock EXCEPT ![m].until = Age(m) + Timeout]
      <4>1. /\ clock'[m].age = clock[m].age /\ clock'[m].shared = clock[m].shared
            /\ pc'[m] = "unarchive"
            /\ \A o \in Managers \ {m} : pc'[o] = pc[o] /\ clock'[o] = clock[o]
        BY <1>1, <1>4, <3>1 DEF Goto, Typed, Clocks
      <4> QED BY <1>2, <1>4, <4>1
    <3> QED BY <1>5, <2>3, <3>1 DEF ArchiveAnswered
  <2>4. CASE UnarchiveAnswered(m, a)
    <3>1. CASE Goto(m, "pause") /\ UNCHANGED clock
      <4>1. clock[m].age <= Timeout
        BY <1>7, <2>4 DEF Deadline, Age, UnarchiveAnswered
      <4> QED BY <1>1, <1>2, <1>4, <3>1, <4>1 DEF Goto, Typed
    <3> QED BY <1>5, <1>6, <2>4, <3>1 DEF UnarchiveAnswered
  <2>5. CASE RollbackAnswered(m, a)
    BY <1>5, <2>5 DEF RollbackAnswered
  <2> QED BY <1>7, <2>1, <2>2, <2>3, <2>4, <2>5 DEF Handle
<1>8. ASSUME NEW m \in Managers, Handle(m, "error") PROVE AgeInv'
  BY <1>5, <1>6, <1>8 DEF Handle, IsolatedRead, SharedRead, ArchiveAnswered, UnarchiveAnswered,
                          RollbackAnswered
<1>9. ASSUME NEW m \in Managers, Begin(m) \/ Greeted(m) \/ Retry(m) PROVE AgeInv'
  BY <1>6, <1>9 DEF Begin, Greeted, Retry
<1>10. ASSUME NEW m \in Managers, Receive(m) PROVE AgeInv'
  BY <1>7, <1>8, <1>10 DEF Receive
<1>11. ASSUME NEW m \in Managers, Break(m) PROVE AgeInv'
  BY <1>5, <1>8, <1>11 DEF Break
<1>12. ASSUME NEW m \in Managers, Kill(m) PROVE AgeInv'
  BY <1>1, <1>2, <1>3, <1>12 DEF Kill, Leave, Typed
<1>13. ASSUME Tick PROVE AgeInv'
  <2> SUFFICES ASSUME NEW m \in Managers PROVE Good(clock'[m], pc'[m])
    BY DEF AgeInv
  <2>1. CASE pc[m] \in Running
    <3>1. /\ clock'[m].age = clock[m].age + 1 /\ clock'[m].shared = clock[m].shared
          /\ pc'[m] # "pause"
      BY <1>1, <1>4, <1>13, <2>1 DEF Tick, Typed, Clocks
    <3>2. CASE pc[m] = "pause"
      BY <1>4, <3>1, <3>2 DEF Clocks
    <3>3. CASE Age(m) < Deadline(m)
      BY <1>4, <3>1, <3>3 DEF Age, Deadline, Clocks
    <3> QED BY <1>13, <2>1, <3>2, <3>3 DEF Tick
  <2>2. CASE pc[m] \notin Running
    BY <1>1, <1>4, <1>13, <2>2 DEF Tick, Typed, Running
  <2> QED BY <2>1, <2>2
<1>14. ASSUME \/ \E q \in sent : Serve(q)
              \/ ReleaseWriter \/ Work \/ \E r \in Runtimes : Resume(r)
              \/ UNCHANGED vars
       PROVE  AgeInv'
  BY <1>14 DEF Serve, ReleaseWriter, Work, Resume, vars, manager, AgeInv
<1> QED BY <1>9, <1>10, <1>11, <1>12, <1>13, <1>14 DEF Next

\* For any timeout a takeover keeps the forwarding gate for at most the lives of two clients
\* (RpcClient's deadlines and the loop of unarchive requests).
THEOREM TakeoverIsBounded == Spec => []TakeoverBounded
<1>1. Init => AgeInv
  <2> SUFFICES ASSUME Init, NEW m \in Managers
               PROVE  /\ clock[m].age <= 2 * Timeout /\ clock[m].shared <= Timeout
                      /\ pc[m] = "pause" => clock[m].age <= Timeout
    BY DEF AgeInv
  <2>1. NoClock.age = 0 /\ NoClock.shared = 0
    BY DEF NoClock
  <2>2. clock[m] = NoClock
    BY DEF Init
  <2> QED BY <2>1, <2>2
<1>2. AgeInv => TakeoverBounded
  BY DEF AgeInv, TakeoverBounded, Age
<1> QED BY <1>1, <1>2, TypeInit, TypeStep, AgeStep, PTL DEF Spec

----------------------------------------------------------------------------
(* The requests.                                                            *)

\* Who moves the thread was told that it is idle, and so was whoever asked for its archive;
\* an answer is one to the request in hand.
AskedInv ==
    /\ ArchiveNeedsIdle
    /\ \A m \in Managers : Moved(m) => sawIdle[m]
    /\ \A m \in Managers : answer[m] # "none" => pc[m] \in Asking

\* Where a manager is while its request to archive, or to unarchive, is not carried out: it
\* waits for the answer, has given it up, or was killed.
ArchiveOut(q) ==
    /\ q.to = Shared
    /\ \/ pc[q.by] = "archive" /\ answer[q.by] = "none"
       \/ pc[q.by] = "killed"
       \/ pc[q.by] = "done" /\ outcome[q.by] = "Failed"

UnarchiveOut(q) ==
    \/ pc[q.by] = "unarchive" /\ answer[q.by] = "none" /\ q.to = q.by
    \/ pc[q.by] \in {"rollback", "killed"}
    \/ pc[q.by] = "done" /\ outcome[q.by] \in {"FailedRolledBack", "FailedRollback"}

SentInv ==
    \A q \in sent : /\ q.kind = "archive" => ArchiveOut(q)
                    /\ q.kind = "unarchive" => UnarchiveOut(q)

\* The manager that has a thread in the archive on its conscience.
Traced(m) ==
    \/ pc[m] = "killed"
    \/ pc[m] = "done" /\ sawIdle[m] /\ outcome[m] \in {"Failed", "FailedRollback"}
    \/ Moved(m) /\ ~(pc[m] \in {"unarchive", "rollback"} /\ answer[m] = "ok")

LostInv == archived => \E m \in Managers : Traced(m)

RequestInv == AskedInv /\ SentInv /\ LostInv

\* A step of one manager m, which leaves the thread and the others' state alone and asks at most
\* for one thing more, keeps the invariants when it does so for m.
LEMMA OneManager ==
  ASSUME TypeOK, RequestInv, NEW m \in Managers, UNCHANGED thread,
         \A o \in Managers \ {m} : /\ pc'[o] = pc[o] /\ outcome'[o] = outcome[o]
                                   /\ answer'[o] = answer[o] /\ sawIdle'[o] = sawIdle[o],
         sawIdle[m] => sawIdle'[m],
         Moved(m)' => sawIdle'[m],
         answer'[m] # "none" => pc'[m] \in Asking,
         \A q \in sent' : q \in sent \/ q.by = m,
         \A q \in sent' : q.by = m => /\ q.kind = "archive" => ArchiveOut(q)' /\ sawIdle'[m]
                                      /\ q.kind = "unarchive" => UnarchiveOut(q)' /\ sawIdle'[m],
         Traced(m) => Traced(m)'
  PROVE  RequestInv'
<1>1. \A q \in sent : q.by \in Managers
  BY DEF TypeOK, Requests
<1>2. \A o \in Managers \ {m} : (Moved(o)' <=> Moved(o)) /\ (Traced(o)' <=> Traced(o))
  BY DEF Moved, Traced
<1>3. AskedInv'
  BY <1>1, <1>2 DEF RequestInv, AskedInv, ArchiveNeedsIdle
<1>4. SentInv'
  BY <1>1 DEF RequestInv, SentInv, ArchiveOut, UnarchiveOut
<1>5. LostInv'
  BY <1>2 DEF RequestInv, LostInv, thread
<1> QED BY <1>3, <1>4, <1>5 DEF RequestInv

LEMMA ReturnRequests ==
  ASSUME TypeOK, RequestInv, NEW m \in Managers, NEW o, Return(m, o), UNCHANGED thread,
         answer' = [answer EXCEPT ![m] = "none"],
         sawIdle[m] => sawIdle'[m], \A n \in Managers \ {m} : sawIdle'[n] = sawIdle[n],
         \A q \in sent : q.by = m => /\ q.kind = "archive" => o = "Failed"
                                     /\ q.kind = "unarchive" => o \in {"FailedRolledBack", "FailedRollback"},
         Traced(m) => sawIdle'[m] /\ o \in {"Failed", "FailedRollback"}
  PROVE  RequestInv'
<1>1. /\ pc' = [pc EXCEPT ![m] = "done"] /\ outcome' = [outcome EXCEPT ![m] = o] /\ sent' = sent
  BY DEF Return, Leave
<1>2. /\ pc'[m] = "done" /\ outcome'[m] = o /\ answer'[m] = "none"
      /\ \A n \in Managers \ {m} : pc'[n] = pc[n] /\ outcome'[n] = outcome[n] /\ answer'[n] = answer[n]
  BY <1>1 DEF TypeOK
<1>3. \A q \in sent : q.by = m =>
          /\ q.kind = "archive" => ArchiveOut(q)' /\ sawIdle'[m]
          /\ q.kind = "unarchive" => UnarchiveOut(q)' /\ sawIdle'[m]
  BY <1>2 DEF RequestInv, SentInv, AskedInv, ArchiveNeedsIdle, ArchiveOut, UnarchiveOut
<1> QED BY <1>1, <1>2, <1>3, OneManager DEF Moved, Traced

\* The handling of an answer that is no error, or of an error in its place.
LEMMA HandleRequests ==
  ASSUME TypeOK, RequestInv, NEW m \in Managers, NEW a, Handle(m, a),
         answer' = [answer EXCEPT ![m] = "none"], UNCHANGED thread,
         (a = answer[m] /\ a # "none") \/ a = "error",
         sawIdle' = [sawIdle EXCEPT ![m] = @ \/ (pc[m] = "readShared" /\ a = "idle")]
  PROVE  RequestInv'
<1>1. /\ answer'[m] = "none" /\ \A n \in Managers \ {m} : answer'[n] = answer[n]
      /\ sawIdle[m] => sawIdle'[m]
      /\ \A n \in Managers \ {m} : sawIdle'[n] = sawIdle[n]
  BY DEF TypeOK
<1>2. \A q \in sent : q.by = m =>
          /\ q.kind = "archive" => ArchiveOut(q) /\ sawIdle[m]
          /\ q.kind = "unarchive" => UnarchiveOut(q) /\ sawIdle[m]
  BY DEF RequestInv, SentInv, AskedInv, ArchiveNeedsIdle
<1>3. ASSUME NEW w, Goto(m, w)
      PROVE  /\ pc'[m] = w /\ outcome' = outcome
             /\ \A n \in Managers \ {m} : pc'[n] = pc[n]
  BY <1>3 DEF Goto, TypeOK
<1>4. ASSUME NEW to, NEW k, Ask(m, to, k)
      PROVE  \A q \in sent' : q \in sent \/ (q.by = m /\ q.to = to /\ q.kind = k)
  BY <1>4 DEF Ask, Request
<1>5. ASSUME NEW o, Return(m, o),
             \A q \in sent : q.by = m => /\ q.kind = "archive" => o = "Failed"
                                         /\ q.kind = "unarchive" => o \in {"FailedRolledBack", "FailedRollback"},
             Traced(m) => sawIdle'[m] /\ o \in {"Failed", "FailedRollback"}
      PROVE  RequestInv'
  BY <1>1, <1>5, ReturnRequests
<1>6. ASSUME pc[m] \in {"readIsolated", "readShared"}
      PROVE  /\ ~Traced(m)
             /\ \A q \in sent : q.by = m => q.kind \notin {"archive", "unarchive"}
  BY <1>2, <1>6 DEF Traced, Moved, ArchiveOut, UnarchiveOut
<1>7. ASSUME Moved(m)
      PROVE  sawIdle[m] /\ sawIdle'[m]
  BY <1>1, <1>7 DEF RequestInv, AskedInv
<1>8. CASE IsolatedRead(m, a)
  <2>1. CASE Goto(m, "greetShared") /\ UNCHANGED sent
    BY <1>1, <1>3, <1>6, <1>8, <2>1, OneManager DEF IsolatedRead, Moved
  <2>2. ASSUME NEW o, Return(m, o) PROVE RequestInv'
    BY <1>5, <1>6, <1>8, <2>2 DEF IsolatedRead
  <2> QED BY <1>8, <2>1, <2>2 DEF IsolatedRead
<1>9. CASE SharedRead(m, a)
  <2>1. CASE a = "idle" /\ Ask(m, Shared, "archive") /\ Goto(m, "archive")
    <3>1. sawIdle'[m]
      BY <1>9, <2>1 DEF SharedRead, TypeOK
    <3>2. \A q \in sent' : q.by = m => /\ q.kind = "archive" => ArchiveOut(q)'
                                       /\ q.kind # "unarchive"
      BY <1>1, <1>3, <1>4, <1>6, <1>9, <2>1 DEF SharedRead, ArchiveOut
    <3> QED BY <1>1, <1>3, <1>4, <1>6, <1>9, <2>1, <3>1, <3>2, OneManager DEF SharedRead, Asking
  <2>2. ASSUME NEW o, Return(m, o) PROVE RequestInv'
    BY <1>5, <1>6, <1>9, <2>2 DEF SharedRead
  <2> QED BY <1>9, <2>1, <2>2 DEF SharedRead
<1>10. CASE ArchiveAnswered(m, a)
  <2>1. Moved(m) /\ \A q \in sent : q.by = m => q.kind # "unarchive"
    BY <1>2, <1>10 DEF ArchiveAnswered, Moved, UnarchiveOut
  <2>2. CASE a = "ok" /\ Ask(m, m, "unarchive") /\ Goto(m, "unarchive")
    <3>1. \A q \in sent' : q.by = m => /\ q.kind # "archive"
                                       /\ q.kind = "unarchive" => UnarchiveOut(q)'
      BY <1>1, <1>2, <1>3, <1>4, <1>10, <2>1, <2>2 DEF ArchiveAnswered, ArchiveOut, UnarchiveOut
    <3> QED BY <1>1, <1>3, <1>4, <1>7, <2>1, <2>2, <3>1, OneManager DEF Traced, Moved
  <2>3. CASE Return(m, "Failed")
    BY <1>5, <1>7, <2>1, <2>3
  <2> QED BY <1>10, <2>2, <2>3 DEF ArchiveAnswered
<1>11. CASE UnarchiveAnswered(m, a)
  <2>1. Moved(m) /\ \A q \in sent : q.by = m => q.kind # "archive"
    BY <1>2, <1>11 DEF UnarchiveAnswered, Moved, ArchiveOut
  <2>2. a # "error" => ~\E q \in sent : q.by = m /\ q.kind = "unarchive"
    BY <1>2, <1>11 DEF UnarchiveAnswered, UnarchiveOut
  <2>3. CASE a = "ok" /\ Return(m, "TakenOver")
    <3>1. ~Traced(m)
      BY <1>11, <2>3 DEF UnarchiveAnswered, Traced
    <3> QED BY <1>5, <2>1, <2>2, <2>3, <3>1
  <2>4. CASE a = "writer" /\ Goto(m, "pause") /\ UNCHANGED sent
    BY <1>1, <1>3, <1>7, <2>1, <2>2, <2>4, OneManager DEF Traced, Moved
  <2>5. CASE Ask(m, Shared, "unarchive") /\ Goto(m, "rollback")
    <3>1. \A q \in sent' : q.by = m => /\ q.kind # "archive"
                                       /\ UnarchiveOut(q)'
      BY <1>3, <1>4, <2>1, <2>5 DEF UnarchiveOut
    <3> QED BY <1>1, <1>3, <1>4, <1>7, <2>1, <2>5, <3>1, OneManager DEF Traced, Moved
  <2> QED BY <1>11, <2>3, <2>4, <2>5 DEF UnarchiveAnswered
<1>12. CASE RollbackAnswered(m, a)
  <2>1. Moved(m) /\ \A q \in sent : q.by = m => q.kind # "archive"
    BY <1>2, <1>12 DEF RollbackAnswered, Moved, ArchiveOut
  <2>2. CASE a = "ok" /\ Return(m, "FailedRolledBack")
    <3>1. ~Traced(m)
      BY <1>12, <2>2 DEF RollbackAnswered, Traced
    <3> QED BY <1>5, <2>1, <2>2, <3>1
  <2>3. CASE Return(m, "FailedRollback")
    BY <1>5, <1>7, <2>1, <2>3
  <2> QED BY <1>12, <2>2, <2>3 DEF RollbackAnswered
<1> QED BY <1>8, <1>9, <1>10, <1>11, <1>12 DEF Handle

\* A request that is carried out, whoever waits for it.
LEMMA ServeRequests ==
  ASSUME TypeOK, RequestInv, NEW q \in sent, Serve(q)
  PROVE  RequestInv'
<1>1. PICK a \in Answers : Reply(q, a)
  BY DEF Serve, Answers, Statuses, Status
<1>2. /\ q \in Requests /\ q.by \in Managers /\ sent' = sent \ {q} /\ UNCHANGED manager
      /\ answer' = answer \/ (Awaited(q.by) = q /\ pc[q.by] \in Asking
                              /\ answer' = [answer EXCEPT ![q.by] = a] /\ a # "none")
  BY <1>1 DEF Serve, Reply, TypeOK, Requests, Answers, Statuses
<1>3. AskedInv'
  BY <1>2 DEF RequestInv, AskedInv, ArchiveNeedsIdle, Moved, manager, TypeOK
<1>4. SentInv'
  <2> SUFFICES ASSUME NEW o \in sent'
               PROVE  /\ o.kind = "archive" => ArchiveOut(o)'
                      /\ o.kind = "unarchive" => UnarchiveOut(o)'
    BY DEF SentInv
  <2>1. /\ o \in sent /\ o # q /\ o \in Requests
        /\ o.kind = "archive" => ArchiveOut(o)
        /\ o.kind = "unarchive" => UnarchiveOut(o)
    BY <1>2 DEF RequestInv, SentInv, TypeOK
  <2>2. CASE answer'[o.by] = answer[o.by]
    BY <1>2, <2>1, <2>2 DEF ArchiveOut, UnarchiveOut, manager
  <2>3. CASE answer'[o.by] # answer[o.by]
    <3>1. o.by = q.by /\ Awaited(q.by) = q
      BY <1>2, <2>1, <2>3 DEF TypeOK, Requests
    <3>2. ~(pc[o.by] = "archive" /\ o.kind = "archive" /\ o.to = Shared)
      BY <1>2, <2>1, <3>1 DEF Awaited, Request, Requests
    <3>3. ~(pc[o.by] = "unarchive" /\ o.kind = "unarchive" /\ o.to = o.by)
      BY <1>2, <2>1, <3>1 DEF Awaited, Request, Requests
    <3> QED BY <1>2, <2>1, <3>2, <3>3 DEF ArchiveOut, UnarchiveOut, manager
  <2> QED BY <2>2, <2>3
<1>5. LostInv'
  <2>1. CASE q.kind = "archive" /\ Archive
    <3>1. sawIdle[q.by] /\ ArchiveOut(q)
      BY <1>2, <2>1 DEF RequestInv, AskedInv, ArchiveNeedsIdle, SentInv
    <3>2. Traced(q.by)'
      BY <1>2, <3>1 DEF ArchiveOut, Traced, Moved, manager
    <3> QED BY <1>2, <3>2 DEF LostInv
  <2>2. CASE Unarchive(q.to)
    BY <2>2 DEF Unarchive, LostInv
  <2>3. CASE UNCHANGED thread /\ \E b \in {Status(q.to), "unknown", "writer", "error"} : Reply(q, b)
    <3>1. PICK b \in {Status(q.to), "unknown", "writer", "error"} : Reply(q, b)
      BY <2>3
    <3>2. b # "ok"
      BY <3>1 DEF Status
    <3>3. \A m \in Managers : Traced(m) => Traced(m)'
      BY <1>2, <3>1, <3>2 DEF Traced, Moved, Reply, manager, TypeOK
    <3> QED BY <2>3, <3>3 DEF LostInv, RequestInv, thread
  <2> QED BY <2>1, <2>2, <2>3 DEF Serve
<1> QED BY <1>3, <1>4, <1>5 DEF RequestInv

LEMMA RequestStep == TypeOK /\ RequestInv /\ [Next]_vars => RequestInv'
<1> SUFFICES ASSUME TypeOK, RequestInv, [Next]_vars PROVE RequestInv'
  OBVIOUS
<1>1. ASSUME NEW m \in Managers, NEW w, Goto(m, w)
      PROVE  /\ pc'[m] = w /\ outcome' = outcome
             /\ \A n \in Managers \ {m} : pc'[n] = pc[n]
  BY <1>1 DEF Goto, TypeOK
<1>2. \A m \in Managers : \A q \in sent : q.by = m =>
          /\ q.kind = "archive" => ArchiveOut(q) /\ sawIdle[m]
          /\ q.kind = "unarchive" => UnarchiveOut(q) /\ sawIdle[m]
  BY DEF RequestInv, SentInv, AskedInv, ArchiveNeedsIdle
<1>3. \A m \in Managers : answer[m] # "none" => pc[m] \in Asking
  BY DEF RequestInv, AskedInv
<1>4. ASSUME NEW m \in Managers, Begin(m) PROVE RequestInv'
  BY <1>1, <1>2, <1>3, <1>4, OneManager
     DEF Begin, ArchiveOut, UnarchiveOut, Traced, Moved, Asking
<1>5. ASSUME NEW m \in Managers, Greeted(m) PROVE RequestInv'
  <2>1. pc[m] \in Greeting /\ pc'[m] \in {"readIsolated", "readShared"} /\ answer[m] = "none"
        /\ \A n \in Managers \ {m} : pc'[n] = pc[n]
    BY <1>1, <1>3, <1>5 DEF Greeted, Greeting, Asking
  <2>2. \A q \in sent' : q.by = m => q.kind \notin {"archive", "unarchive"}
    BY <1>2, <1>5, <2>1 DEF Greeted, Ask, Request, Greeting, ArchiveOut, UnarchiveOut
  <2>3. \A q \in sent' : q \in sent \/ q.by = m
    BY <1>5 DEF Greeted, Ask, Request
  <2> QED BY <1>1, <1>5, <2>1, <2>2, <2>3, OneManager DEF Greeted, Traced, Moved, Greeting, Asking, Goto
<1>6. ASSUME NEW m \in Managers, Retry(m) PROVE RequestInv'
  <2>1. pc[m] = "retry" /\ pc'[m] = "unarchive" /\ answer[m] = "none" /\ sawIdle[m]
    BY <1>1, <1>3, <1>6 DEF Retry, Asking, RequestInv, AskedInv, Moved
  <2>2. \A q \in sent' : q \in sent \/ (q.by = m /\ q.to = m /\ q.kind = "unarchive")
    BY <1>6 DEF Retry, Ask, Request
  <2>3. \A q \in sent' : q.by = m => q.kind # "archive" /\ (q.kind = "unarchive" => UnarchiveOut(q)')
    BY <1>2, <1>6, <2>1, <2>2 DEF Retry, ArchiveOut, UnarchiveOut
  <2> QED BY <1>1, <1>6, <2>1, <2>2, <2>3, OneManager DEF Retry, Traced, Moved
<1>7. ASSUME NEW m \in Managers, Receive(m) PROVE RequestInv'
  BY <1>7, HandleRequests DEF Receive
<1>8. ASSUME NEW m \in Managers, Break(m) PROVE RequestInv'
  <2>1. CASE pc[m] \in Greeting
    <3>1. Return(m, "Failed") /\ answer' = [answer EXCEPT ![m] = "none"]
          /\ sawIdle' = sawIdle /\ thread' = thread
      BY <1>8, <2>1 DEF Break
    <3>2. \A q \in sent : q.by = m => q.kind \notin {"archive", "unarchive"}
      BY <1>2, <2>1 DEF Greeting, ArchiveOut, UnarchiveOut
    <3>3. ~ Traced(m)
      BY <2>1 DEF Greeting, Moved, Traced
    <3>4. (sawIdle[m] => sawIdle'[m]) /\ \A n \in Managers \ {m} : sawIdle'[n] = sawIdle[n]
      BY <3>1
    <3>5. \A q \in sent : q.by = m =>
              /\ q.kind = "archive" => "Failed" = "Failed"
              /\ q.kind = "unarchive" => "Failed" \in {"FailedRolledBack", "FailedRollback"}
      BY <3>2
    <3>6. UNCHANGED thread
      BY <3>1
    <3> QED BY <3>1, <3>3, <3>4, <3>5, <3>6, ReturnRequests
  <2>2. CASE pc[m] \notin Greeting
    <3>1. sawIdle' = [sawIdle EXCEPT ![m] = @ \/ (pc[m] = "readShared" /\ "error" = "idle")]
      BY <1>8 DEF Break, TypeOK
    <3> QED BY <1>8, <2>2, <3>1, HandleRequests DEF Break
  <2> QED BY <2>1, <2>2
<1>9. ASSUME NEW m \in Managers, Kill(m) PROVE RequestInv'
  <2>1. /\ pc'[m] = "killed" /\ answer'[m] = "none"
        /\ \A n \in Managers \ {m} : pc'[n] = pc[n] /\ answer'[n] = answer[n]
    BY <1>9 DEF Kill, Leave, TypeOK
  <2>2. \A q \in sent : q.by = m => /\ q.kind = "archive" => ArchiveOut(q)' /\ sawIdle[m]
                                    /\ q.kind = "unarchive" => UnarchiveOut(q)' /\ sawIdle[m]
    BY <1>2, <2>1 DEF ArchiveOut, UnarchiveOut
  <2> QED BY <1>9, <2>1, <2>2, OneManager DEF Kill, Traced, Moved
<1>10. ASSUME Tick PROVE RequestInv'
  <2>1. \A m \in Managers : /\ pc[m] # "pause" => pc'[m] = pc[m]
                            /\ pc[m] = "pause" => pc'[m] = "retry"
    BY <1>10 DEF Tick, TypeOK
  <2>2. \A m \in Managers : (Moved(m)' <=> Moved(m)) /\ (Traced(m)' <=> Traced(m))
    BY <1>10, <2>1 DEF Tick, Moved, Traced
  <2>3. \A q \in sent : q.by \in Managers
    BY DEF TypeOK, Requests
  <2>4. AskedInv'
    BY <1>10, <2>1, <2>2 DEF Tick, RequestInv, AskedInv, ArchiveNeedsIdle, Asking
  <2>5. SentInv'
    BY <1>10, <2>1, <2>3 DEF Tick, RequestInv, SentInv, ArchiveOut, UnarchiveOut
  <2>6. LostInv'
    BY <1>10, <2>2 DEF Tick, RequestInv, LostInv, thread
  <2> QED BY <2>4, <2>5, <2>6 DEF RequestInv
<1>11. ASSUME NEW q \in sent, Serve(q) PROVE RequestInv'
  BY <1>11, ServeRequests
<1>12. ASSUME ReleaseWriter \/ Work \/ (\E r \in Runtimes : Resume(r)) \/ UNCHANGED vars
       PROVE  RequestInv'
  <2>1. UNCHANGED <<manager, answer, sent, archived>>
    BY <1>12 DEF ReleaseWriter, Work, Resume, vars, thread
  <2> QED BY <2>1 DEF RequestInv, AskedInv, SentInv, LostInv, ArchiveNeedsIdle, ArchiveOut,
                      UnarchiveOut, Traced, Moved, manager
<1> QED BY <1>4, <1>5, <1>6, <1>7, <1>8, <1>9, <1>10, <1>11, <1>12 DEF Next

LEMMA RequestInit == Init => RequestInv
BY DEF Init, RequestInv, AskedInv, SentInv, LostInv, ArchiveNeedsIdle, Moved

\* For any managers: no thread is asked to be archived that the shared runtime did not call
\* idle, whatever it answers or fails to answer (the match on thread_status).
THEOREM IdleIsAskedFirst == Spec => []ArchiveNeedsIdle
<1>1. RequestInv => ArchiveNeedsIdle
  BY DEF RequestInv, AskedInv
<1> QED BY <1>1, TypeInit, TypeStep, RequestInit, RequestStep, PTL DEF Spec

\* For any managers, however their requests are delayed or refused and whoever is killed: an
\* archived thread has a manager that is still at it, was killed, or says that it failed.
THEOREM NoThreadIsLost == Spec => []NoThreadLost
<1>1. TypeOK /\ RequestInv => NoThreadLost
  BY DEF RequestInv, LostInv, NoThreadLost, Traced
<1> QED BY <1>1, TypeInit, TypeStep, RequestInit, RequestStep, PTL DEF Spec

\* For any managers: what is carried out after its manager has returned moves nothing after a
\* success or a refusal, and archives nothing but after Failed.
THEOREM LateRequestsAreTold == Spec => LateRequests
<1>1. TypeOK /\ RequestInv /\ [Next]_vars =>
        [\A m \in Managers, q \in sent \ sent' :
           q.by = m /\ pc[m] = "done" /\ archived' # archived =>
              /\ outcome[m] \in {"Failed", "FailedRolledBack", "FailedRollback"}
              /\ archived' => outcome[m] = "Failed"]_vars
  <2> SUFFICES ASSUME TypeOK, RequestInv, [Next]_vars,
                      NEW m \in Managers, NEW q \in sent \ sent',
                      q.by = m, pc[m] = "done", archived' # archived
               PROVE  /\ outcome[m] \in {"Failed", "FailedRolledBack", "FailedRollback"}
                      /\ archived' => outcome[m] = "Failed"
    OBVIOUS
  <2>1. PICK o \in sent : Serve(o)
    BY DEF Next, vars, thread, Tick, ReleaseWriter, Work, Begin, Greeted, Receive, Break, Retry, Kill, Resume
  <2>2. o = q
    BY <2>1 DEF Serve
  <2>3. \/ q.kind = "archive" /\ Archive
        \/ q.kind = "unarchive" /\ Unarchive(q.to)
    BY <2>1, <2>2 DEF Serve, thread
  <2>4. /\ q.kind = "archive" => ArchiveOut(q)
        /\ q.kind = "unarchive" => UnarchiveOut(q)
    BY DEF RequestInv, SentInv
  <2> QED BY <2>3, <2>4 DEF ArchiveOut, UnarchiveOut, Unarchive
<1> QED BY <1>1, TypeInit, TypeStep, RequestInit, RequestStep, PTL DEF Spec, LateRequests

=============================================================================
