--------------------------- MODULE OwnershipProofs ---------------------------
(****************************************************************************)
(* Proofs about Ownership, for every number of processes and every set of   *)
(* failures: the type invariant, the single-worker, single-writer and stop  *)
(* invariants through an inductive invariant, and the step simulation that  *)
(* makes Ownership an implementation of SessionFence.                       *)
(****************************************************************************)
EXTENDS Ownership, TLAPS

\* Every variable keeps its type.
THEOREM TypeCorrect == Spec => []TypeOK
<1> USE DEF TypeOK, Processes, PcStates, OwnerStates, GuardianStates, WorkerStates
<1>1. Init => TypeOK
  BY DEF Init
<1>2. TypeOK /\ [Next]_vars => TypeOK'
  <2> SUFFICES ASSUME TypeOK, [Next]_vars PROVE TypeOK'
    OBVIOUS
  <2> USE DEF ownerVars, clientVars, guardianFrame, Goto, Leave, Become, GuardBecomes
  <2>1. ASSUME NEW p \in Processes, TakeStartup(p) \/ ProcessKilled(p) PROVE TypeOK'
    BY <2>1 DEF TakeStartup, ProcessKilled
  <2>2. ASSUME NEW c \in Clients, ClientStep(c) PROVE TypeOK'
    <3>1. CASE AttachConnect(c) BY <3>1 DEF AttachConnect, Connected, Listening
    <3>2. CASE AttachFence(c) BY <3>2 DEF AttachFence
    <3>3. CASE AttachSpawn(c) BY <3>3 DEF AttachSpawn
    <3>4. CASE AttachWait(c) BY <3>4 DEF AttachWait, Connected, Listening
    <3>5. CASE AttachAck(c) BY <3>5 DEF AttachAck
    <3> QED BY <2>2, <3>1, <3>2, <3>3, <3>4, <3>5 DEF ClientStep
  <2>3. ASSUME NEW c \in Clients, ClientEnds(c) \/ ProxyExits(c) PROVE TypeOK'
    BY <2>3 DEF ClientEnds, ProxyExits
  <2>4. ASSUME NEW s \in Stoppers, StopStep(s) PROVE TypeOK'
    <3>1. CASE StopAsk(s) BY <3>1 DEF StopAsk
    <3>2. CASE StopPoll(s) BY <3>2 DEF StopPoll
    <3>3. CASE StopReturn(s) BY <3>3 DEF StopReturn
    <3> QED BY <2>4, <3>1, <3>2, <3>3 DEF StopStep
  <2>5. ASSUME NEW o \in Owners, OwnerStep(o) PROVE TypeOK'
    <3>1. CASE OwnerLocks(o) BY <3>1 DEF OwnerLocks
    <3>2. CASE OwnerSpawnsGuardian(o) BY <3>2 DEF OwnerSpawnsGuardian
    <3>3. CASE OwnerReadsReadiness(o) BY <3>3 DEF OwnerReadsReadiness
    <3>4. CASE OwnerServes(o) BY <3>4 DEF OwnerServes
    <3>5. CASE OwnerDetaches(o) BY <3>5 DEF OwnerDetaches, DropAttachments, Active
    <3>6. CASE OwnerAccepts(o) BY <3>6 DEF OwnerAccepts
    <3>7. CASE OwnerBreaks(o)
      BY <3>7 DEF OwnerBreaks, OwnerTeardown, DropAttachments, Disconnected, Active
    <3>8. CASE OwnerReaps(o) BY <3>8 DEF OwnerReaps
    <3> QED BY <2>5, <3>1, <3>2, <3>3, <3>4, <3>5, <3>6, <3>7, <3>8 DEF OwnerStep
  <2>6. ASSUME NEW o \in Owners, OwnerExpires(o) \/ OwnerKilled(o) PROVE TypeOK'
    <3>1. CASE OwnerExpires(o)
      BY <3>1 DEF OwnerExpires, OwnerTeardown, DropAttachments, Disconnected, Active
    <3>2. CASE OwnerKilled(o) BY <3>2 DEF OwnerKilled, Disconnected
    <3> QED BY <2>6, <3>1, <3>2
  <2>7. ASSUME NEW o \in Owners, GuardianStep(o) \/ GuardianKilled(o) \/ ServerExits(o)
        PROVE TypeOK'
    <3>1. CASE GuardianSpawnsServer(o) BY <3>1 DEF GuardianSpawnsServer
    <3>2. CASE GuardianReports(o) BY <3>2 DEF GuardianReports
    <3>3. CASE GuardianGivesUp(o) BY <3>3 DEF GuardianGivesUp
    <3>4. CASE GuardianSeesBootExit(o) BY <3>4 DEF GuardianSeesBootExit
    <3>5. CASE GuardianReaps(o) BY <3>5 DEF GuardianReaps, WithoutProxies
    <3>6. CASE GuardianExits(o) BY <3>6 DEF GuardianExits
    <3>7. CASE GuardianKilled(o) BY <3>7 DEF GuardianKilled
    <3>8. CASE ServerExits(o) BY <3>8 DEF ServerExits
    <3> QED BY <2>7, <3>1, <3>2, <3>3, <3>4, <3>5, <3>6, <3>7, <3>8 DEF GuardianStep
  <2>8. CASE UNCHANGED vars
    BY <2>8 DEF vars
  <2> QED BY <2>1, <2>2, <2>3, <2>4, <2>5, <2>6, <2>7, <2>8 DEF Next
<1> QED BY <1>1, <1>2, PTL DEF Spec

----------------------------------------------------------------------------
(* The inductive invariant                                                  *)

\* startup.lock is with the one process between taking it and returning or attaching.
InStartup == {"connect", "fence", "probing", "wait", "ack", "ask", "poll", "hold"}

StartupInv == \A p \in Processes : pc[p] \in InStartup => startup = p

\* Only an attach process attaches and only a stop process stops.
RoleInv ==
    /\ \A c \in Clients : pc[c] \notin {"ask", "poll", "hold", "stopped"}
    /\ \A s \in Stoppers : pc[s] \in {"idle", "ask", "poll", "hold", "stopped", "gone"}

\* owner.lock has one holder: an owner with its guardian, or a probe.
FenceInv ==
    /\ \A o, p \in Owners : FenceHeld(o) /\ FenceHeld(p) => o = p
    /\ \A p \in Processes, o \in Owners : ~(Probing(p) /\ FenceHeld(o))

\* How far owner, guardian and worker can be apart.
LifeInv == \A o \in Owners :
    /\ owner[o] \in {"unborn", "spawned", "locked"} => guardian[o] = "none"
    /\ owner[o] \in {"binding", "serving", "closing", "signal", "leaving"} => ready[o]
    /\ owner[o] \in {"signal", "leaving"} => GuardianExited(o)
    /\ owner[o] = "exited" => guardian[o] = "none" \/ GuardianExited(o)
    /\ guardian[o] \in {"none", "prep"} => worker[o] = "none"
    /\ guardian[o] \in {"booting", "ready"} => worker[o] # "none"
    /\ guardian[o] \in {"reaped", "ok"} => worker[o] = "gone"
    /\ guardian[o] \in {"none", "prep", "booting", "failed"} => ~ready[o]
    /\ guardian[o] \in {"ready", "ok"} => ready[o]
    /\ ready[o] => worker[o] # "none"
    /\ owner[o] = "leaving" \/ (owner[o] = "exited" /\ ready[o])
         => worker[o] \notin Live \/ Unfound(o)

\* One grant per owner, one proxy per grant; proxies outlive the grant only with a killed owner.
ProxyInv ==
    /\ \A c \in Clients : pc[c] \in {"idle", "connect", "fence", "probing", "wait"} => link[c] = "none"
    /\ \A c \in Clients : proxyOf[c] # None =>
        /\ target[c] = proxyOf[c]
        /\ ready[proxyOf[c]]
        /\ link[c] = "granted" \/ (link[c] = "closed" /\ owner[proxyOf[c]] = "killed")
    /\ \A c \in Clients : link[c] = "granted" => target[c] \in Owners /\ owner[target[c]] = "serving"
    /\ \A c, d \in Clients : link[c] = "granted" /\ link[d] = "granted" /\ target[c] = target[d] => c = d
    /\ \A c, d \in Clients : proxyOf[c] # None /\ proxyOf[c] = proxyOf[d] => c = d

IInv == TypeOK /\ StartupInv /\ RoleInv /\ FenceInv /\ LifeInv /\ ProxyInv

\* Owners and guardians never touch the attach and stop processes.
LEMMA OwnerFrame ==
  ASSUME NEW o \in Owners,
         OwnerStep(o) \/ OwnerExpires(o) \/ OwnerKilled(o)
           \/ GuardianStep(o) \/ GuardianKilled(o) \/ ServerExits(o)
  PROVE  UNCHANGED clientVars
<1>1. CASE OwnerStep(o)
  BY <1>1 DEF OwnerStep, OwnerLocks, OwnerSpawnsGuardian, OwnerReadsReadiness, OwnerServes,
       OwnerDetaches, OwnerAccepts, OwnerBreaks, OwnerReaps, OwnerTeardown
<1>2. CASE GuardianStep(o)
  BY <1>2 DEF GuardianStep, GuardianSpawnsServer, GuardianReports, GuardianGivesUp,
       GuardianSeesBootExit, GuardianReaps, GuardianExits, guardianFrame
<1> QED BY <1>1, <1>2 DEF OwnerExpires, OwnerTeardown, OwnerKilled, GuardianKilled, ServerExits,
       guardianFrame

\* startup.lock passes from one process to another only through None.
LEMMA StartupStep == IInv /\ [Next]_vars => StartupInv'
<1> SUFFICES ASSUME IInv, [Next]_vars PROVE StartupInv'
  OBVIOUS
<1> USE DEF IInv, TypeOK, StartupInv, Processes, PcStates, InStartup, Goto, Leave
<1>1. ASSUME NEW p \in Processes, TakeStartup(p) \/ ProcessKilled(p) PROVE StartupInv'
  BY <1>1, OwnershipAssumption DEF TakeStartup, ProcessKilled, OwnershipAssumption
<1>2. ASSUME NEW c \in Clients, ClientStep(c) PROVE StartupInv'
  BY <1>2 DEF ClientStep, AttachConnect, AttachFence, AttachSpawn, AttachWait, AttachAck, Connected
<1>3. ASSUME NEW s \in Stoppers, StopStep(s) PROVE StartupInv'
  BY <1>3 DEF StopStep, StopAsk, StopPoll, StopReturn
<1>4. ASSUME NEW c \in Clients, ClientEnds(c) \/ ProxyExits(c) PROVE StartupInv'
  BY <1>4 DEF ClientEnds, ProxyExits, clientVars
<1>5. ASSUME NEW o \in Owners, OwnerStep(o) \/ OwnerExpires(o) \/ OwnerKilled(o)
                                \/ GuardianStep(o) \/ GuardianKilled(o) \/ ServerExits(o)
      PROVE UNCHANGED clientVars
  BY <1>5, OwnerFrame
<1>6. CASE UNCHANGED clientVars
  BY <1>6 DEF clientVars
<1> QED BY <1>1, <1>2, <1>3, <1>4, <1>5, <1>6 DEF Next, vars, clientVars

\* Attach and stop processes keep to their own program.
LEMMA RoleStep == IInv /\ [Next]_vars => RoleInv'
<1> SUFFICES ASSUME IInv, [Next]_vars PROVE RoleInv'
  OBVIOUS
<1> USE DEF IInv, TypeOK, RoleInv, Processes, PcStates, Goto, Leave
<1>0. Clients \cap Stoppers = {}
  BY OwnershipAssumption DEF OwnershipAssumption
<1>1. ASSUME NEW p \in Processes, TakeStartup(p) \/ ProcessKilled(p) PROVE RoleInv'
  BY <1>0, <1>1 DEF TakeStartup, ProcessKilled
<1>2. ASSUME NEW c \in Clients, ClientStep(c) PROVE RoleInv'
  BY <1>0, <1>2 DEF ClientStep, AttachConnect, AttachFence, AttachSpawn, AttachWait, AttachAck, Connected
<1>3. ASSUME NEW s \in Stoppers, StopStep(s) PROVE RoleInv'
  BY <1>0, <1>3 DEF StopStep, StopAsk, StopPoll, StopReturn
<1>4. ASSUME NEW c \in Clients, ClientEnds(c) \/ ProxyExits(c) PROVE RoleInv'
  BY <1>0, <1>4 DEF ClientEnds, ProxyExits, clientVars
<1>5. ASSUME NEW o \in Owners, OwnerStep(o) \/ OwnerExpires(o) \/ OwnerKilled(o)
                                \/ GuardianStep(o) \/ GuardianKilled(o) \/ ServerExits(o)
      PROVE UNCHANGED clientVars
  BY <1>5, OwnerFrame
<1>6. CASE UNCHANGED clientVars
  BY <1>6 DEF clientVars
<1> QED BY <1>1, <1>2, <1>3, <1>4, <1>5, <1>6 DEF Next, vars, clientVars

\* owner.lock changes hands only through a free lock.
LEMMA FenceStep == IInv /\ [Next]_vars => FenceInv'
<1> SUFFICES ASSUME IInv, [Next]_vars PROVE FenceInv'
  OBVIOUS
<1> USE DEF IInv, TypeOK, FenceInv, FenceHeld, OwnerHolds, GuardianAlive, Probing, Processes
<1>1. ASSUME NEW p \in Processes, TakeStartup(p) \/ ProcessKilled(p) PROVE FenceInv'
  BY <1>1 DEF TakeStartup, ProcessKilled, Goto, Leave, ownerVars
<1>2. ASSUME NEW c \in Clients, ClientStep(c) PROVE FenceInv'
  <2>1. CASE AttachConnect(c)
    BY <2>1 DEF AttachConnect, Connected, Goto, ownerVars
  <2>2. CASE AttachFence(c)
    BY <2>2 DEF AttachFence, LockFree, Goto, Leave, ownerVars
  <2>3. CASE AttachSpawn(c)
    BY <2>3 DEF AttachSpawn, Goto
  <2>4. CASE AttachWait(c)
    BY <2>4 DEF AttachWait, Connected, Goto, Leave, ownerVars
  <2>5. CASE AttachAck(c)
    BY <2>5 DEF AttachAck, Goto, Leave, ownerVars
  <2> QED BY <1>2, <2>1, <2>2, <2>3, <2>4, <2>5 DEF ClientStep
<1>3. ASSUME NEW s \in Stoppers, StopStep(s) PROVE FenceInv'
  BY <1>3 DEF StopStep, StopAsk, StopPoll, StopReturn, LockFree, Goto, Leave, ownerVars
<1>4. ASSUME NEW c \in Clients, ClientEnds(c) \/ ProxyExits(c) PROVE FenceInv'
  BY <1>4 DEF ClientEnds, ProxyExits, Goto, clientVars, ownerVars
<1>5. ASSUME NEW o \in Owners, OwnerStep(o) \/ OwnerExpires(o) \/ OwnerKilled(o) PROVE FenceInv'
  <2> USE DEF Become, clientVars
  <2>1. CASE OwnerLocks(o)
    BY <2>1 DEF OwnerLocks, LockFree
  <2>2. CASE OwnerSpawnsGuardian(o)
    BY <2>2 DEF OwnerSpawnsGuardian
  <2>3. CASE OwnerReadsReadiness(o)
    BY <2>3 DEF OwnerReadsReadiness
  <2>4. CASE OwnerServes(o)
    BY <2>4 DEF OwnerServes
  <2>5. CASE OwnerDetaches(o) \/ OwnerAccepts(o)
    BY <2>5 DEF OwnerDetaches, OwnerAccepts, ownerVars
  <2>6. CASE OwnerBreaks(o) \/ OwnerExpires(o)
    BY <2>6 DEF OwnerBreaks, OwnerExpires, OwnerTeardown
  <2>7. CASE OwnerReaps(o)
    BY <2>7 DEF OwnerReaps
  <2>8. CASE OwnerKilled(o)
    BY <2>8 DEF OwnerKilled
  <2> QED BY <1>5, <2>1, <2>2, <2>3, <2>4, <2>5, <2>6, <2>7, <2>8 DEF OwnerStep
<1>6. ASSUME NEW o \in Owners, GuardianStep(o) \/ GuardianKilled(o) \/ ServerExits(o)
      PROVE FenceInv'
  <2> USE DEF GuardBecomes, guardianFrame, clientVars
  <2>1. CASE GuardianSpawnsServer(o) \/ GuardianReports(o) \/ GuardianGivesUp(o)
    BY <2>1 DEF GuardianSpawnsServer, GuardianReports, GuardianGivesUp
  <2>2. CASE GuardianSeesBootExit(o) \/ GuardianReaps(o) \/ GuardianExits(o)
    BY <2>2 DEF GuardianSeesBootExit, GuardianReaps, GuardianExits
  <2>3. CASE GuardianKilled(o) \/ ServerExits(o)
    BY <2>3 DEF GuardianKilled, ServerExits
  <2> QED BY <1>6, <2>1, <2>2, <2>3 DEF GuardianStep
<1>7. CASE UNCHANGED vars
  BY <1>7 DEF vars
<1> QED BY <1>1, <1>2, <1>3, <1>4, <1>5, <1>6, <1>7 DEF Next

\* Owner, guardian and worker of one turn go through their stages in step.
LEMMA LifeStep == IInv /\ [Next]_vars => LifeInv'
<1> SUFFICES ASSUME IInv, [Next]_vars PROVE LifeInv'
  OBVIOUS
<1> USE DEF IInv, TypeOK, LifeInv, Live, GuardianExited, Unfound
<1>1. ASSUME NEW p \in Processes, TakeStartup(p) \/ ProcessKilled(p) PROVE LifeInv'
  BY <1>1 DEF TakeStartup, ProcessKilled, ownerVars
<1>2. ASSUME NEW c \in Clients, ClientStep(c) PROVE LifeInv'
  <2>1. CASE AttachSpawn(c)
    BY <2>1 DEF AttachSpawn
  <2>2. CASE AttachConnect(c) \/ AttachFence(c) \/ AttachWait(c) \/ AttachAck(c)
    BY <2>2 DEF AttachConnect, AttachFence, AttachWait, AttachAck, ownerVars
  <2> QED BY <1>2, <2>1, <2>2 DEF ClientStep
<1>3. ASSUME NEW s \in Stoppers, StopStep(s) PROVE LifeInv'
  BY <1>3 DEF StopStep, StopAsk, StopPoll, StopReturn, ownerVars
<1>4. ASSUME NEW c \in Clients, ClientEnds(c) \/ ProxyExits(c) PROVE LifeInv'
  BY <1>4 DEF ClientEnds, ProxyExits, ownerVars
<1>5. ASSUME NEW o \in Owners, OwnerStep(o) \/ OwnerExpires(o) \/ OwnerKilled(o) PROVE LifeInv'
  <2> USE DEF Become
  <2>1. CASE OwnerLocks(o)
    BY <2>1 DEF OwnerLocks
  <2>2. CASE OwnerSpawnsGuardian(o)
    BY <2>2 DEF OwnerSpawnsGuardian
  <2>3. CASE OwnerReadsReadiness(o)
    BY <2>3 DEF OwnerReadsReadiness
  <2>4. CASE OwnerServes(o)
    BY <2>4 DEF OwnerServes
  <2>5. CASE OwnerDetaches(o) \/ OwnerAccepts(o)
    BY <2>5 DEF OwnerDetaches, OwnerAccepts, ownerVars
  <2>6. CASE OwnerBreaks(o) \/ OwnerExpires(o)
    BY <2>6 DEF OwnerBreaks, OwnerExpires, OwnerTeardown
  <2>7. CASE OwnerReaps(o)
    BY <2>7 DEF OwnerReaps, SignalsLeave
  <2>8. CASE OwnerKilled(o)
    BY <2>8 DEF OwnerKilled
  <2> QED BY <1>5, <2>1, <2>2, <2>3, <2>4, <2>5, <2>6, <2>7, <2>8 DEF OwnerStep
<1>6. ASSUME NEW o \in Owners, GuardianStep(o) \/ GuardianKilled(o) \/ ServerExits(o)
      PROVE LifeInv'
  <2> USE DEF GuardBecomes, guardianFrame, GuardianAlive
  <2>1. CASE GuardianSpawnsServer(o)
    BY <2>1 DEF GuardianSpawnsServer
  <2>2. CASE GuardianReports(o)
    BY <2>2 DEF GuardianReports
  <2>3. CASE GuardianGivesUp(o)
    BY <2>3 DEF GuardianGivesUp
  <2>4. CASE GuardianSeesBootExit(o)
    BY <2>4 DEF GuardianSeesBootExit
  <2>5. CASE GuardianReaps(o) \/ GuardianExits(o)
    BY <2>5 DEF GuardianReaps, GuardianExits
  <2>6. CASE GuardianKilled(o) \/ ServerExits(o)
    BY <2>6 DEF GuardianKilled, ServerExits
  <2> QED BY <1>6, <2>1, <2>2, <2>3, <2>4, <2>5, <2>6 DEF GuardianStep
<1>7. CASE UNCHANGED vars
  BY <1>7 DEF vars
<1> QED BY <1>1, <1>2, <1>3, <1>4, <1>5, <1>6, <1>7 DEF Next

\* A grant is given only where no grant and no proxy of that owner is left.
LEMMA ProxyStep == IInv /\ [Next]_vars => ProxyInv'
<1> SUFFICES ASSUME IInv, [Next]_vars PROVE ProxyInv'
  OBVIOUS
<1> USE OwnershipAssumption DEF OwnershipAssumption, IInv, TypeOK, ProxyInv, Processes
<1>1. ASSUME NEW p \in Processes, TakeStartup(p) \/ ProcessKilled(p) PROVE ProxyInv'
  BY <1>1 DEF TakeStartup, ProcessKilled, Goto, Leave, ownerVars, PcStates
<1>2. ASSUME NEW c \in Clients, ClientStep(c) PROVE ProxyInv'
  <2> USE DEF Goto, Leave, Connected, ownerVars, PcStates
  <2>1. CASE AttachConnect(c)
    BY <2>1 DEF AttachConnect
  <2>2. CASE AttachFence(c)
    BY <2>2 DEF AttachFence
  <2>3. CASE AttachSpawn(c)
    BY <2>3 DEF AttachSpawn
  <2>4. CASE AttachWait(c)
    BY <2>4 DEF AttachWait
  <2>5. CASE AttachAck(c)
    BY <2>5 DEF AttachAck
  <2> QED BY <1>2, <2>1, <2>2, <2>3, <2>4, <2>5 DEF ClientStep
<1>3. ASSUME NEW s \in Stoppers, StopStep(s) PROVE ProxyInv'
  BY <1>3 DEF StopStep, StopAsk, StopPoll, StopReturn, Goto, Leave, ownerVars, PcStates
<1>4. ASSUME NEW c \in Clients, ClientEnds(c) \/ ProxyExits(c) PROVE ProxyInv'
  BY <1>4 DEF ClientEnds, ProxyExits, Goto, clientVars, ownerVars, PcStates
<1>5. ASSUME NEW o \in Owners, OwnerStep(o) \/ OwnerExpires(o) \/ OwnerKilled(o) PROVE ProxyInv'
  <2> USE DEF Become, clientVars, OwnerStates
  <2>1. CASE OwnerLocks(o) \/ OwnerSpawnsGuardian(o)
    BY <2>1 DEF OwnerLocks, OwnerSpawnsGuardian
  <2>2. CASE OwnerReadsReadiness(o) \/ OwnerServes(o)
    BY <2>2 DEF OwnerReadsReadiness, OwnerServes
  <2>3. CASE OwnerDetaches(o)
    BY <2>3 DEF OwnerDetaches, DropAttachments, Active, ownerVars
  <2>4. CASE OwnerAccepts(o)
    BY <2>4 DEF OwnerAccepts, Active, ownerVars, LifeInv
  <2>5. CASE OwnerBreaks(o) \/ OwnerExpires(o)
    BY <2>5 DEF OwnerBreaks, OwnerExpires, OwnerTeardown, DropAttachments, Disconnected, Active
  <2>6. CASE OwnerReaps(o)
    BY <2>6 DEF OwnerReaps
  <2>7. CASE OwnerKilled(o)
    BY <2>7 DEF OwnerKilled, Disconnected
  <2> QED BY <1>5, <2>1, <2>2, <2>3, <2>4, <2>5, <2>6, <2>7 DEF OwnerStep
<1>6. ASSUME NEW o \in Owners, GuardianStep(o) \/ GuardianKilled(o) \/ ServerExits(o)
      PROVE ProxyInv'
  <2> USE DEF guardianFrame, clientVars
  <2>1. CASE GuardianReaps(o)
    BY <2>1 DEF GuardianReaps, WithoutProxies
  <2>2. CASE GuardianSpawnsServer(o) \/ GuardianReports(o) \/ GuardianGivesUp(o)
    BY <2>2 DEF GuardianSpawnsServer, GuardianReports, GuardianGivesUp
  <2>3. CASE GuardianSeesBootExit(o) \/ GuardianExits(o) \/ GuardianKilled(o) \/ ServerExits(o)
    BY <2>3 DEF GuardianSeesBootExit, GuardianExits, GuardianKilled, ServerExits
  <2> QED BY <1>6, <2>1, <2>2, <2>3 DEF GuardianStep
<1>7. CASE UNCHANGED vars
  BY <1>7 DEF vars
<1> QED BY <1>1, <1>2, <1>3, <1>4, <1>5, <1>6, <1>7 DEF Next

\* IInv holds initially.
LEMMA InitInv == Init => IInv
<1> SUFFICES ASSUME Init PROVE IInv
  OBVIOUS
<1>1. TypeOK
  BY DEF Init, TypeOK, PcStates, OwnerStates, GuardianStates, WorkerStates
<1>2. StartupInv /\ RoleInv
  BY DEF Init, StartupInv, RoleInv, InStartup, Processes
<1>3. FenceInv
  BY DEF Init, FenceInv, FenceHeld, OwnerHolds, GuardianAlive, Probing
<1>4. LifeInv /\ ProxyInv
  BY DEF Init, LifeInv, ProxyInv, Processes
<1> QED BY <1>1, <1>2, <1>3, <1>4 DEF IInv

\* IInv holds in every reachable state.
LEMMA Invariance == Spec => []IInv
<1>1. IInv /\ TypeOK' /\ [Next]_vars => IInv'
  BY StartupStep, RoleStep, FenceStep, LifeStep, ProxyStep DEF IInv
<1> QED BY <1>1, InitInv, TypeCorrect, PTL DEF Spec

\* A live worker is fenced by owner.lock unless a failure outside the guarantee left it behind.
LEMMA LiveIsFenced ==
  ASSUME IInv, NEW o \in Owners, worker[o] \in Live, ~Excluded(o)
  PROVE  FenceHeld(o)
BY DEF IInv, TypeOK, LifeInv, FenceHeld, OwnerHolds, GuardianAlive, GuardianExited, Excluded,
   Unfound, Live, OwnerStates, GuardianStates

\* One worker at a time, whatever processes are killed, up to the excluded failures.
THEOREM OneWorker == Spec => []SingleWorker
<1>1. IInv => SingleWorker
  BY LiveIsFenced DEF IInv, FenceInv, SingleWorker
<1> QED BY <1>1, Invariance, PTL

\* One writing client at a time, up to the excluded failures.
THEOREM OneWriter == Spec => []SingleWriter
<1>1. IInv => SingleWriter
  <2> SUFFICES ASSUME IInv, NEW c \in Clients, NEW d \in Clients,
                      Writes(c), Writes(d), c # d
               PROVE  Excluded(proxyOf[c]) \/ Excluded(proxyOf[d])
    BY DEF SingleWriter
  <2>1. proxyOf[c] \in Owners /\ proxyOf[d] \in Owners /\ proxyOf[c] # proxyOf[d]
    BY DEF Writes, IInv, TypeOK, ProxyInv
  <2> QED BY <2>1, LiveIsFenced DEF Writes, IInv, FenceInv
<1> QED BY <1>1, Invariance, PTL

\* A stop that obtains owner.lock finds no worker, up to the excluded failures.
THEOREM StopFence == Spec => []StopFindsNothing
<1>1. IInv => StopFindsNothing
  BY LiveIsFenced DEF IInv, FenceInv, StopFindsNothing, Probing, Processes
<1> QED BY <1>1, Invariance, PTL

\* No owner is spawned while a stop is under way.
THEOREM StopExcludesAttach == Spec => StopHoldsOffSpawns
<1> DEFINE Quiet == \A s \in Stoppers, o \in Owners :
        pc[s] \in {"ask", "poll", "hold"} /\ owner[o] = "unborn" => owner'[o] = "unborn"
<1>1. IInv /\ [Next]_vars => Quiet
  <2> SUFFICES ASSUME IInv, [Next]_vars, NEW s \in Stoppers, NEW o \in Owners,
                      pc[s] \in {"ask", "poll", "hold"}, owner[o] = "unborn"
               PROVE  owner'[o] = "unborn"
    OBVIOUS
  <2> USE DEF IInv, TypeOK
  <2>1. ASSUME NEW c \in Clients, ClientStep(c) PROVE owner' = owner
    <3>1. ~AttachSpawn(c)
      BY OwnershipAssumption
         DEF OwnershipAssumption, AttachSpawn, StartupInv, InStartup, Processes
    <3> QED BY <2>1, <3>1
            DEF ClientStep, AttachConnect, AttachFence, AttachWait, AttachAck, ownerVars
  <2>2. ASSUME NEW p \in Processes, TakeStartup(p) \/ ProcessKilled(p) PROVE owner' = owner
    BY <2>2 DEF TakeStartup, ProcessKilled, ownerVars
  <2>3. ASSUME NEW c \in Clients, ClientEnds(c) \/ ProxyExits(c) PROVE owner' = owner
    BY <2>3 DEF ClientEnds, ProxyExits, ownerVars
  <2>4. ASSUME NEW t \in Stoppers, StopStep(t) PROVE owner' = owner
    BY <2>4 DEF StopStep, StopAsk, StopPoll, StopReturn, ownerVars
  <2>5. ASSUME NEW p \in Owners, OwnerStep(p) \/ OwnerExpires(p) \/ OwnerKilled(p)
        PROVE  owner'[o] = "unborn"
    BY <2>5 DEF OwnerStep, OwnerExpires, OwnerKilled, OwnerHolds, OwnerLocks, OwnerSpawnsGuardian,
         OwnerReadsReadiness, OwnerServes, OwnerDetaches, OwnerAccepts, OwnerBreaks, OwnerReaps,
         OwnerTeardown, Become, ownerVars
  <2>6. ASSUME NEW p \in Owners, GuardianStep(p) \/ GuardianKilled(p) \/ ServerExits(p)
        PROVE  owner' = owner
    BY <2>6 DEF GuardianStep, GuardianSpawnsServer, GuardianReports, GuardianGivesUp,
         GuardianSeesBootExit, GuardianReaps, GuardianExits, GuardianKilled, ServerExits, guardianFrame
  <2> QED BY <2>1, <2>2, <2>3, <2>4, <2>5, <2>6 DEF Next, vars
<1> QED BY <1>1, Invariance, PTL DEF Spec, StopHoldsOffSpawns

----------------------------------------------------------------------------
(* Implementation of SessionFence, when no failure is outside the guarantee *)

Guaranteed == Faults \subseteq {"owner", "guardian"}

\* What the guaranteed failures cannot do.
NoLeakInv == \A o \in Owners :
    /\ ~(owner[o] = "killed" /\ guardian[o] = "killed")
    /\ guardian[o] = "killed" => ready[o]
    /\ guardian[o] = "failed" => worker[o] \notin Live
    /\ guardian[o] = "killed" /\ owner[o] \in {"leaving", "exited"} => worker[o] # "running"
    /\ worker[o] = "headless" => ready[o]

\* No guaranteed failure leaves a live worker outside the fence.
LEMMA NoLeakStep ==
  ASSUME Guaranteed, IInv, NoLeakInv, [Next]_vars
  PROVE  NoLeakInv'
<1> USE DEF Guaranteed, IInv, TypeOK, LifeInv, NoLeakInv, Live
<1>1. ASSUME NEW p \in Processes, TakeStartup(p) \/ ProcessKilled(p) PROVE NoLeakInv'
  BY <1>1 DEF TakeStartup, ProcessKilled, ownerVars
<1>2. ASSUME NEW c \in Clients, ClientStep(c) PROVE NoLeakInv'
  BY <1>2 DEF ClientStep, AttachSpawn, AttachConnect, AttachFence, AttachWait, AttachAck, ownerVars
<1>3. ASSUME NEW s \in Stoppers, StopStep(s) PROVE NoLeakInv'
  BY <1>3 DEF StopStep, StopAsk, StopPoll, StopReturn, ownerVars
<1>4. ASSUME NEW c \in Clients, ClientEnds(c) \/ ProxyExits(c) PROVE NoLeakInv'
  BY <1>4 DEF ClientEnds, ProxyExits, ownerVars
<1>5. ASSUME NEW o \in Owners, OwnerStep(o) \/ OwnerExpires(o) PROVE NoLeakInv'
  <2> USE DEF Become, ownerVars
  <2>1. CASE OwnerLocks(o) \/ OwnerSpawnsGuardian(o)
    BY <2>1 DEF OwnerLocks, OwnerSpawnsGuardian
  <2>2. CASE OwnerReadsReadiness(o)
    BY <2>2 DEF OwnerReadsReadiness
  <2>3. CASE OwnerServes(o) \/ OwnerDetaches(o) \/ OwnerAccepts(o)
    BY <2>3 DEF OwnerServes, OwnerDetaches, OwnerAccepts
  <2>4. CASE OwnerBreaks(o) \/ OwnerExpires(o)
    BY <2>4 DEF OwnerBreaks, OwnerExpires, OwnerTeardown
  <2>5. CASE OwnerReaps(o)
    BY <2>5 DEF OwnerReaps, SignalsLeave
  <2> QED BY <1>5, <2>1, <2>2, <2>3, <2>4, <2>5 DEF OwnerStep
<1>6. ASSUME NEW o \in Owners, OwnerKilled(o) PROVE NoLeakInv'
  BY <1>6 DEF OwnerKilled, Become
<1>7. ASSUME NEW o \in Owners, GuardianStep(o) PROVE NoLeakInv'
  BY <1>7 DEF GuardianStep, GuardianSpawnsServer, GuardianReports, GuardianGivesUp,
       GuardianSeesBootExit, GuardianReaps, GuardianExits, GuardBecomes, guardianFrame, WorkerStates
<1>8. ASSUME NEW o \in Owners, GuardianKilled(o) \/ ServerExits(o) PROVE NoLeakInv'
  BY <1>8 DEF GuardianKilled, GuardianExited, ServerExits, GuardBecomes, GuardianAlive, guardianFrame
<1>9. CASE UNCHANGED vars
  BY <1>9 DEF vars
<1> QED BY <1>1, <1>2, <1>3, <1>4, <1>5, <1>6, <1>7, <1>8, <1>9 DEF Next

MapInv == IInv /\ NoLeakInv

\* What the refinement mapping of a state is.
Mapped ==
    /\ \A o \in Owners : worker[o] = "running" => FenceHeld(o)
    /\ \A o \in Owners : FenceHeld(o) => Holder = o
    /\ (\A o \in Owners : ~FenceHeld(o)) => Holder = None
    /\ \A c \in Clients : Reaches(c) => Writer = c
    /\ (\A c \in Clients : ~Reaches(c)) => Writer = None

\* The mapped holder is the one owner with the fence, the mapped writer the one client that
\* reaches an app-server.
LEMMA MappedInv ==
  ASSUME Guaranteed, MapInv
  PROVE  Mapped
<1>1. \A o \in Owners : worker[o] = "running" => FenceHeld(o)
  BY LiveIsFenced DEF Guaranteed, MapInv, NoLeakInv, Excluded, Unfound, Live, IInv, TypeOK
<1>2. ASSUME NEW o \in Owners, FenceHeld(o) PROVE Holder = o
  <2>1. \A p \in Owners : FenceHeld(p) => p = o
    BY <1>2 DEF MapInv, IInv, FenceInv
  <2> QED BY <1>2, <2>1 DEF Holder
<1>3. ASSUME NEW c \in Clients, Reaches(c) PROVE Writer = c
  <2>1. \A d \in Clients : Reaches(d) => d = c
    BY <1>1, <1>3 DEF MapInv, IInv, TypeOK, FenceInv, ProxyInv, Reaches
  <2> QED BY <1>3, <2>1 DEF Writer
<1>4. /\ (\A o \in Owners : ~FenceHeld(o)) => Holder = None
      /\ (\A c \in Clients : ~Reaches(c)) => Writer = None
  BY DEF Holder, Writer
<1> QED BY <1>1, <1>2, <1>3, <1>4 DEF Mapped

AbstractStep == [Abstract!Next]_<<Holder, Phase, Writer>>

\* Only the fence is let go: a stutter, or the end of a turn.
LEMMA FenceDrops ==
  ASSUME Mapped, Mapped', worker' = worker, proxyOf' = proxyOf,
         \A o \in Owners : FenceHeld(o)' => FenceHeld(o)
  PROVE  AbstractStep
<1> USE OwnershipAssumption DEF OwnershipAssumption
<1>1. Writer' = Writer
  BY DEF Mapped, Reaches
<1>2. ASSUME NEW o \in Owners, FenceHeld(o)' PROVE AbstractStep
  <2>1. Holder = o /\ Holder' = o
    BY <1>2 DEF Mapped
  <2> QED BY <1>1, <2>1 DEF AbstractStep, Phase
<1>3. CASE \A o \in Owners : ~FenceHeld(o)'
  <2>1. Holder' = None /\ Phase' = "free"
    BY <1>3 DEF Phase, Mapped
  <2>2. CASE \A o \in Owners : ~FenceHeld(o)
    BY <1>1, <2>1, <2>2 DEF AbstractStep, Phase, Mapped
  <2>3. ASSUME NEW o \in Owners, FenceHeld(o) PROVE AbstractStep
    <3>1. Holder = o /\ o # None /\ worker[o] # "running"
      BY <1>3, <2>3 DEF Mapped
    <3>2. Phase \in {"claimed", "spent"}
      BY <3>1 DEF Phase
    <3> QED BY <1>1, <2>1, <3>2 DEF AbstractStep, Abstract!Next, Abstract!Release
  <2> QED BY <2>2, <2>3
<1> QED BY <1>2, <1>3

\* Only proxies go: a stutter, or the writer's revocation.
LEMMA ProxyDrops ==
  ASSUME Mapped, Mapped', worker' = worker, \A o \in Owners : FenceHeld(o)' = FenceHeld(o),
         \A c \in Clients : proxyOf'[c] \in {None, proxyOf[c]}
  PROVE  AbstractStep
<1>1. Holder' = Holder /\ Phase' = Phase
  BY DEF Mapped, Phase
<1>2. Writer' \in {None, Writer}
  BY DEF Mapped, Reaches
<1> QED BY <1>1, <1>2 DEF AbstractStep, Abstract!Next, Abstract!Revoke

\* The app-server of the holder ends: a halt, or a stutter if it had ended before.
LEMMA WorkerEnds ==
  ASSUME TypeOK, Mapped, Mapped', NEW o \in Owners, FenceHeld(o), worker[o] # "none",
         NEW w \in {"headless", "gone"}, worker' = [worker EXCEPT ![o] = w],
         \A p \in Owners : FenceHeld(p)' = FenceHeld(p),
         \A c \in Clients : proxyOf'[c] = proxyOf[c] \/ (proxyOf[c] = o /\ proxyOf'[c] = None)
  PROVE  AbstractStep
<1> USE OwnershipAssumption DEF OwnershipAssumption, TypeOK
<1>1. Holder = o /\ Holder' = o
  BY DEF Mapped
<1>2. Phase' = "spent"
  BY <1>1 DEF Phase
<1>3. CASE worker[o] = "running"
  <2>1. Phase = "running"
    BY <1>1, <1>3 DEF Phase
  <2>2. \A c \in Clients : ~Reaches(c)'
    BY <1>1 DEF Mapped, Reaches
  <2> QED BY <1>1, <1>2, <2>1, <2>2 DEF Mapped, AbstractStep, Abstract!Next, Abstract!Halt
<1>4. CASE worker[o] # "running"
  <2>1. Phase = "spent"
    BY <1>1, <1>4 DEF Phase
  <2>2. \A c \in Clients : Reaches(c)' = Reaches(c)
    BY <1>4 DEF Reaches
  <2> QED BY <1>1, <1>2, <2>1, <2>2 DEF Mapped, AbstractStep
<1> QED BY <1>3, <1>4

\* Every step of the processes is a step of SessionFence or leaves it unchanged.
LEMMA Simulation ==
  ASSUME Guaranteed, MapInv, MapInv', Mapped, Mapped', [Next]_vars
  PROVE  AbstractStep
<1> USE DEF MapInv, IInv, TypeOK
<1>1. ASSUME NEW p \in Processes, TakeStartup(p) \/ ProcessKilled(p) PROVE AbstractStep
  BY <1>1, FenceDrops
     DEF TakeStartup, ProcessKilled, ownerVars, FenceHeld, OwnerHolds, GuardianAlive
<1>2. ASSUME NEW c \in Clients, ClientStep(c) PROVE AbstractStep
  BY <1>2, FenceDrops
     DEF ClientStep, AttachConnect, AttachFence, AttachSpawn, AttachWait, AttachAck, ownerVars,
         FenceHeld, OwnerHolds, GuardianAlive
<1>3. ASSUME NEW s \in Stoppers, StopStep(s) PROVE AbstractStep
  BY <1>3, FenceDrops
     DEF StopStep, StopAsk, StopPoll, StopReturn, ownerVars, FenceHeld, OwnerHolds, GuardianAlive
<1>4. ASSUME NEW c \in Clients, ClientEnds(c) \/ ProxyExits(c) PROVE AbstractStep
  BY <1>4, ProxyDrops
     DEF ClientEnds, ProxyExits, ownerVars, FenceHeld, OwnerHolds, GuardianAlive
<1>5. ASSUME NEW o \in Owners, OwnerStep(o) \/ OwnerExpires(o) PROVE AbstractStep
  <2> USE DEF Become
  <2>1. CASE OwnerLocks(o)
    <3>1. CASE LockFree
      <4>1. Holder = None /\ Phase = "free"
        BY <3>1 DEF LockFree, Mapped, Phase
      <4>2. Holder' = o
        BY <2>1, <3>1 DEF OwnerLocks, Mapped, FenceHeld, OwnerHolds
      <4>3. Phase' = "claimed"
        BY <2>1, <4>2, OwnershipAssumption
           DEF OwnershipAssumption, OwnerLocks, Phase, LifeInv
      <4>4. Writer' = Writer
        BY <2>1 DEF OwnerLocks, Mapped, Reaches
      <4> QED BY <4>1, <4>2, <4>3, <4>4 DEF AbstractStep, Abstract!Next, Abstract!Claim
    <3>2. CASE ~LockFree
      BY <2>1, <3>2, FenceDrops DEF OwnerLocks, FenceHeld, OwnerHolds, GuardianAlive
    <3> QED BY <3>1, <3>2
  <2>2. CASE OwnerSpawnsGuardian(o) \/ OwnerReadsReadiness(o) \/ OwnerServes(o)
    BY <2>2, FenceDrops
       DEF OwnerSpawnsGuardian, OwnerReadsReadiness, OwnerServes, FenceHeld, OwnerHolds, GuardianAlive
  <2>3. CASE OwnerDetaches(o) \/ OwnerBreaks(o) \/ OwnerExpires(o)
    BY <2>3, ProxyDrops
       DEF OwnerDetaches, OwnerBreaks, OwnerExpires, OwnerTeardown, DropAttachments, ownerVars,
           FenceHeld, OwnerHolds, GuardianAlive
  <2>4. CASE OwnerAccepts(o)
    <3>1. worker' = worker /\ \A p \in Owners : FenceHeld(p)' = FenceHeld(p)
      BY <2>4 DEF OwnerAccepts, ownerVars, FenceHeld, OwnerHolds, GuardianAlive
    <3>2. CASE proxyOf' = proxyOf
      BY <3>1, <3>2, FenceDrops
    <3>3. CASE proxyOf' # proxyOf
      <4>1. PICK c \in Clients : Active(o) = {} /\ link[c] = "queued"
                                 /\ proxyOf' = [proxyOf EXCEPT ![c] = o]
        BY <2>4, <3>3 DEF OwnerAccepts
      <4>2. CASE worker[o] = "running"
        <5>1. owner[o] = "serving" /\ FenceHeld(o)
          BY <2>4 DEF OwnerAccepts, FenceHeld, OwnerHolds
        <5>2. Holder = o /\ Holder' = o
          BY <3>1, <5>1 DEF Mapped
        <5>3. Phase = "running" /\ Phase' = "running"
          BY <3>1, <4>2, <5>2, OwnershipAssumption DEF OwnershipAssumption, Phase
        <5>4. \A d \in Clients : ~Reaches(d)
          BY <4>1, <5>1 DEF Reaches, Mapped, FenceInv, ProxyInv, Active
        <5>5. Writer = None /\ Writer' = c
          BY <3>1, <4>1, <4>2, <5>4, OwnershipAssumption DEF OwnershipAssumption, Mapped, Reaches
        <5> QED BY <5>2, <5>3, <5>5 DEF AbstractStep, Abstract!Next, Abstract!Grant
      <4>3. CASE worker[o] # "running"
        <5>1. \A d \in Clients : Reaches(d)' = Reaches(d)
          <6>1. ~Reaches(c) /\ ~Reaches(c)'
            BY <3>1, <4>1, <4>3 DEF Reaches, ProxyInv
          <6> QED BY <3>1, <4>1, <6>1 DEF Reaches
        <5>2. Holder' = Holder /\ Phase' = Phase
          BY <3>1 DEF Mapped, Phase
        <5>3. Writer' = Writer
          BY <5>1 DEF Mapped
        <5> QED BY <5>2, <5>3 DEF AbstractStep
      <4> QED BY <4>2, <4>3
    <3> QED BY <3>2, <3>3
  <2>5. CASE OwnerReaps(o)
    <3>1. CASE owner[o] = "signal"
      <4>1. FenceHeld(o) /\ worker[o] # "none"
        BY <3>1 DEF FenceHeld, OwnerHolds, LifeInv
      <4>2. \A p \in Owners : FenceHeld(p)' = FenceHeld(p)
        BY <2>5, <3>1 DEF OwnerReaps, FenceHeld, OwnerHolds, GuardianAlive
      <4>3. PICK w \in {"headless", "gone"} : worker' = [worker EXCEPT ![o] = w]
        BY <2>5, <3>1 DEF OwnerReaps, SignalsLeave, Guaranteed
      <4> QED BY <2>5, <4>1, <4>2, <4>3, WorkerEnds DEF OwnerReaps
    <3>2. CASE owner[o] # "signal"
      BY <2>5, <3>2, FenceDrops DEF OwnerReaps, FenceHeld, OwnerHolds, GuardianAlive
    <3> QED BY <3>1, <3>2
  <2> QED BY <1>5, <2>1, <2>2, <2>3, <2>4, <2>5 DEF OwnerStep
<1>6. ASSUME NEW o \in Owners, OwnerKilled(o) PROVE AbstractStep
  BY <1>6, FenceDrops DEF OwnerKilled, Become, FenceHeld, OwnerHolds, GuardianAlive
<1>7. ASSUME NEW o \in Owners, GuardianStep(o) PROVE AbstractStep
  <2> USE DEF GuardBecomes, guardianFrame
  <2>1. CASE GuardianSpawnsServer(o)
    <3>1. CASE worker' = worker
      BY <2>1, <3>1, FenceDrops DEF GuardianSpawnsServer, FenceHeld, OwnerHolds, GuardianAlive
    <3>2. CASE worker' # worker
      <4>1. worker[o] = "none" /\ worker' = [worker EXCEPT ![o] = "running"]
        BY <2>1, <3>2 DEF GuardianSpawnsServer, LifeInv
      <4>2. Holder = o /\ Holder' = o
        BY <2>1, <3>2 DEF GuardianSpawnsServer, FenceHeld, GuardianAlive, Mapped
      <4>3. Phase = "claimed" /\ Phase' = "running"
        BY <4>1, <4>2, OwnershipAssumption DEF OwnershipAssumption, Phase, Live
      <4>4. \A c \in Clients : Reaches(c)' = Reaches(c)
        BY <2>1, <4>1 DEF GuardianSpawnsServer, Reaches, ProxyInv, LifeInv
      <4>5. Writer' = Writer
        BY <4>4 DEF Mapped
      <4> QED BY <4>2, <4>3, <4>5 DEF AbstractStep, Abstract!Next, Abstract!Start
    <3> QED BY <3>1, <3>2
  <2>2. CASE GuardianReports(o) \/ GuardianSeesBootExit(o) \/ GuardianExits(o)
    BY <2>2, FenceDrops DEF GuardianReports, GuardianSeesBootExit, GuardianExits,
         FenceHeld, OwnerHolds, GuardianAlive
  <2>3. CASE GuardianGivesUp(o) \/ GuardianReaps(o)
    <3>1. FenceHeld(o) /\ worker[o] # "none"
      BY <2>3 DEF GuardianGivesUp, GuardianReaps, FenceHeld, GuardianAlive, LifeInv
    <3>2. \A p \in Owners : FenceHeld(p)' = FenceHeld(p)
      BY <2>3 DEF GuardianGivesUp, GuardianReaps, FenceHeld, OwnerHolds, GuardianAlive
    <3> QED BY <2>3, <3>1, <3>2, WorkerEnds DEF GuardianGivesUp, GuardianReaps, WithoutProxies
  <2> QED BY <1>7, <2>1, <2>2, <2>3 DEF GuardianStep
<1>8. ASSUME NEW o \in Owners, GuardianKilled(o) PROVE AbstractStep
  BY <1>8, FenceDrops DEF GuardianKilled, GuardBecomes, guardianFrame, FenceHeld, OwnerHolds, GuardianAlive
<1>9. ASSUME NEW o \in Owners, ServerExits(o) PROVE AbstractStep
  <2>1. FenceHeld(o) /\ worker[o] = "running"
    BY <1>9 DEF ServerExits, Mapped
  <2>2. \A p \in Owners : FenceHeld(p)' = FenceHeld(p)
    BY <1>9 DEF ServerExits, guardianFrame, FenceHeld, OwnerHolds, GuardianAlive
  <2>3. PICK w \in {"headless", "gone"} : worker' = [worker EXCEPT ![o] = w]
    BY <1>9 DEF ServerExits
  <2> QED BY <1>9, <2>1, <2>2, <2>3, WorkerEnds DEF ServerExits
<1>10. CASE UNCHANGED vars
  BY <1>10, FenceDrops DEF vars, FenceHeld, OwnerHolds, GuardianAlive
<1> QED BY <1>1, <1>2, <1>3, <1>4, <1>5, <1>6, <1>7, <1>8, <1>9, <1>10 DEF Next

\* With one process of a turn killed at most, no guardian before readiness and a ps that works,
\* the processes implement the fence of SessionFence.
THEOREM Implementation ==
  ASSUME Guaranteed
  PROVE  Spec => ImplementsFence
<1>1. Init => MapInv /\ Abstract!Init
  <2> SUFFICES ASSUME Init PROVE MapInv /\ Abstract!Init
    OBVIOUS
  <2>1. IInv
    BY InitInv
  <2>2. NoLeakInv
    BY DEF Init, NoLeakInv, Live
  <2>3. Mapped
    BY <2>1, <2>2, MappedInv DEF MapInv
  <2>4. (\A o \in Owners : ~FenceHeld(o)) /\ (\A c \in Clients : ~Reaches(c))
    BY DEF Init, FenceHeld, OwnerHolds, GuardianAlive, Reaches
  <2> QED BY <2>1, <2>2, <2>3, <2>4 DEF MapInv, Mapped, Phase, Abstract!Init
<1>2. IInv /\ IInv' /\ NoLeakInv /\ [Next]_vars => NoLeakInv'
  BY NoLeakStep
<1>3. MapInv /\ MapInv' /\ Mapped /\ Mapped' /\ [Next]_vars => [Abstract!Next]_(Abstract!vars)
  BY Simulation DEF AbstractStep, Abstract!vars
<1> QED BY <1>1, <1>2, <1>3, Invariance, MappedInv, PTL DEF Spec, MapInv, ImplementsFence, Abstract!Spec

=============================================================================
