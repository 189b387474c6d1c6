----------------------------- MODULE CleanupProofs -----------------------------
(****************************************************************************)
(* What is left of a worker when its supervisor has ended it.               *)
(****************************************************************************)
EXTENDS SupervisorProofs, SequenceTheorems

USE ProcessAssumption DEF ProcessAssumption

----------------------------------------------------------------------------
(* The plans.                                                               *)

\* What is left of each ending, named for its first step.
LTree == Terminate \o LegacyEnd
LGrace == Tail(LTree)
LKill == Tail(LGrace)
LReap == Tail(LKill)
LSweep == Tail(LReap)
LSweepKill == Tail(LSweep)
LJoin == Tail(LSweepKill)
LWait == Tail(LJoin)

GTerm == Tail(GuardianEnd)
GTree == Tail(GTerm)
GGrace == Tail(GTree)
GKill == Tail(GGrace)
GReap == Tail(GKill)
GSweep == Tail(GReap)
GSweepKill == Tail(GSweep)
GLast == Tail(GSweepKill)

OTerm == Tail(OwnerEnd)
ONap == Tail(OTerm)
OLast == Tail(ONap)

LEMMA Endings ==
  /\ LTree = <<"tree", "grace", "kill", "reap", "sweep", "kill", "joinOutput", "waitServer">>
  /\ LegacyEnd = <<"sweep", "kill", "joinOutput", "waitServer">>
  /\ GuardianEnd = <<"regTerm", "term", "tree", "grace", "kill", "reap", "sweep", "kill", "regKill", "kill">>
<1> DEFINE S == {"regTerm", "term", "tree", "grace", "kill", "reap", "sweep", "regKill",
                 "joinOutput", "waitServer"}
<1>1. ASSUME NEW s \in Seq(S), NEW t \in Seq(S), Len(s) = Len(t), \A i \in 1..Len(s) : s[i] = t[i]
      PROVE  s = t
  BY <1>1, SeqEqual
<1>2. LegacyEnd = <<"sweep", "kill", "joinOutput", "waitServer">>
  <2> DEFINE t == <<"sweep", "kill", "joinOutput", "waitServer">>
  <2>1. LegacyEnd \in Seq(S) /\ t \in Seq(S) /\ Len(LegacyEnd) = 4 /\ Len(t) = 4
    BY DEF LegacyEnd, Sweep
  <2>2. LegacyEnd[1] = t[1] /\ LegacyEnd[2] = t[2] /\ LegacyEnd[3] = t[3] /\ LegacyEnd[4] = t[4]
    BY DEF LegacyEnd, Sweep
  <2>3. \A i \in 1..4 : i \in {1, 2, 3, 4}
    OBVIOUS
  <2> HIDE DEF t
  <2> QED BY <1>1, <2>1, <2>2, <2>3 DEF t
<1>3. LTree = <<"tree", "grace", "kill", "reap", "sweep", "kill", "joinOutput", "waitServer">>
  <2> DEFINE t == <<"tree", "grace", "kill", "reap", "sweep", "kill", "joinOutput", "waitServer">>
  <2>1. LTree \in Seq(S) /\ t \in Seq(S) /\ Len(LTree) = 8 /\ Len(t) = 8
    BY <1>2 DEF LTree, Terminate
  <2>2. /\ LTree[1] = t[1] /\ LTree[2] = t[2] /\ LTree[3] = t[3] /\ LTree[4] = t[4]
        /\ LTree[5] = t[5] /\ LTree[6] = t[6] /\ LTree[7] = t[7] /\ LTree[8] = t[8]
    BY <1>2 DEF LTree, Terminate
  <2>3. \A i \in 1..8 : i \in {1, 2, 3, 4, 5, 6, 7, 8}
    OBVIOUS
  <2> HIDE DEF t
  <2> QED BY <1>1, <2>1, <2>2, <2>3 DEF t
<1>4. GuardianEnd = <<"regTerm", "term", "tree", "grace", "kill", "reap", "sweep", "kill", "regKill", "kill">>
  <2> DEFINE t == <<"regTerm", "term", "tree", "grace", "kill", "reap", "sweep", "kill", "regKill", "kill">>
  <2>1. GuardianEnd \in Seq(S) /\ t \in Seq(S) /\ Len(GuardianEnd) = 10 /\ Len(t) = 10
    BY DEF GuardianEnd, Terminate, Sweep
  <2>2. /\ GuardianEnd[1] = t[1] /\ GuardianEnd[2] = t[2] /\ GuardianEnd[3] = t[3]
        /\ GuardianEnd[4] = t[4] /\ GuardianEnd[5] = t[5] /\ GuardianEnd[6] = t[6]
        /\ GuardianEnd[7] = t[7] /\ GuardianEnd[8] = t[8] /\ GuardianEnd[9] = t[9]
        /\ GuardianEnd[10] = t[10]
    BY DEF GuardianEnd, Terminate, Sweep
  <2>3. \A i \in 1..10 : i \in {1, 2, 3, 4, 5, 6, 7, 8, 9, 10}
    OBVIOUS
  <2> HIDE DEF t
  <2> QED BY <1>1, <2>1, <2>2, <2>3 DEF t
<1> QED BY <1>2, <1>3, <1>4

\* The first step of each.
LEMMA LegacyHeads ==
  /\ LSweep = LegacyEnd /\ Tail(LWait) = <<>>
  /\ Head(LTree) = "tree" /\ Head(LGrace) = "grace" /\ Head(LKill) = "kill"
  /\ Head(LReap) = "reap" /\ Head(LSweep) = "sweep" /\ Head(LSweepKill) = "kill"
  /\ Head(LJoin) = "joinOutput" /\ Head(LWait) = "waitServer"
BY Endings DEF LGrace, LKill, LReap, LSweep, LSweepKill, LJoin, LWait

LEMMA GuardianHeads ==
  /\ Head(GuardianEnd) = "regTerm" /\ Head(GTerm) = "term" /\ Head(GTree) = "tree"
  /\ Head(GGrace) = "grace" /\ Head(GKill) = "kill" /\ Head(GReap) = "reap"
  /\ Head(GSweep) = "sweep" /\ Head(GSweepKill) = "kill"
  /\ GLast = <<"regKill", "kill">>
BY Endings DEF GTerm, GTree, GGrace, GKill, GReap, GSweep, GSweepKill, GLast

LEMMA OwnerHeads ==
  /\ Head(OwnerEnd) = "regTerm" /\ Head(OTerm) = "term" /\ Head(ONap) = "nap"
  /\ OLast = <<"regKill", "kill">>
BY DEF OwnerEnd, OTerm, ONap, OLast

LEMMA ShortHeads ==
  /\ Head(<<"poll">>) = "poll" /\ Head(<<"sample">>) = "sample" /\ Head(<<"sleep">>) = "sleep"
  /\ Head(<<"watch">>) = "watch" /\ Head(<<"watch", "watch">>) = "watch"
  /\ Head(<<"regKill", "kill">>) = "regKill" /\ Tail(<<"regKill", "kill">>) = <<"kill">>
  /\ Head(<<"kill">>) = "kill" /\ Tail(<<"kill">>) = <<>>
OBVIOUS

----------------------------------------------------------------------------
(* The worker's processes.                                                  *)

GroupKin == {"server", "proxy", "worker"}

\* Who has not escaped is in the worker's group.
GroupInv == \A p \in Listed : table[p].kin \in GroupKin => table[p].group = Root

\* A row that was recorded is still known as it is.
SeenInv == \A p \in Listed : table[p].seen => Identity(p) \in registry.known

NoGroup == \A p \in Alive : table[p].kin \notin GroupKin

NoSeen == \A p \in Alive : Ours(p) => ~table[p].seen

\* What the processes and the supervisor's signals do to a row.
RowKept(p) ==
    /\ p \in Listed
    /\ table'[p].start = table[p].start
    /\ table[p].zombie => table'[p].zombie
    /\ \/ table'[p].kin = table[p].kin /\ table'[p].group = table[p].group
       \/ table'[p].kin = "escaped"

RowUnseen(p) ==
    table'[p].seen => table[p].seen /\ table'[p].kin = table[p].kin /\ table'[p].group = table[p].group

RowNew(p) ==
    /\ ~table'[p].seen
    /\ \/ table'[p].kin \in {"escaped", "foreign"}
       \/ /\ table'[p].kin = "worker" /\ table'[p].group = Root
          /\ \E o \in Alive : table[o].kin \in GroupKin

Evolves == children' \subseteq children /\ \A p \in Listed' : (RowKept(p) /\ RowUnseen(p)) \/ RowNew(p)

LEMMA EvolvesStep ==
  ASSUME WorldInv, WorldInv', GroupInv, Evolves
  PROVE  GroupInv' /\ (NoGroup => NoGroup') /\ (NoSeen => NoSeen')
<1>1. \A p \in Listed' : RowKept(p) => p \in Listed /\ (p \in Alive' => p \in Alive)
  BY ListedAreRows DEF RowKept, Alive
<1>2. GroupInv'
  BY DEF Evolves, GroupInv, RowKept, RowNew, GroupKin
<1>3. NoGroup => NoGroup'
  <2> SUFFICES ASSUME NoGroup, NEW p \in Alive' PROVE table'[p].kin \notin GroupKin
    BY DEF NoGroup
  <2>1. p \in Listed'
    BY DEF Alive
  <2> QED BY <1>1, <2>1 DEF Evolves, NoGroup, RowKept, RowNew, GroupKin
<1>4. NoSeen => NoSeen'
  <2> SUFFICES ASSUME NoSeen, NEW p \in Alive', Ours(p)' PROVE ~table'[p].seen
    BY DEF NoSeen
  <2>1. p \in Listed'
    BY DEF Alive
  <2> QED BY <1>1, <2>1 DEF Evolves, NoSeen, RowKept, RowUnseen, RowNew, Ours
<1> QED BY <1>2, <1>3, <1>4

LEMMA SeenStep ==
  ASSUME SeenInv, Evolves, UNCHANGED registry
  PROVE  SeenInv'
BY DEF SeenInv, Evolves, RowKept, RowUnseen, RowNew, Identity

LEMMA DieEvolves ==
  ASSUME WorldInv, NEW dead \in SUBSET Alive, Die(dead), UNCHANGED <<starts, children>>
  PROVE  Evolves /\ \A p \in Alive' : p \in Alive \ dead /\ table'[p].kin = table[p].kin
<1>1. dead \subseteq Listed /\ \A p \in Listed : p \in Pids /\ table[p] \in Rows
  BY ListedAreRows DEF Alive, WorldInv
<1>2. ASSUME NEW p \in Listed'
      PROVE  /\ p \in Listed
             /\ table'[p] \in {table[p], [table[p] EXCEPT !.zombie = TRUE],
                               [table[p] EXCEPT !.parent = Outside]}
             /\ p \in dead => table'[p] = [table[p] EXCEPT !.zombie = TRUE]
  BY <1>1, <1>2 DEF Die, Listed
<1>3. ASSUME NEW r \in Rows
      PROVE  /\ [r EXCEPT !.zombie = TRUE].zombie = TRUE
             /\ [r EXCEPT !.zombie = TRUE].seen = r.seen
             /\ [r EXCEPT !.parent = Outside].zombie = r.zombie
             /\ [r EXCEPT !.parent = Outside].seen = r.seen
  BY DEF Rows
<1>4. ASSUME NEW p \in Listed'
      PROVE  /\ p \in Listed
             /\ table'[p].start = table[p].start /\ table'[p].kin = table[p].kin
             /\ table'[p].group = table[p].group /\ table'[p].seen = table[p].seen
             /\ table[p].zombie \/ p \in dead => table'[p].zombie
  <2>1. p \in Listed /\ table[p] \in Rows
    BY <1>1, <1>2, <1>4
  <2>2. CASE table'[p] = table[p] /\ p \notin dead
    BY <2>1, <2>2
  <2>3. CASE table'[p] = [table[p] EXCEPT !.zombie = TRUE]
    BY <1>3, <2>1, <2>3, ChangedRow
  <2>4. CASE table'[p] = [table[p] EXCEPT !.parent = Outside] /\ p \notin dead
    BY <1>3, <2>1, <2>4, ChangedRow
  <2> QED BY <1>2, <1>4, <2>2, <2>3, <2>4
<1>5. Evolves
  BY <1>4 DEF Evolves, RowKept, RowUnseen
<1>6. \A p \in Alive' : p \in Alive \ dead /\ table'[p].kin = table[p].kin
  BY <1>4 DEF Alive
<1> QED BY <1>5, <1>6

LEMMA ReapEvolves ==
  ASSUME WorldInv, NEW p \in Pids, Reap(p)
  PROVE  Evolves /\ p \notin children'
<1>1. \A o \in Listed' : o \in Listed /\ table'[o] = table[o]
  BY DEF Reap, Listed, WorldInv
<1> QED BY <1>1 DEF Evolves, RowKept, RowUnseen, Reap

LEMMA LeaveEvolves ==
  ASSUME WorldInv, NEW p \in Pids, LeaveGroup(p)
  PROVE  Evolves
<1>1. p \in Listed /\ table[p] \in Rows
  BY ListedAreRows DEF LeaveGroup, Alive, WorldInv
<1> DEFINE row == [[[table[p] EXCEPT !.group = p] EXCEPT !.kin = "escaped"] EXCEPT !.seen = FALSE]
<1>2. row.start = table[p].start
  BY <1>1 DEF Rows
<1>3. row.zombie = table[p].zombie
  BY <1>1 DEF Rows
<1>4. row.kin = "escaped" /\ row.seen = FALSE
  BY <1>1 DEF Rows
<1>5. table' = [table EXCEPT ![p] = row]
  BY DEF LeaveGroup, WorldInv
<1> HIDE DEF row
<1>6. \A o \in Listed' : IF o = p THEN table'[o] = row ELSE o \in Listed /\ table'[o] = table[o]
  BY <1>5 DEF Listed, WorldInv
<1> QED BY <1>1, <1>2, <1>3, <1>4, <1>6 DEF Evolves, RowKept, RowUnseen, LeaveGroup

LEMMA StartEvolves ==
  ASSUME WorldInv, GroupInv, NEW p \in Pids, NEW q \in Pids, Fork(p, q) \/ Foreign(q)
  PROVE  Evolves
<1>1. ASSUME NEW row, Start(q, row)
      PROVE  \A o \in Listed' : \/ o = q /\ table'[q] = row
                                \/ o \in Listed /\ table'[o] = table[o]
  <2>1. \A o \in Pids : table'[o] = IF o = q THEN row ELSE table[o]
    BY <1>1 DEF Start, WorldInv
  <2> QED BY <2>1 DEF Listed
<1>2. CASE Fork(p, q)
  <2>1. p \in Alive /\ p \in Listed /\ table[p].kin \in {"server", "worker", "escaped"}
    BY <1>2 DEF Fork, Alive
  <2>2. PICK kin \in {"escaped", "worker"} :
           /\ Start(q, Process(p, table[p].group, starts + 1, kin))
           /\ kin = "worker" => table[p].kin # "escaped"
    BY <1>2 DEF Fork
  <2>3. kin = "worker" => table[p].kin \in GroupKin /\ table[p].group = Root
    BY <2>1, <2>2 DEF GroupKin, GroupInv
  <2> QED BY <1>1, <1>2, <2>1, <2>2, <2>3 DEF Evolves, RowNew, RowKept, RowUnseen, Process, Fork
<1>3. CASE Foreign(q)
  BY <1>1, <1>3 DEF Foreign, Evolves, RowNew, RowKept, RowUnseen, Process
<1> QED BY <1>2, <1>3

\* A sample marks rows and changes nothing else, and forgets no row that it marked before.
LEMMA SampleKeeps ==
  ASSUME WorldInv, GroupInv, SeenInv, Sample
  PROVE  /\ GroupInv' /\ SeenInv' /\ (NoGroup => NoGroup') /\ children' \subseteq children
         /\ ~blind' => registry' = Refresh(registry)
<1>1. CASE registry' = Refresh(registry) /\ Sampled(registry'.known)
  <2>1. \A p \in Listed : p \in Pids /\ table[p] \in Rows
    BY ListedAreRows DEF WorldInv
  <2>2. \A r \in Rows : /\ [r EXCEPT !.seen = TRUE].zombie = r.zombie
    BY DEF Rows
  <2>3. ASSUME NEW p \in Listed'
        PROVE  /\ p \in Listed
               /\ table'[p].kin = table[p].kin /\ table'[p].group = table[p].group
               /\ table'[p].start = table[p].start /\ table'[p].zombie = table[p].zombie
               /\ table'[p].seen => table[p].seen \/ Identity(p) \in registry'.known
    <3>1. p \in Listed
      BY <1>1, <2>3 DEF Sampled, Recorded, Listed
    <3>2. CASE Identity(p) \in registry'.known
      <4>1. table'[p] = [table[p] EXCEPT !.seen = TRUE]
        BY <1>1, <2>1, <3>1, <3>2 DEF Sampled, Recorded
      <4> QED BY <2>1, <2>2, <3>1, <3>2, <4>1, ChangedRow
    <3>3. CASE Identity(p) \notin registry'.known
      BY <1>1, <2>1, <3>1, <3>3 DEF Sampled, Recorded
    <3> QED BY <3>1, <3>2, <3>3
  <2>4. ASSUME NEW p \in Listed, Identity(p) \in registry.known
        PROVE  Identity(p) \in registry'.known
    <3> DEFINE heads == Kept(registry.known) \cup RootIfSame(registry'.stamp)
    <3>1. registry'.known = {Identity(o) : o \in Below(heads)}
      BY <1>1 DEF Refresh
    <3>2. p \in heads
      BY <2>4 DEF Kept
    <3>3. p \in Below(heads)
      BY <3>2 DEF Below
    <3> QED BY <3>1, <3>3
  <2>5. SeenInv'
    BY <2>3, <2>4 DEF SeenInv, Identity
  <2>6. GroupInv' /\ (NoGroup => NoGroup')
    BY <2>3 DEF GroupInv, NoGroup, Alive
  <2> QED BY <1>1, <2>5, <2>6 DEF Sampled
<1>2. CASE blind' = TRUE /\ UNCHANGED <<registry, world>>
  BY <1>2 DEF world, GroupInv, SeenInv, NoGroup, Alive, Listed, Identity
<1> QED BY <1>1, <1>2 DEF Sample

----------------------------------------------------------------------------
(* How far the ending is.                                                   *)

LegacyEarly == {<<"poll">>, <<"sample">>, <<"sleep">>, LTree, LGrace, LKill, LReap, LSweep}
GuardianEarly == {<<"watch">>, <<"watch", "watch">>, GuardianEnd, GTerm, GTree, GGrace, GKill, GReap}
OwnerEarly == {<<"watch">>, OwnerEnd, OTerm, ONap, OLast}

\* What the last signal of a registry is for: every group it knows, if ps answered.
AimsAtKnown == blind \/ targets = {t[2] : t \in registry.known}

\* Each ending, from what holds before its sweep to what holds when it is done.
LegacyPhase ==
    \/ todo \in LegacyEarly
    \/ todo = LSweepKill /\ Root \in targets
    \/ todo \in {LJoin, LWait} /\ NoGroup
    \/ todo = <<>> /\ NoGroup /\ Reaped(Root)

GuardianPhase ==
    \/ todo \in GuardianEarly
    \/ todo = GSweep /\ Reaped(Root)
    \/ todo = GSweepKill /\ Reaped(Root) /\ Root \in targets
    \/ todo = GLast /\ Reaped(Root) /\ NoGroup
    \/ todo = <<"kill">> /\ Reaped(Root) /\ NoGroup /\ AimsAtKnown
    \/ todo = <<>> /\ Reaped(Root) /\ NoGroup /\ (blind \/ NoSeen)

OwnerPhase ==
    \/ todo \in OwnerEarly
    \/ todo = <<"kill">> /\ AimsAtKnown
    \/ todo = <<>> /\ (blind \/ NoSeen)

Phase ==
    \/ role = "legacy" /\ LegacyPhase
    \/ role = "guardian" /\ GuardianPhase
    \/ role = "owner" /\ OwnerPhase

\* Which phase it is when nothing is left to do.
LEMMA PhaseOfDone ==
  ASSUME Phase, Done
  PROVE  /\ role # "owner" => NoGroup /\ Reaped(Root)
         /\ role # "legacy" => blind \/ NoSeen
<1>1. /\ <<"poll">> # <<>> /\ <<"sample">> # <<>> /\ <<"sleep">> # <<>> /\ <<"watch">> # <<>>
      /\ <<"watch", "watch">> # <<>> /\ <<"kill">> # <<>> /\ <<"regKill", "kill">> # <<>>
  OBVIOUS
<1>2. /\ LTree # <<>> /\ LGrace # <<>> /\ LKill # <<>> /\ LReap # <<>> /\ LSweep # <<>>
      /\ LSweepKill # <<>> /\ LJoin # <<>> /\ LWait # <<>>
  BY Endings DEF LGrace, LKill, LReap, LSweep, LSweepKill, LJoin, LWait
<1>3. /\ GuardianEnd # <<>> /\ GTerm # <<>> /\ GTree # <<>> /\ GGrace # <<>> /\ GKill # <<>>
      /\ GReap # <<>> /\ GSweep # <<>> /\ GSweepKill # <<>> /\ GLast # <<>>
  BY Endings DEF GTerm, GTree, GGrace, GKill, GReap, GSweep, GSweepKill, GLast
<1>4. OwnerEnd # <<>> /\ OTerm # <<>> /\ ONap # <<>> /\ OLast # <<>>
  BY DEF OwnerEnd, OTerm, ONap, OLast
<1>5. CASE role = "legacy" /\ LegacyPhase
  BY <1>1, <1>2, <1>5 DEF LegacyPhase, LegacyEarly, Done
<1>6. CASE role = "guardian" /\ GuardianPhase
  BY <1>1, <1>3, <1>6 DEF GuardianPhase, GuardianEarly, Done
<1>7. CASE role = "owner" /\ OwnerPhase
  BY <1>1, <1>4, <1>7 DEF OwnerPhase, OwnerEarly, Done
<1> QED BY <1>5, <1>6, <1>7 DEF Phase

\* Which phase it is that takes a step.
LEMMA PhaseOfStep ==
  ASSUME Phase
  PROVE  /\ At("poll") \/ At("sample") \/ At("sleep") => role = "legacy"
         /\ At("tree") => (role = "legacy" /\ todo = LTree) \/ (role = "guardian" /\ todo = GTree)
         /\ At("grace") => (role = "legacy" /\ todo = LGrace) \/ (role = "guardian" /\ todo = GGrace)
         /\ At("reap") => (role = "legacy" /\ todo = LReap) \/ (role = "guardian" /\ todo = GReap)
         /\ At("sweep") => \/ role = "legacy" /\ todo = LSweep
                           \/ role = "guardian" /\ todo = GSweep /\ Reaped(Root)
         /\ At("kill") => \/ role = "legacy" /\ todo = LKill
                          \/ role = "legacy" /\ todo = LSweepKill /\ Root \in targets
                          \/ role = "guardian" /\ todo = GKill
                          \/ role = "guardian" /\ todo = GSweepKill /\ Reaped(Root) /\ Root \in targets
                          \/ role = "guardian" /\ todo = <<"kill">> /\ Reaped(Root) /\ NoGroup /\ AimsAtKnown
                          \/ role = "owner" /\ todo = <<"kill">> /\ AimsAtKnown
         /\ At("regTerm") => \/ role = "guardian" /\ todo = GuardianEnd
                             \/ role = "owner" /\ todo = OwnerEnd
         /\ At("term") => (role = "guardian" /\ todo = GTerm) \/ (role = "owner" /\ todo = OTerm)
         /\ At("regKill") => \/ role = "guardian" /\ todo = GLast /\ Reaped(Root) /\ NoGroup
                             \/ role = "owner" /\ todo = OLast
         /\ At("nap") => role = "owner" /\ todo = ONap
         /\ At("joinOutput") => role = "legacy" /\ todo = LJoin /\ NoGroup
         /\ At("waitServer") => role = "legacy" /\ todo = LWait /\ NoGroup
<1>1. CASE role = "legacy" /\ LegacyPhase
  BY <1>1, LegacyHeads, ShortHeads DEF LegacyPhase, LegacyEarly, At
<1>2. CASE role = "guardian" /\ GuardianPhase
  BY <1>2, GuardianHeads, ShortHeads DEF GuardianPhase, GuardianEarly, At
<1>3. CASE role = "owner" /\ OwnerPhase
  BY <1>3, OwnerHeads, ShortHeads DEF OwnerPhase, OwnerEarly, At
<1> QED BY <1>1, <1>2, <1>3 DEF Phase

\* A step that leaves the plan alone.
LEMMA PhaseKept ==
  ASSUME Phase, UNCHANGED <<role, todo, targets, registry, blind>>, children' \subseteq children,
         NoGroup => NoGroup', NoSeen => NoSeen'
  PROVE  Phase'
BY DEF Phase, LegacyPhase, GuardianPhase, OwnerPhase, AimsAtKnown, Reaped

\* A step that only looks at the world, or reaps a child.
LEMMA ReapKeeps ==
  ASSUME WorldInv, WorldInv', GroupInv, SeenInv, NEW p \in Pids, Reap(p) \/ UNCHANGED world,
         UNCHANGED registry
  PROVE  /\ GroupInv' /\ SeenInv' /\ (NoGroup => NoGroup') /\ (NoSeen => NoSeen')
         /\ children' \subseteq children /\ (Reap(p) => Reaped(p)')
<1>1. CASE Reap(p)
  BY <1>1, ReapEvolves, EvolvesStep, SeenStep DEF Evolves, Reaped
<1>2. CASE UNCHANGED world
  BY <1>2 DEF world, GroupInv, SeenInv, NoGroup, NoSeen, Alive, Listed, Identity, Ours, Reap
<1> QED BY <1>1, <1>2

\* The kill of a sweep takes whoever has not escaped, and the registry's last one whom it knows.
LEMMA KillReaches ==
  ASSUME WorldInv, WorldInv', GroupInv, SeenInv, Kill(targets), UNCHANGED registry
  PROVE  /\ GroupInv' /\ SeenInv' /\ (NoGroup => NoGroup') /\ (NoSeen => NoSeen')
         /\ children' \subseteq children
         /\ Root \in targets => NoGroup'
         /\ targets = {t[2] : t \in registry.known} => NoSeen'
<1> DEFINE dead == {p \in Alive : table[p].group \in targets}
<1>1. Evolves /\ \A p \in Alive' : p \in Alive \ dead /\ table'[p].kin = table[p].kin
  BY DieEvolves DEF Kill
<1>2. /\ GroupInv' /\ SeenInv' /\ (NoGroup => NoGroup') /\ (NoSeen => NoSeen')
      /\ children' \subseteq children
  BY <1>1, EvolvesStep, SeenStep DEF Evolves
<1>3. Root \in targets => NoGroup'
  BY <1>1 DEF NoGroup, GroupInv, Alive
<1>4. ASSUME targets = {t[2] : t \in registry.known} PROVE NoSeen'
  <2> SUFFICES ASSUME NEW p \in Alive', table'[p].seen PROVE FALSE
    BY DEF NoSeen
  <2>1. p \in Listed' /\ p \in Alive \ dead
    BY <1>1 DEF Alive
  <2>2. Identity(p)' \in registry.known
    BY <1>2, <2>1 DEF SeenInv
  <2>3. table'[p].group \in targets
    BY <1>4, <2>2 DEF Identity
  <2>4. table'[p].group = table[p].group
    BY <1>1, <2>1 DEF Evolves, RowUnseen, RowNew
  <2> QED BY <2>1, <2>3, <2>4
<1> QED BY <1>2, <1>3, <1>4

CleanupInv == Inv /\ GroupInv /\ SeenInv /\ Phase

LEMMA CleanupStep == CleanupInv /\ [Next]_vars => CleanupInv'
<1> SUFFICES ASSUME CleanupInv, [Next]_vars PROVE GroupInv' /\ SeenInv' /\ Phase'
  BY InvStep DEF CleanupInv
<1>1. /\ WorldInv /\ GroupInv /\ SeenInv /\ Phase /\ WorldInv'
  BY InvStep DEF CleanupInv, Inv
<1>2. ASSUME UNCHANGED <<world, registry>>
      PROVE  /\ GroupInv' /\ SeenInv' /\ (NoGroup => NoGroup') /\ (NoSeen => NoSeen')
             /\ children' = children
  BY <1>1, <1>2 DEF world, GroupInv, SeenInv, NoGroup, NoSeen, Alive, Listed, Identity, Ours
<1>3. ASSUME NEW p \in Pids, Reap(p) \/ UNCHANGED world, UNCHANGED sampling
      PROVE  /\ GroupInv' /\ SeenInv' /\ (NoGroup => NoGroup') /\ (NoSeen => NoSeen')
             /\ children' \subseteq children /\ (Reap(p) => Reaped(p)')
  BY <1>1, <1>3, ReapKeeps DEF sampling
\* The loops.
<1>4. ASSUME LegacySeesExit \/ LegacyEofExpires \/ LegacyEvaluates \/ LegacySamples
      PROVE  GroupInv' /\ SeenInv' /\ Phase'
  <2>1. role = "legacy" /\ role' = role /\ todo' \in LegacyEarly
    BY <1>1, <1>4, PhaseOfStep, LegacyHeads
       DEF LegacySeesExit, LegacyEofExpires, LegacyEvaluates, LegacySamples, LoopOver, LegacyEarly, LTree
  <2>2. (\E p \in Pids : Reap(p) \/ UNCHANGED world) /\ UNCHANGED sampling
    BY <1>4 DEF LegacySeesExit, LegacyEofExpires, LegacyEvaluates, LegacySamples
  <2> QED BY <1>3, <2>1, <2>2 DEF Phase, LegacyPhase
<1>5. ASSUME GuardianWatches PROVE GroupInv' /\ SeenInv' /\ Phase'
  <2>1. role = "guardian" /\ role' = role /\ todo' \in GuardianEarly
    BY <1>5 DEF GuardianWatches, LoopOver, GuardianEarly
  <2>2. (\E p \in Pids : Reap(p) \/ UNCHANGED world) /\ UNCHANGED sampling
    BY <1>5 DEF GuardianWatches
  <2> QED BY <1>3, <2>1, <2>2 DEF Phase, GuardianPhase
<1>6. ASSUME OwnerDrops PROVE GroupInv' /\ SeenInv' /\ Phase'
  BY <1>2, <1>6 DEF OwnerDrops, LoopOver, OwnerEarly, Phase, OwnerPhase, sampling
\* The registry.
<1>7. ASSUME GuardianSamples PROVE GroupInv' /\ SeenInv' /\ Phase'
  BY <1>1, <1>7, SampleKeeps DEF GuardianSamples, GuardianEarly, Phase, GuardianPhase
<1>8. ASSUME RegistryLooks PROVE GroupInv' /\ SeenInv' /\ Phase'
  <2>1. /\ GroupInv' /\ SeenInv' /\ (NoGroup => NoGroup') /\ children' \subseteq children
        /\ role' = role /\ todo' = Tail(todo) /\ AimsAtKnown'
    BY <1>1, <1>8, SampleKeeps DEF RegistryLooks, Advance, AimsAtKnown
  <2>2. CASE At("regTerm")
    BY <1>1, <2>1, <2>2, PhaseOfStep
       DEF Phase, GuardianPhase, OwnerPhase, GuardianEarly, OwnerEarly, GTerm, OTerm
  <2>3. CASE At("regKill")
    BY <1>1, <2>1, <2>3, PhaseOfStep, GuardianHeads, OwnerHeads, ShortHeads
       DEF Phase, GuardianPhase, OwnerPhase, Reaped
  <2> QED BY <1>8, <2>2, <2>3 DEF RegistryLooks
<1>9. ASSUME RegistryTerms PROVE GroupInv' /\ SeenInv' /\ Phase'
  <2>1. role' = role /\ todo' = Tail(todo) /\ At("term") /\ UNCHANGED <<world, registry>>
    BY <1>9 DEF RegistryTerms, Advance, sampling
  <2> QED BY <1>1, <1>2, <2>1, PhaseOfStep
          DEF Phase, GuardianPhase, OwnerPhase, GuardianEarly, OwnerEarly, GTree, ONap
\* The endings.
<1>10. ASSUME TreeLooks PROVE GroupInv' /\ SeenInv' /\ Phase'
  <2>1. /\ role' = role /\ todo' = Tail(todo) /\ UNCHANGED <<world, registry>> /\ Root \in targets'
        /\ At("tree") \/ At("sweep")
    BY <1>10 DEF TreeLooks, Advance, sampling, TreeGroups
  <2>2. CASE At("tree")
    BY <1>1, <1>2, <2>1, <2>2, PhaseOfStep
       DEF Phase, LegacyPhase, GuardianPhase, LegacyEarly, GuardianEarly, LGrace, GGrace
  <2>3. CASE At("sweep")
    BY <1>1, <1>2, <2>1, <2>3, PhaseOfStep
       DEF Phase, LegacyPhase, GuardianPhase, LSweepKill, GSweepKill, Reaped
  <2> QED BY <2>1, <2>2, <2>3
<1>11. ASSUME GraceEnds PROVE GroupInv' /\ SeenInv' /\ Phase'
  <2>1. role' = role /\ todo' = Tail(todo) /\ At("grace")
        /\ \E p \in Pids : Reap(p) \/ UNCHANGED world
    BY <1>11 DEF GraceEnds, Advance, Child
  <2> QED BY <1>1, <1>3, <1>11, <2>1, PhaseOfStep
          DEF GraceEnds, Phase, LegacyPhase, GuardianPhase, LegacyEarly, GuardianEarly, LKill, GKill
<1>12. ASSUME KillTargets PROVE GroupInv' /\ SeenInv' /\ Phase'
  <2>1. role' = role /\ todo' = Tail(todo) /\ At("kill") /\ blind' = blind
    BY <1>12 DEF KillTargets, Advance, sampling
  <2>2. /\ GroupInv' /\ SeenInv' /\ (NoGroup => NoGroup') /\ (NoSeen => NoSeen')
        /\ children' \subseteq children
        /\ Root \in targets => NoGroup'
        /\ targets = {t[2] : t \in registry.known} => NoSeen'
    BY <1>1, <1>12, KillReaches DEF KillTargets, sampling
  <2>3. CASE (role = "legacy" /\ todo = LKill) \/ (role = "guardian" /\ todo = GKill)
    BY <2>1, <2>2, <2>3 DEF Phase, LegacyPhase, GuardianPhase, LegacyEarly, GuardianEarly, LReap, GReap
  <2>4. CASE role = "legacy" /\ todo = LSweepKill /\ Root \in targets
    BY <2>1, <2>2, <2>4 DEF Phase, LegacyPhase, LJoin
  <2>5. CASE role = "guardian" /\ todo = GSweepKill /\ Reaped(Root) /\ Root \in targets
    BY <2>1, <2>2, <2>5 DEF Phase, GuardianPhase, GLast, Reaped
  <2>6. CASE role = "guardian" /\ todo = <<"kill">> /\ Reaped(Root) /\ NoGroup /\ AimsAtKnown
    BY <2>1, <2>2, <2>6, ShortHeads DEF Phase, GuardianPhase, AimsAtKnown, Reaped
  <2>7. CASE role = "owner" /\ todo = <<"kill">> /\ AimsAtKnown
    BY <2>1, <2>2, <2>7, ShortHeads DEF Phase, OwnerPhase, AimsAtKnown
  <2>8. \/ role = "legacy" /\ todo = LKill
        \/ role = "legacy" /\ todo = LSweepKill /\ Root \in targets
        \/ role = "guardian" /\ todo = GKill
        \/ role = "guardian" /\ todo = GSweepKill /\ Reaped(Root) /\ Root \in targets
        \/ role = "guardian" /\ todo = <<"kill">> /\ Reaped(Root) /\ NoGroup /\ AimsAtKnown
        \/ role = "owner" /\ todo = <<"kill">> /\ AimsAtKnown
    BY <1>1, <2>1, PhaseOfStep
  <2>9. Phase'
    BY <2>3, <2>4, <2>5, <2>6, <2>7, <2>8
  <2> QED BY <2>2, <2>9
<1>13. ASSUME WaitFor("reap", Child) PROVE GroupInv' /\ SeenInv' /\ Phase'
  <2>1. /\ role' = role /\ todo' = Tail(todo) /\ At("reap") /\ UNCHANGED sampling
        /\ Child \in Pids /\ (Reap(Child) \/ (Reaped(Child) /\ UNCHANGED world))
    BY <1>13 DEF WaitFor, Advance, Child
  <2>2. GroupInv' /\ SeenInv' /\ Reaped(Child)'
    <3>1. CASE Reap(Child)
      BY <1>3, <2>1, <3>1 DEF Child, Reap, Reaped
    <3>2. CASE Reaped(Child) /\ UNCHANGED world
      BY <1>3, <2>1, <3>2 DEF Reaped, world, Child
    <3> QED BY <2>1, <3>1, <3>2
  <2> QED BY <1>1, <2>1, <2>2, PhaseOfStep
          DEF Phase, LegacyPhase, GuardianPhase, LegacyEarly, LSweep, GSweep, Child
<1>14. ASSUME WaitFor("waitServer", Root) PROVE GroupInv' /\ SeenInv' /\ Phase'
  <2>1. /\ role' = role /\ todo' = Tail(todo) /\ At("waitServer") /\ UNCHANGED sampling
        /\ Reap(Root) \/ (Reaped(Root) /\ UNCHANGED world)
    BY <1>14 DEF WaitFor, Advance
  <2>2. GroupInv' /\ SeenInv' /\ (NoGroup => NoGroup') /\ Reaped(Root)'
    BY <1>3, <2>1 DEF Reaped, world
  <2> QED BY <1>1, <2>1, <2>2, PhaseOfStep, LegacyHeads DEF Phase, LegacyPhase
<1>15. ASSUME NapEnds PROVE GroupInv' /\ SeenInv' /\ Phase'
  BY <1>1, <1>2, <1>15, PhaseOfStep
     DEF NapEnds, Advance, sampling, Phase, OwnerPhase, OwnerEarly, OLast
<1>16. ASSUME OutputJoined PROVE GroupInv' /\ SeenInv' /\ Phase'
  BY <1>1, <1>2, <1>16, PhaseOfStep
     DEF OutputJoined, Advance, sampling, Phase, LegacyPhase, LWait
\* The clock and the others.
<1>17. ASSUME Tick PROVE GroupInv' /\ SeenInv' /\ Phase'
  <2>1. UNCHANGED <<world, role, targets, registry, blind>>
    BY <1>17 DEF Tick, sampling
  <2>2. CASE At("sleep") /\ todo' = <<"poll">>
    BY <1>1, <1>2, <2>1, <2>2, PhaseOfStep DEF Phase, LegacyPhase, LegacyEarly
  <2>3. CASE UNCHANGED todo
    BY <1>1, <1>2, <2>1, <2>3, PhaseKept
  <2> QED BY <1>17, <2>2, <2>3 DEF Tick
<1>18. ASSUME Traffic \/ ClientCloses \/ UNCHANGED vars PROVE GroupInv' /\ SeenInv' /\ Phase'
  <2>1. UNCHANGED <<world, plan, sampling>>
    BY <1>18 DEF Traffic, ClientCloses, vars
  <2> QED BY <1>1, <1>2, <2>1, PhaseKept DEF plan, sampling
<1>19. ASSUME Processes PROVE GroupInv' /\ SeenInv' /\ Phase'
  <2>1. UNCHANGED <<plan, sampling>>
    BY <1>19 DEF Processes
  <2>2. ASSUME NEW p \in Pids, NEW q \in Pids, Fork(p, q) \/ Foreign(q) \/ LeaveGroup(p) \/ Exit(p)
        PROVE  Evolves
    BY <1>1, <2>2, StartEvolves, LeaveEvolves, DieEvolves DEF Exit
  <2>3. Evolves
    BY <1>19, <2>2 DEF Processes
  <2> QED BY <1>1, <2>1, <2>3, EvolvesStep, SeenStep, PhaseKept DEF plan, sampling, Evolves
<1> QED BY <1>4, <1>5, <1>6, <1>7, <1>8, <1>9, <1>10, <1>11, <1>12, <1>13, <1>14, <1>15, <1>16, <1>17,
           <1>18, <1>19 DEF Next, Supervise

LEMMA CleanupInit == Init => CleanupInv
<1> SUFFICES ASSUME Init PROVE GroupInv /\ SeenInv /\ Phase
  BY InvInit DEF CleanupInv
<1>1. PICK proxies \in {0, 1}, held \in SUBSET Pids : InitWorld(proxies, held)
  BY DEF Init
<1>2. \A p \in Listed : table[p].group = Root /\ ~table[p].seen
  BY <1>1 DEF InitWorld, Listed, Process, Free
<1>3. Phase
  BY DEF Init, Phase, LegacyPhase, GuardianPhase, OwnerPhase, LegacyEarly, GuardianEarly, OwnerEarly
<1> QED BY <1>2, <1>3 DEF GroupInv, SeenInv

\* For any worker, however it forks and whatever its processes ignore: when run() or a guardian has
\* ended, nobody who had not left the worker's group is alive, and the server is reaped.
THEOREM GroupGone == Spec => []GroupIsGone
<1>1. CleanupInv => GroupIsGone
  <2> SUFFICES ASSUME CleanupInv, Done, role # "owner"
               PROVE  Reaped(Root) /\ \A p \in Alive : table[p].kin \in {"escaped", "foreign"}
    BY DEF GroupIsGone
  <2>1. NoGroup /\ Reaped(Root)
    BY PhaseOfDone DEF CleanupInv
  <2>2. \A p \in Alive : table[p].kin \in Kin
    BY ListedAreRows DEF CleanupInv, Inv, WorldInv, Alive, Rows
  <2> QED BY <2>1, <2>2 DEF NoGroup, GroupKin, Kin
<1> QED BY <1>1, CleanupInit, CleanupStep, PTL DEF Spec

\* For any worker: when a guardian or an owner has ended it and its last sample did not fail,
\* nothing of the worker is alive in a group a sample ever showed it in.
THEOREM SampledAreReaped == Spec => []SampledIsReaped
<1>1. CleanupInv => SampledIsReaped
  BY PhaseOfDone DEF CleanupInv, SampledIsReaped, NoSeen
<1> QED BY <1>1, CleanupInit, CleanupStep, PTL DEF Spec

=============================================================================
