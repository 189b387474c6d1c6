--------------------------- MODULE SupervisorProofs ---------------------------
(****************************************************************************)
(* What the registry remembers and what is signalled, for any number of     *)
(* processes, any reuse of their numbers and any failures of ps.            *)
(****************************************************************************)
EXTENDS Supervisor, TLAPS

USE ProcessAssumption DEF ProcessAssumption

----------------------------------------------------------------------------
(* The process table.                                                       *)

\* Only processes of the worker have a parent in the table, the server was started first, and
\* until the supervisor reaps it the server has its number.
WorldInv ==
    /\ table \in [Pids -> Rows \cup {Free}]
    /\ starts \in 1..MaxStarts
    /\ children \subseteq Listed
    /\ \A p \in Listed : table[p].start <= starts
    /\ \A p \in Listed : table[p].parent \in Pids => Ours(p)
    /\ \A p \in Listed : table[p].start = 1 => Ours(p)
    /\ Root \in children =>
          table[Root].group = Root /\ table[Root].start = 1 /\ table[Root].kin = "server"

\* A process keeps its start time and its kin as far as the worker is concerned; a new one
\* starts later than all before.
Grows ==
    /\ starts <= starts' /\ children' \subseteq children
    /\ \A p \in Listed' :
          \/ table'[p].start > starts
          \/ p \in Listed /\ table'[p].start = table[p].start /\ (Ours(p) => Ours(p)')

LEMMA ListedAreRows ==
  ASSUME table \in [Pids -> Rows \cup {Free}], NEW p \in Listed
  PROVE  p \in Pids /\ table[p] \in Rows
BY DEF Listed

LEMMA StartStep ==
  ASSUME WorldInv, NEW q \in Pids, NEW row, Start(q, row), UNCHANGED children,
         row \in Rows \/ starts = MaxStarts, row.start = starts + 1,
         row.parent \in Pids => row.kin # "foreign"
  PROVE  WorldInv' /\ Grows
<1>1. /\ starts \in Nat /\ starts' = starts + 1 /\ starts' \in 1..MaxStarts /\ row \in Rows
      /\ q \notin Listed /\ children' = children
  BY DEF Start, Unused, Listed, WorldInv
<1>2. table' \in [Pids -> Rows \cup {Free}]
  BY <1>1 DEF Start, WorldInv
<1>3. table'[q] = row /\ \A p \in Pids \ {q} : table'[p] = table[p]
  BY DEF Start, WorldInv
<1>4. row # Free
  BY <1>1 DEF Free, Rows
<1>5. Listed' = Listed \cup {q}
  BY <1>1, <1>3, <1>4 DEF Listed
<1>6. \A p \in Listed' : p = q \/ (p \in Listed /\ table'[p] = table[p] /\ table[p] \in Rows)
  BY <1>3, <1>5, ListedAreRows DEF WorldInv
<1>7. \A p \in Listed : table[p].start \in Nat
  BY ListedAreRows DEF WorldInv, Rows
<1>8. Grows
  BY <1>1, <1>3, <1>6 DEF Grows, Ours
<1>9. \A p \in Listed' : /\ table'[p].start <= starts'
                         /\ table'[p].parent \in Pids => Ours(p)'
                         /\ table'[p].start = 1 => Ours(p)'
  BY <1>1, <1>3, <1>6, <1>7 DEF WorldInv, Ours
<1>10. Root \in children' => table'[Root] = table[Root]
  BY <1>1, <1>3 DEF WorldInv
<1> QED BY <1>1, <1>2, <1>5, <1>8, <1>9, <1>10 DEF WorldInv

\* Processes that end, change their group or are recorded.
LEMMA ChangeStep ==
  ASSUME WorldInv, starts' = starts, children' \subseteq children, children' \subseteq Listed',
         table' \in [Pids -> Rows \cup {Free}],
         \A p \in Pids : \/ table'[p] = Free
                         \/ /\ table[p] \in Rows /\ table'[p] \in Rows
                            /\ table'[p].start = table[p].start
                            /\ table'[p].parent \in {table[p].parent, Outside}
                            /\ table[p].kin # "foreign" => table'[p].kin # "foreign"
                            /\ table[p].kin = "server" =>
                                  table'[p].kin = "server" /\ table'[p].group = table[p].group
  PROVE  WorldInv' /\ Grows
<1>1. \A p \in Listed' : /\ p \in Listed /\ table[p] \in Rows /\ table'[p] \in Rows
                         /\ table'[p].start = table[p].start
                         /\ table'[p].parent \in {table[p].parent, Outside}
                         /\ Ours(p) => Ours(p)'
  BY DEF Listed, Ours, Free, Rows
<1>2. Grows
  BY <1>1 DEF Grows, WorldInv
<1>3. \A p \in Listed' : /\ table'[p].start <= starts'
                         /\ table'[p].parent \in Pids => Ours(p)'
                         /\ table'[p].start = 1 => Ours(p)'
  BY <1>1 DEF WorldInv
<1>4. Root \in children' => Root \in Listed' /\ Root \in children
  OBVIOUS
<1>5. Root \in children' =>
          table'[Root].group = Root /\ table'[Root].start = 1 /\ table'[Root].kin = "server"
  BY <1>1, <1>4 DEF WorldInv, Listed
<1> QED BY <1>2, <1>3, <1>5 DEF WorldInv

\* What becomes of a row whose process dies, is orphaned or is recorded.
LEMMA ChangedRow ==
  ASSUME NEW r \in Rows, NEW s, s = [r EXCEPT !.zombie = TRUE]
                                \/ s = [r EXCEPT !.parent = Outside] \/ s = [r EXCEPT !.seen = TRUE]
  PROVE  /\ s \in Rows /\ s # Free /\ s.start = r.start
         /\ s.parent \in {r.parent, Outside} /\ s.kin = r.kin /\ s.group = r.group
<1>1. s \in Rows
  <2>1. CASE s = [r EXCEPT !.zombie = TRUE]
    BY <2>1 DEF Rows
  <2>2. CASE s = [r EXCEPT !.parent = Outside]
    BY <2>2 DEF Rows
  <2>3. CASE s = [r EXCEPT !.seen = TRUE]
    BY <2>3 DEF Rows
  <2> QED BY <2>1, <2>2, <2>3
<1>2. s # Free
  BY <1>1 DEF Rows, Free
<1>3. s.start = r.start
  BY DEF Rows
<1>4. s.parent \in {r.parent, Outside}
  BY DEF Rows
<1>5. s.kin = r.kin
  BY DEF Rows
<1>6. s.group = r.group
  BY DEF Rows
<1> QED BY <1>1, <1>2, <1>3, <1>4, <1>5, <1>6

LEMMA DieStep ==
  ASSUME WorldInv, NEW dead \in SUBSET Alive, Die(dead), UNCHANGED <<starts, children>>
  PROVE  WorldInv' /\ Grows
<1>1. \A p \in Pids : table[p] \in Rows \/ table[p] = Free
  BY DEF WorldInv
<1>2. dead \subseteq Listed /\ \A p \in Listed : table[p] \in Rows
  BY ListedAreRows DEF Alive, WorldInv
<1>3. \A r \in Rows : [r EXCEPT !.zombie = TRUE] \in Rows /\ [r EXCEPT !.parent = Outside] \in Rows
  BY ChangedRow
<1>4. table' \in [Pids -> Rows \cup {Free}]
  BY <1>1, <1>2, <1>3 DEF Die
<1>5. \A p \in Pids : \/ table'[p] = Free
                      \/ table[p] \in Rows /\ table'[p] \in {table[p], [table[p] EXCEPT !.zombie = TRUE],
                                                             [table[p] EXCEPT !.parent = Outside]}
  BY <1>1, <1>2 DEF Die
<1>6. \A p \in children : table'[p] # Free
  <2> SUFFICES ASSUME NEW p \in children PROVE table'[p] # Free
    OBVIOUS
  <2>1. p \in Listed /\ p \in Pids /\ table[p] \in Rows
    BY <1>2 DEF WorldInv, Listed
  <2>2. table'[p] \in Rows
    BY <1>3, <2>1 DEF Die
  <2> QED BY <2>2 DEF Free, Rows
<1>7. children' \subseteq Listed'
  BY <1>6 DEF Listed, WorldInv
<1>8. ASSUME NEW p \in Pids, table'[p] # Free
      PROVE  /\ table[p] \in Rows /\ table'[p] \in Rows
             /\ table'[p].start = table[p].start
             /\ table'[p].parent \in {table[p].parent, Outside}
             /\ table'[p].kin = table[p].kin /\ table'[p].group = table[p].group
  BY <1>5, <1>8, ChangedRow
<1> QED BY <1>4, <1>7, <1>8, ChangeStep

LEMMA ReapStep ==
  ASSUME WorldInv, NEW p \in Pids, Reap(p)
  PROVE  WorldInv' /\ Grows
<1>1. /\ table' = [table EXCEPT ![p] = Free] /\ children' = children \ {p} /\ starts' = starts
  BY DEF Reap
<1>2. table' \in [Pids -> Rows \cup {Free}]
  BY <1>1 DEF WorldInv
<1>3. children' \subseteq Listed'
  BY <1>1 DEF Listed, WorldInv
<1> QED BY <1>1, <1>2, <1>3, ChangeStep DEF WorldInv

LEMMA RecordStep ==
  ASSUME WorldInv, NEW known, Sampled(known)
  PROVE  WorldInv' /\ Grows
<1>1. \A r \in Rows : [r EXCEPT !.seen = TRUE] \in Rows
  BY ChangedRow
<1>2. \A p \in Listed : p \in Pids /\ table[p] \in Rows
  BY ListedAreRows DEF WorldInv
<1>3. table' \in [Pids -> Rows \cup {Free}]
  BY <1>1, <1>2 DEF Sampled, Recorded, WorldInv
<1>4. \A p \in Pids : table'[p] = table[p]
                      \/ (table[p] \in Rows /\ table'[p] = [table[p] EXCEPT !.seen = TRUE])
  BY <1>2 DEF Sampled, Recorded
<1>5. ASSUME NEW p \in Listed
      PROVE  /\ table'[p] # Free /\ table[p] \in Rows /\ table'[p] \in Rows
             /\ table'[p].start = table[p].start
             /\ table'[p].parent \in {table[p].parent, Outside}
             /\ table'[p].kin = table[p].kin /\ table'[p].group = table[p].group
  <2>1. CASE table'[p] = table[p]
    BY <1>2, <1>5, <2>1 DEF Listed
  <2>2. CASE table'[p] = [table[p] EXCEPT !.seen = TRUE]
    BY <1>2, <1>5, <2>2, ChangedRow
  <2> QED BY <1>2, <1>4, <1>5, <2>1, <2>2
<1>6. children' \subseteq Listed'
  BY <1>5 DEF Sampled, Listed, WorldInv
<1>7. \A p \in Pids : p \in Listed \/ table'[p] = Free
  BY <1>4 DEF Listed, Free, Rows
<1> QED BY <1>3, <1>5, <1>6, <1>7, ChangeStep DEF Sampled

LEMMA LeaveStep ==
  ASSUME WorldInv, NEW p \in Pids, LeaveGroup(p)
  PROVE  WorldInv' /\ Grows
<1>1. p \in Listed /\ table[p] \in Rows
  BY ListedAreRows DEF LeaveGroup, Alive, WorldInv
<1> DEFINE row == [[[table[p] EXCEPT !.group = p] EXCEPT !.kin = "escaped"] EXCEPT !.seen = FALSE]
<1>2. /\ row \in Rows /\ row.start = table[p].start /\ row.parent = table[p].parent
      /\ row.kin = "escaped" /\ table[p].kin # "server"
  BY <1>1 DEF Rows, LeaveGroup, Kin
<1>3. table' = [table EXCEPT ![p] = row]
  BY DEF LeaveGroup, WorldInv
<1> HIDE DEF row
<1>4. table' \in [Pids -> Rows \cup {Free}]
  BY <1>2, <1>3 DEF WorldInv
<1>5. table'[p] = row /\ \A o \in Pids \ {p} : table'[o] = table[o]
  BY <1>3 DEF WorldInv
<1>6. row # Free
  BY <1>2 DEF Rows, Free
<1>7. children' \subseteq Listed'
  BY <1>5, <1>6 DEF LeaveGroup, Listed, WorldInv
<1> QED BY <1>1, <1>2, <1>4, <1>5, <1>7, ChangeStep DEF LeaveGroup, WorldInv

LEMMA ForkStep ==
  ASSUME WorldInv, NEW p \in Pids, NEW q \in Pids, Fork(p, q) \/ Foreign(q)
  PROVE  WorldInv' /\ Grows
<1>1. starts < MaxStarts /\ starts \in Nat
  BY DEF Fork, Foreign, Start, WorldInv
<1>2. \A parent \in Pids \cup {Outside}, group \in Pids, kin \in Kin :
         Process(parent, group, starts + 1, kin) \in Rows
  BY <1>1 DEF Process, Rows
<1>3. CASE Fork(p, q)
  <2>1. table[p].group \in Pids
    BY <1>3, ListedAreRows DEF Fork, Alive, Rows, WorldInv
  <2>2. PICK kin \in {"escaped", "worker"} : Start(q, Process(p, table[p].group, starts + 1, kin))
    BY <1>3 DEF Fork
  <2>3. Process(p, table[p].group, starts + 1, kin) \in Rows
    BY <1>2, <2>1 DEF Kin
  <2> QED BY <1>3, <2>2, <2>3, StartStep DEF Fork, Process
<1>4. CASE Foreign(q)
  <2>1. Process(Outside, q, starts + 1, "foreign") \in Rows
    BY <1>2 DEF Kin
  <2> QED BY <1>4, <2>1, StartStep DEF Foreign, Process
<1> QED BY <1>3, <1>4

----------------------------------------------------------------------------
(* The registry.                                                            *)

\* A registry that has seen the server knows start times of the worker only, and the server
\* cannot be mistaken before it is reaped.
KnownInv ==
    /\ \A t \in registry.known : t[3] \in Nat /\ t[3] <= starts
    /\ RootSeen => \A t \in registry.known : \A p \in Listed :
                      t[1] = p /\ t[3] = table[p].start => Ours(p)
    /\ registry.stamp = 0 => registry.known = {}
    /\ Root \in children => registry.stamp \in {0, 1}

\* Below closes over parents, and only the worker's processes have one.
LEMMA BelowIsOurs ==
  ASSUME WorldInv, NEW heads, \A p \in heads \cap Listed : Ours(p), heads \subseteq Pids
  PROVE  Below(heads) \subseteq {p \in Listed : Ours(p)}
<1> DEFINE S == {p \in Listed : Ours(p)}
<1>1. S \in SUBSET Listed
  OBVIOUS
<1>2. {q \in Listed : table[q].parent \in S \cup heads} \subseteq S
  BY DEF WorldInv, Listed
<1>3. heads \cap Listed \subseteq S
  OBVIOUS
<1> HIDE DEF S
<1>4. \A p \in Below(heads) : p \in S
  BY <1>1, <1>2, <1>3 DEF Below
<1> QED BY <1>4 DEF S

LEMMA BelowIsListed == ASSUME NEW heads PROVE Below(heads) \subseteq Listed
BY DEF Below

\* Nothing in the table descends from no process.
LEMMA NothingBelow == Below({}) = {}
<1>1. \A p \in Below({}) : p \in {}
  BY DEF Below
<1> QED BY <1>1

LEMMA RefreshIsOurs ==
  ASSUME WorldInv, KnownInv, Refresh(registry).stamp = 1
  PROVE  \A t \in Refresh(registry).known :
            \E p \in Listed : Ours(p) /\ t = <<p, table[p].group, table[p].start>>
<1> DEFINE heads == Kept(registry.known) \cup RootIfSame(1)
<1>1. Refresh(registry).known = {Identity(p) : p \in Below(heads)}
  BY DEF Refresh
<1>2. \A p \in RootIfSame(1) : p \in Listed /\ Ours(p)
  BY DEF RootIfSame, WorldInv
<1>3. registry.stamp \in {0, 1}
  BY DEF Refresh
<1>4. \A p \in Kept(registry.known) : p \in Listed /\ Ours(p)
  BY <1>3 DEF Kept, KnownInv, RootSeen, Identity
<1>5. Below(heads) \subseteq {p \in Listed : Ours(p)}
  BY <1>2, <1>4, BelowIsOurs DEF Listed
<1> QED BY <1>1, <1>5 DEF Identity

LEMMA SampleStep ==
  ASSUME WorldInv, KnownInv, Sample
  PROVE  WorldInv' /\ KnownInv'
<1>1. CASE registry' = Refresh(registry) /\ Sampled(registry'.known)
  <2>1. WorldInv' /\ Grows
    BY <1>1, RecordStep
  <2>2. starts' = starts /\ children' = children /\ starts \in Nat
    BY <1>1 DEF Sampled, WorldInv
  <2>3. \A p \in Listed : table[p].start \in Nat /\ table[p].start <= starts
    BY ListedAreRows DEF WorldInv, Rows
  <2>4. \A t \in registry'.known : \E p \in Listed : t = <<p, table[p].group, table[p].start>>
    BY <1>1, BelowIsListed DEF Refresh, Identity
  <2>5. \A t \in registry'.known : t[3] \in Nat /\ t[3] <= starts'
    BY <2>2, <2>3, <2>4
  <2>6. ASSUME registry'.stamp = 1, NEW t \in registry'.known, NEW p \in Listed',
               t[1] = p, t[3] = table'[p].start
        PROVE  Ours(p)'
    <3>1. PICK o \in Listed : Ours(o) /\ t = <<o, table[o].group, table[o].start>>
      BY <1>1, <2>6, RefreshIsOurs
    <3>2. o = p /\ t[3] <= starts
      BY <2>2, <2>5, <2>6, <3>1
    <3> QED BY <2>1, <2>2, <2>3, <2>6, <3>1, <3>2 DEF Grows
  <2>7. registry'.stamp = 0 => registry'.known = {}
    <3> SUFFICES ASSUME registry'.stamp = 0 PROVE registry'.known = {}
      OBVIOUS
    <3>1. registry.stamp = 0 /\ registry.known = {} /\ Root \notin Listed
      BY <1>1, ListedAreRows DEF Refresh, KnownInv, WorldInv, Rows
    <3>2. Kept(registry.known) \cup RootIfSame(0) = {}
      BY <3>1 DEF Kept, RootIfSame
    <3>3. registry'.known = {Identity(p) : p \in Below(Kept(registry.known) \cup RootIfSame(0))}
      BY <1>1, <3>1 DEF Refresh
    <3>4. Below(Kept(registry.known) \cup RootIfSame(0)) = {}
      BY <3>2, NothingBelow
    <3> QED BY <3>3, <3>4
  <2>8. Root \in children' => registry'.stamp \in {0, 1}
    BY <1>1, <2>2 DEF Refresh, KnownInv, WorldInv
  <2> QED BY <2>1, <2>5, <2>6, <2>7, <2>8 DEF KnownInv, RootSeen
<1>2. CASE UNCHANGED <<registry, world>>
  BY <1>2 DEF world, WorldInv, KnownInv, RootSeen, Listed, Ours
<1> QED BY <1>1, <1>2 DEF Sample

LEMMA GrowthStep ==
  ASSUME WorldInv, KnownInv, WorldInv', Grows, UNCHANGED registry
  PROVE  KnownInv'
<1>1. starts \in Nat /\ starts' \in Nat /\ starts <= starts'
  BY DEF WorldInv, Grows
<1>2. ASSUME RootSeen, NEW t \in registry.known, NEW p \in Listed', t[1] = p, t[3] = table'[p].start
      PROVE  Ours(p)'
  BY <1>1, <1>2 DEF Grows, KnownInv
<1> QED BY <1>1, <1>2 DEF Grows, KnownInv, RootSeen

----------------------------------------------------------------------------
(* The steps.                                                               *)

Inv == WorldInv /\ KnownInv

LEMMA Unchanging ==
  ASSUME Inv, UNCHANGED <<world, registry>>
  PROVE  Inv'
BY DEF Inv, world, WorldInv, KnownInv, RootSeen, Listed, Ours

LEMMA Reaping ==
  ASSUME Inv, NEW p \in Pids, Reap(p) \/ UNCHANGED world, UNCHANGED registry
  PROVE  Inv'
BY ReapStep, GrowthStep, Unchanging DEF Inv

LEMMA InvStep == Inv /\ [Next]_vars => Inv'
<1> SUFFICES ASSUME Inv, [Next]_vars PROVE Inv'
  OBVIOUS
<1>1. ASSUME LegacyEofExpires \/ LegacyEvaluates \/ LegacySamples \/ OwnerDrops \/ RegistryTerms
             \/ TreeLooks \/ NapEnds \/ OutputJoined \/ Tick \/ Traffic \/ ClientCloses
             \/ UNCHANGED vars
      PROVE  Inv'
  <2>1. UNCHANGED <<world, registry>>
    BY <1>1 DEF LegacyEofExpires, LegacyEvaluates, LegacySamples, OwnerDrops, RegistryTerms, TreeLooks,
                NapEnds, OutputJoined, Tick, Traffic, ClientCloses, LoopOver, sampling, vars
  <2> QED BY <2>1, Unchanging
<1>2. ASSUME LegacySeesExit \/ GuardianWatches \/ GraceEnds \/ WaitFor("reap", Child)
             \/ WaitFor("waitServer", Root)
      PROVE  Inv'
  <2>1. (\E p \in Pids : Reap(p) \/ UNCHANGED world) /\ UNCHANGED registry
    BY <1>2 DEF LegacySeesExit, GuardianWatches, GraceEnds, WaitFor, Child, sampling
  <2> QED BY <2>1, Reaping
<1>3. ASSUME GuardianSamples \/ RegistryLooks PROVE Inv'
  BY <1>3, SampleStep DEF GuardianSamples, RegistryLooks, Inv
<1>4. ASSUME KillTargets PROVE Inv'
  BY <1>4, DieStep, GrowthStep DEF KillTargets, Kill, Inv, sampling
<1>5. ASSUME Processes PROVE Inv'
  <2>1. UNCHANGED registry
    BY <1>5 DEF Processes, sampling
  <2>2. ASSUME NEW p \in Pids, NEW q \in Pids, Fork(p, q) \/ Foreign(q) \/ LeaveGroup(p) \/ Exit(p)
        PROVE  WorldInv' /\ Grows
    BY <2>2, ForkStep, LeaveStep, DieStep DEF Exit, Inv
  <2> QED BY <1>5, <2>1, <2>2, GrowthStep DEF Processes, Inv
<1> QED BY <1>1, <1>2, <1>3, <1>4, <1>5 DEF Next, Supervise

LEMMA InvInit == Init => Inv
<1> SUFFICES ASSUME Init PROVE Inv
  OBVIOUS
<1>1. PICK proxies \in {0, 1}, held \in {{}, {Root}, {Root, Proxy}} :
         InitWorld(proxies, held) /\ (Proxy \in held => proxies = 1)
  BY DEF Init
<1> DEFINE server == Process(Outside, Root, 1, "server")
           proxy == Process(Outside, Root, 2, "proxy")
<1>2. /\ server \in Rows /\ server.start = 1 /\ server.parent = Outside /\ server.kin = "server"
      /\ server.group = Root /\ server # Free
  BY DEF Process, Rows, Kin, Free
<1>3. proxy \in Rows /\ proxy.start = 2 /\ proxy.parent = Outside /\ proxy.kin = "proxy" /\ proxy # Free
  BY DEF Process, Rows, Kin, Free
<1>4. /\ table[Root] = server /\ table[Proxy] = (IF proxies = 1 THEN proxy ELSE Free)
      /\ \A p \in Pids \ {Root, Proxy} : table[p] = Free
      /\ starts = 1 + proxies /\ children = held
  BY <1>1 DEF InitWorld
<1> HIDE DEF server, proxy
<1>5. table \in [Pids -> Rows \cup {Free}]
  BY <1>1, <1>2, <1>3 DEF InitWorld, server, proxy
<1>6. /\ Root \in Listed /\ (proxies = 1 => Proxy \in Listed)
      /\ \A p \in Listed : table[p] = server \/ (table[p] = proxy /\ proxies = 1)
  BY <1>2, <1>3, <1>4 DEF Listed
<1>7. WorldInv
  BY <1>1, <1>2, <1>3, <1>4, <1>5, <1>6 DEF WorldInv, Ours
<1>8. NewRegistry.known = {} /\ NewRegistry.stamp = 0
  BY DEF NewRegistry
<1>9. CASE registry = NewRegistry
  BY <1>7, <1>8, <1>9 DEF Inv, KnownInv, RootSeen
<1>10. CASE registry = Refresh(NewRegistry)
  <2>1. registry.stamp = 1
    BY <1>2, <1>4, <1>6, <1>8, <1>10 DEF Refresh
  <2>2. Kept({}) = {} /\ \A p \in RootIfSame(1) : p \in Listed /\ Ours(p)
    BY <1>7 DEF Kept, RootIfSame, WorldInv
  <2>3. registry.known = {Identity(p) : p \in Below(Kept({}) \cup RootIfSame(1))}
    BY <1>8, <1>10, <2>1 DEF Refresh
  <2>4. Below(Kept({}) \cup RootIfSame(1)) \subseteq {p \in Listed : Ours(p)}
    BY <1>7, <2>2, BelowIsOurs DEF Listed
  <2>5. \A t \in registry.known :
           \E p \in Listed : Ours(p) /\ t = <<p, table[p].group, table[p].start>>
    BY <2>3, <2>4 DEF Identity
  <2>6. \A p \in Listed : table[p].start \in Nat /\ table[p].start <= starts
    BY <1>7, ListedAreRows DEF WorldInv, Rows
  <2> QED BY <1>7, <2>1, <2>5, <2>6 DEF Inv, KnownInv, RootSeen
<1> QED BY <1>9, <1>10 DEF Init

\* For any worker, any reuse of process numbers and any failures of ps: what a registry that has
\* seen the server remembers, and finds again under number, group and start time, is a process
\* of the worker (ProcessRegistry::refresh).
THEOREM KnownAreOurs == Spec => []KnownIsOurs
<1>1. Inv => KnownIsOurs
  BY DEF Inv, KnownInv, KnownIsOurs, Identity
<1> QED BY <1>1, InvInit, InvStep, PTL DEF Spec

\* For any worker and any reuse of process numbers: a group is chosen for a signal because a
\* process of the worker is in it, while the server is not reaped or the registry has seen it.
THEOREM SignalsAreMeant == Spec => TargetsAreOurs
<1>1. Inv /\ [Next]_vars =>
        [RootKnown => \A g \in targets' \ targets :
                         \E p \in Listed : Ours(p) /\ table[p].group = g]_vars
  <2> SUFFICES ASSUME Inv, [Next]_vars, RootKnown, NEW g \in targets' \ targets
               PROVE  \E p \in Listed : Ours(p) /\ table[p].group = g
    OBVIOUS
  <2>1. RegistryLooks \/ TreeLooks
    BY DEF Next, Supervise, vars, plan, Tick, Processes, Traffic, ClientCloses, LegacySeesExit,
           LegacyEofExpires, LegacyEvaluates, LegacySamples, GuardianSamples, GuardianWatches, OwnerDrops,
           RegistryTerms, GraceEnds, KillTargets, WaitFor, NapEnds, OutputJoined, LoopOver
  <2>2. Root \in children => Root \in Listed /\ Ours(Root) /\ table[Root].group = Root
                              /\ table[Root].start = 1
    BY DEF Inv, WorldInv, Ours
  <2>3. CASE RegistryLooks
    <3>1. registry' = Refresh(registry) /\ g \in {t[2] : t \in registry'.known}
      BY <2>3 DEF RegistryLooks, Sample
    <3>2. registry'.stamp = 1
      BY <2>2, <3>1 DEF RootKnown, Refresh, Inv, KnownInv
    <3>3. PICK t \in registry'.known : g = t[2]
      BY <3>1
    <3> QED BY <3>1, <3>2, <3>3, RefreshIsOurs DEF Inv
  <2>4. CASE TreeLooks
    <3>1. Root \in children
      BY <2>4 DEF TreeLooks, RootKnown, At
    <3>2. g \in TreeGroups \cup {Root}
      BY <2>4 DEF TreeLooks, TreeGroups
    <3>3. Below({Root}) \subseteq {p \in Listed : Ours(p)}
      BY <2>2, <3>1, BelowIsOurs DEF Inv
    <3> QED BY <2>2, <3>1, <3>2, <3>3 DEF TreeGroups, Groups
  <2> QED BY <2>1, <2>3, <2>4
<1> QED BY <1>1, InvInit, InvStep, PTL DEF Spec, TargetsAreOurs

=============================================================================
