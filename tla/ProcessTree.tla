---------------------------- MODULE ProcessTree ----------------------------
(****************************************************************************)
(* The processes of a worker as /bin/ps shows them, and what the supervisor *)
(* makes of that table: process_tree_groups and ProcessRegistry in          *)
(* src/src/supervisor.rs.  The worker's processes fork, leave their group,  *)
(* exit and are reparented at any time; a number that came free is given to *)
(* another process, of the worker or foreign to it.                         *)
(****************************************************************************)
EXTENDS Naturals

CONSTANTS
    Pids,      \* process numbers
    Root,      \* the app-server, leader of the worker's group
    Proxy,     \* its proxy, in the same group
    Outside,   \* every parent that is not in the table
    MaxStarts  \* bound: processes started in all

ASSUME ProcessAssumption ==
    Root \in Pids /\ Proxy \in Pids /\ Root # Proxy /\ Outside \notin Pids /\ MaxStarts \in Nat \ {0, 1}

VARIABLES
    table,     \* the process under each number
    starts,    \* processes started so far; the start times that ps prints are in this order
    children   \* the supervisor's own children that it has not reaped

world == <<table, starts, children>>

\* kin and seen are history: it is the server or the proxy, descends from the server within
\* the worker's group or has escaped from it; a registry recorded it in its present group.
Kin == {"server", "proxy", "worker", "escaped", "foreign"}

Rows == [parent : Pids \cup {Outside}, group : Pids, start : 1..MaxStarts,
         zombie : BOOLEAN, kin : Kin, seen : BOOLEAN]

Free == [start |-> 0]

Process(parent, group, start, kin) ==
    [parent |-> parent, group |-> group, start |-> start, zombie |-> FALSE, kin |-> kin, seen |-> FALSE]

Listed == {p \in Pids : table[p] # Free}

Ours(p) == table[p].kin # "foreign"

Alive == {p \in Listed : ~table[p].zombie}

WorldOK ==
    /\ table \in [Pids -> Rows \cup {Free}]
    /\ starts \in 0..MaxStarts
    /\ children \subseteq Listed

\* The server has just been started, and after it a proxy in its group.
InitWorld(proxies, held) ==
    /\ table = [p \in Pids |-> IF p = Root THEN Process(Outside, Root, 1, "server")
                               ELSE IF p = Proxy /\ proxies = 1 THEN Process(Outside, Root, 2, "proxy")
                               ELSE Free]
    /\ starts = 1 + proxies
    /\ children = held

-----------------------------------------------------------------------------
(* What processes do.                                                       *)

\* The kernel gives away no number that is a process or a group.
Unused(q) == table[q] = Free /\ \A p \in Listed : table[p].group # q

Start(q, row) ==
    /\ Unused(q) /\ starts < MaxStarts
    /\ table' = [table EXCEPT ![q] = row]
    /\ starts' = starts + 1

\* The official proxy forks nothing.
Fork(p, q) ==
    /\ p \in Alive /\ table[p].kin \in {"server", "worker", "escaped"}
    /\ Start(q, Process(p, table[p].group, starts + 1,
                        IF table[p].kin = "escaped" THEN "escaped" ELSE "worker"))
    /\ UNCHANGED children

Foreign(q) ==
    /\ Start(q, Process(Outside, q, starts + 1, "foreign"))
    /\ UNCHANGED children

LeaveGroup(p) ==
    /\ p \in Alive /\ table[p].kin \in {"worker", "escaped"} /\ table[p].group # p
    /\ \A o \in Listed : table[o].group # p
    /\ table' = [table EXCEPT ![p].group = p, ![p].kin = "escaped", ![p].seen = FALSE]
    /\ UNCHANGED <<starts, children>>

\* The dead wait for the supervisor when it is their parent; orphans go to another parent.
Die(dead) ==
    table' = [p \in Pids |->
                 IF p \in dead THEN IF p \in children THEN [table[p] EXCEPT !.zombie = TRUE] ELSE Free
                 ELSE IF p \in Listed /\ table[p].parent \in dead THEN [table[p] EXCEPT !.parent = Outside]
                 ELSE table[p]]

Exit(p) == p \in Alive /\ Die({p}) /\ UNCHANGED <<starts, children>>

\* wait() and try_wait() free the child's number.
Reaped(p) == p \notin children

Reap(p) ==
    /\ p \in children /\ table[p].zombie
    /\ table' = [table EXCEPT ![p] = Free]
    /\ children' = children \ {p}
    /\ UNCHANGED starts

\* A signal to a group reaches whoever is in it now.
Kill(groups) ==
    /\ Die({p \in Alive : table[p].group \in groups})
    /\ UNCHANGED <<starts, children>>

-----------------------------------------------------------------------------
(* What the supervisor sees.                                                *)

\* heads and everything in the table that descends from them.
Below(heads) ==
    {p \in Listed : \A S \in SUBSET Listed :
        (heads \cap Listed) \cup {q \in Listed : table[q].parent \in S \cup heads} \subseteq S => p \in S}

Groups(S) == {table[p].group : p \in S}

\* Mutant: the groups of those that still descend from the root.
TreeGroupsBelow == Groups(Below({Root}))

\* By number alone, and never without the root's own number.
TreeGroups == {Root} \cup Groups(Below({Root}) \ {Root})

NewRegistry == [known |-> {}, stamp |-> 0]

Identity(p) == <<p, table[p].group, table[p].start>>

\* Mutant: a remembered number and group are enough.
KeptByNumber(known) ==
    {p \in Listed : \E t \in known : t[1] = p /\ t[2] = table[p].group}

\* Mutant: only what still descends from the root is remembered.
KeptBelowRoot(known) ==
    {p \in Below({Root}) : Identity(p) \in known}

\* What was known stays known while number, group and start time are the same.
Kept(known) == {p \in Listed : Identity(p) \in known}

\* Mutant: whoever has the root's number is taken for the root.
RootIfSameByNumber(stamp) == {Root} \cap Listed

RootIfSame(stamp) == {p \in {Root} \cap Listed : table[p].start = stamp}

Refresh(r) ==
    LET stamp == IF r.stamp = 0 /\ Root \in Listed THEN table[Root].start ELSE r.stamp
    IN  [known |-> {Identity(p) : p \in Below(Kept(r.known) \cup RootIfSame(stamp))},
         stamp |-> stamp]

\* History: these rows have been recorded.
Recorded(known) ==
    [p \in Pids |-> IF p \in Listed /\ Identity(p) \in known THEN [table[p] EXCEPT !.seen = TRUE]
                    ELSE table[p]]

=============================================================================
