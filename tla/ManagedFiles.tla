---------------------------- MODULE ManagedFiles ----------------------------
(****************************************************************************)
(* The files a worker is started on: the generated plugin marketplace       *)
(* (src/src/marketplace.rs) and the managed Codex home                      *)
(* (src/src/managed_home.rs), prepared in that order by                     *)
(* start_worker_guarded in src/src/supervisor.rs and by the preflight.      *)
(*                                                                          *)
(* Every identity's guardian prepares the same files, under no common lock, *)
(* while the Desktop installs and prunes plugins and running app-servers    *)
(* write into the home.  A preparation can be killed between any two steps. *)
(* What a preparer writes to a temporary file of its own is seen by nobody  *)
(* until it is renamed, which is one step.                                  *)
(****************************************************************************)
EXTENDS Integers, FiniteSetsExt

CONSTANTS
    Preparers,
    Private,     \* entries of the real home that stay private
    SharedEntries,  \* entries that the managed home links to
    Plugins,
    Required,    \* unified-computer-use
    Versions,    \* installed versions, numbered in the order of their paths
    None,
    Own,         \* where a plugin of the marketplace is a directory, not a link
    MaxChanges,  \* bound: what the Desktop and running servers change
    MaxKills     \* bound: preparations killed

ASSUME FilesAssumption ==
    /\ Required \in Plugins /\ Private \cap SharedEntries = {}
    /\ Versions \subseteq Nat /\ Versions # {} /\ IsFiniteSet(Versions)
    /\ {None, Own} \cap Versions = {}
    /\ Own # None /\ (\A S \in SUBSET Plugins : S # None) /\ None \notin Preparers
    /\ MaxChanges \in Nat /\ MaxKills \in Nat

VARIABLES
    home,     \* each entry of the managed home: absent, a link, a link elsewhere, or a file
    config,   \* what the managed configuration was made from: a version of the real one and
              \* the version of the required plugin whose definition was injected
    source,   \* the version of the real configuration
    desktop,  \* the Desktop's resources and its service are installed
    catalog,  \* the plugins the marketplace lists
    links,    \* the version each plugin of the marketplace links to
    cache,    \* the versions of each plugin that have a manifest
    pc,       \* where each preparer is
    left,     \* plugins or entries it has still to go through
    read,     \* the entry, link or version it has read about and will act on
    changes, kills,
    disturbed \* history: another actor changed a file while it prepared

files == <<home, config, source, desktop, catalog, links, cache>>
locals == <<pc, left, read>>
vars == <<files, locals, changes, kills, disturbed>>

Entries == Private \cup SharedEntries

Preparing == {"check", "list", "catalog", "refresh", "newest", "rename",
              "revalidate", "recheck", "home", "unlink", "link", "write"}

TypeOK ==
    /\ home \in [Entries -> {"none", "link", "elsewhere", "file"}]
    /\ config \in (Nat \X (Versions \cup {Own})) \cup {None}
    /\ source \in Nat /\ desktop \in BOOLEAN
    /\ catalog \in (SUBSET Plugins) \cup {None}
    /\ links \in [Plugins -> Versions \cup {None, Own}]
    /\ cache \in [Plugins -> SUBSET Versions]
    /\ pc \in [Preparers -> Preparing \cup {"start", "ready", "failed"}]
    /\ left \in [Preparers -> SUBSET (Plugins \cup Entries)]
    /\ changes \in 0..MaxChanges /\ kills \in 0..MaxKills
    /\ disturbed \in [Preparers -> BOOLEAN]

\* Whatever earlier releases, updates and interrupted preparations have left behind.
Init ==
    /\ home \in [Entries -> {"none", "link", "elsewhere", "file"}]
    /\ config = None /\ source = 0 /\ desktop = TRUE
    /\ catalog \in {None, {Required}, Plugins}
    /\ links \in [Plugins -> Versions \cup {None, Own}]
    /\ cache \in [Plugins -> {{}, {Max(Versions)}}]
    /\ pc = [g \in Preparers |-> "start"]
    /\ left = [g \in Preparers |-> {}]
    /\ read = [g \in Preparers |-> <<>>]
    /\ changes = 0 /\ kills = 0
    /\ disturbed = [g \in Preparers |-> FALSE]

-----------------------------------------------------------------------------

Goto(g, where) == pc' = [pc EXCEPT ![g] = where]

Remember(g, value) == read' = [read EXCEPT ![g] = value]

\* The next step, over the members of S one at a time.
GoOver(g, where, S) == Goto(g, where) /\ left' = [left EXCEPT ![g] = S]

Fail(g) == GoOver(g, "failed", {}) /\ Remember(g, <<>>)

-----------------------------------------------------------------------------
(* The marketplace.                                                         *)

\* A manifest is reached through the plugin's link; a directory of its own has one.
Resolves(p) == links[p] = Own \/ links[p] \in cache[p]

\* validate_named_marketplace, before and after the marketplace is generated.
Validate(g, each, otherwise) ==
    /\ IF catalog = None THEN Goto(g, otherwise) /\ UNCHANGED left
       ELSE GoOver(g, each, catalog)
    /\ UNCHANGED <<files, read>>

Begin(g) == pc[g] \in {"start", "failed"} /\ Validate(g, "check", "list")

Revalidate(g) == pc[g] = "revalidate" /\ Validate(g, "recheck", "failed")

\* Mutant: one plugin's manifest is looked for instead of each one's.
CheckAny(g, at, otherwise) ==
    /\ pc[g] = at
    /\ IF left[g] = {} \/ \E p \in left[g] : Resolves(p) THEN GoOver(g, "home", Entries)
       ELSE GoOver(g, otherwise, {})
    /\ UNCHANGED <<files, read>>

Check(g, at, otherwise) ==
    /\ pc[g] = at
    /\ \/ left[g] = {} /\ GoOver(g, "home", Entries)
       \/ \E p \in left[g] :
             IF Resolves(p) THEN GoOver(g, at, left[g] \ {p})
             ELSE GoOver(g, otherwise, {})
    /\ UNCHANGED <<files, read>>

ListPlugins(g) ==
    LET installed == {p \in Plugins : cache[p] # {}}
    IN  /\ pc[g] = "list"
        /\ IF Required \in installed
           THEN GoOver(g, "catalog", installed) /\ UNCHANGED read
           ELSE Fail(g)
        /\ UNCHANGED files

\* Mutant: a catalog that is there is not written again.
RenameCatalogOnce(g) ==
    /\ pc[g] = "catalog"
    /\ catalog' = IF catalog = None THEN left[g] ELSE catalog
    /\ GoOver(g, "refresh", {})
    /\ UNCHANGED <<home, config, source, desktop, links, cache, read>>

RenameCatalog(g) ==
    /\ pc[g] = "catalog"
    /\ catalog' = left[g]
    /\ GoOver(g, "refresh", {})
    /\ UNCHANGED <<home, config, source, desktop, links, cache, read>>

\* The catalog that is read back may be another preparer's.
ReadCatalog(g) ==
    /\ pc[g] = "refresh"
    /\ GoOver(g, "newest", catalog)
    /\ UNCHANGED <<files, read>>

\* Newest is the last in the order of paths; what is no link is not replaced.
SelectNewest(g) ==
    /\ pc[g] = "newest"
    /\ \/ left[g] = {} /\ Goto(g, "revalidate") /\ UNCHANGED <<left, read>>
       \/ \E p \in left[g] :
             IF cache[p] = {} \/ links[p] = Own THEN Fail(g)
             ELSE Remember(g, <<p, Max(cache[p])>>) /\ Goto(g, "rename") /\ UNCHANGED left
    /\ UNCHANGED files

RenameLink(g) ==
    /\ pc[g] = "rename"
    /\ links' = [links EXCEPT ![read[g][1]] = read[g][2]]
    /\ GoOver(g, "newest", left[g] \ {read[g][1]})
    /\ Remember(g, <<>>)
    /\ UNCHANGED <<home, config, source, desktop, catalog, cache>>

-----------------------------------------------------------------------------
(* The managed home.                                                        *)

Pass(g, e) == GoOver(g, "home", left[g] \ {e}) /\ Remember(g, <<>>)

\* Mutant: a link that leads elsewhere is taken for an entry of somebody else.
LookAtNoStale(g, e) ==
    /\ pc[g] = "home" /\ e \in left[g]
    /\ \/ e \in Private /\ home[e] \in {"none", "file"} /\ Pass(g, e)
       \/ e \in SharedEntries /\ home[e] = "link" /\ Pass(g, e)
       \/ e \in SharedEntries /\ home[e] \in {"file", "elsewhere"} /\ Fail(g)
       \/ /\ e \in Private /\ home[e] \in {"link", "elsewhere"}
          /\ Goto(g, "unlink") /\ Remember(g, <<e>>) /\ UNCHANGED left
       \/ /\ e \in SharedEntries /\ home[e] = "none"
          /\ Goto(g, "link") /\ Remember(g, <<e>>) /\ UNCHANGED left
    /\ UNCHANGED files

\* Mutant: whatever is no link to the real entry is replaced.
LookAtAny(g, e) ==
    /\ pc[g] = "home" /\ e \in left[g]
    /\ \/ e \in Private /\ home[e] \in {"none", "file"} /\ Pass(g, e)
       \/ e \in SharedEntries /\ home[e] = "link" /\ Pass(g, e)
       \/ /\ IF e \in Private THEN home[e] \in {"link", "elsewhere"}
             ELSE home[e] \in {"file", "elsewhere"}
          /\ Goto(g, "unlink") /\ Remember(g, <<e>>) /\ UNCHANGED left
       \/ /\ e \in SharedEntries /\ home[e] = "none"
          /\ Goto(g, "link") /\ Remember(g, <<e>>) /\ UNCHANGED left
    /\ UNCHANGED files

\* link_shared_entries looks at an entry first and acts on what it saw afterwards.
LookAt(g, e) ==
    /\ pc[g] = "home" /\ e \in left[g]
    /\ \/ e \in Private /\ home[e] \in {"none", "file"} /\ Pass(g, e)
       \/ e \in SharedEntries /\ home[e] = "link" /\ Pass(g, e)
       \/ e \in SharedEntries /\ home[e] = "file" /\ Fail(g)
       \/ /\ IF e \in Private THEN home[e] \in {"link", "elsewhere"} ELSE home[e] = "elsewhere"
          /\ Goto(g, "unlink") /\ Remember(g, <<e>>) /\ UNCHANGED left
       \/ /\ e \in SharedEntries /\ home[e] = "none"
          /\ Goto(g, "link") /\ Remember(g, <<e>>) /\ UNCHANGED left
    /\ UNCHANGED files

\* Removing takes whatever is there now, and fails when nothing is.
Unlink(g) ==
    LET e == read[g][1]
    IN  /\ pc[g] = "unlink"
        /\ IF home[e] = "none" THEN Fail(g) /\ UNCHANGED home
           ELSE /\ home' = [home EXCEPT ![e] = "none"]
                /\ IF e \in Private THEN Pass(g, e) ELSE Goto(g, "link") /\ UNCHANGED <<left, read>>
        /\ UNCHANGED <<config, source, desktop, catalog, links, cache>>

\* Linking fails when something is there.
Link(g) ==
    LET e == read[g][1]
    IN  /\ pc[g] = "link"
        /\ IF home[e] # "none" THEN Fail(g) /\ UNCHANGED home
           ELSE home' = [home EXCEPT ![e] = "link"] /\ Pass(g, e)
        /\ UNCHANGED <<config, source, desktop, catalog, links, cache>>

\* The required plugin's definition is found through the marketplace and completed with the
\* Desktop's resources.
Injected == Resolves(Required) /\ desktop

ReadConfig(g) ==
    /\ pc[g] = "home" /\ left[g] = {}
    /\ IF Injected
       THEN Goto(g, "write") /\ Remember(g, <<source, links[Required]>>) /\ UNCHANGED left
       ELSE Fail(g)
    /\ UNCHANGED files

RenameConfig(g) ==
    /\ pc[g] = "write"
    /\ config' = read[g]
    /\ Goto(g, "ready") /\ Remember(g, <<>>)
    /\ UNCHANGED <<home, source, desktop, catalog, links, cache, left>>

-----------------------------------------------------------------------------
(* The others.                                                              *)

Kill(g) ==
    /\ pc[g] \in Preparing /\ kills < MaxKills
    /\ kills' = kills + 1
    /\ Fail(g)
    /\ UNCHANGED files

\* The Desktop installs or prunes a version, rewrites the real configuration, or is itself
\* updated; a running server puts a file in the place of an entry.
Desktop ==
    /\ changes < MaxChanges /\ changes' = changes + 1
    /\ \/ \E p \in Plugins, v \in Versions :
             /\ cache' \in {[cache EXCEPT ![p] = @ \cup {v}], [cache EXCEPT ![p] = @ \ {v}]}
             /\ cache' # cache
             /\ UNCHANGED <<home, source, desktop>>
       \/ source' = source + 1 /\ UNCHANGED <<home, desktop, cache>>
       \/ desktop' = ~desktop /\ UNCHANGED <<home, source, cache>>
       \/ /\ \E g \in Preparers : pc[g] = "ready"
          /\ \E e \in Entries : home' = [home EXCEPT ![e] = "file"]
          /\ UNCHANGED <<source, desktop, cache>>
    /\ UNCHANGED <<config, catalog, links, locals, kills>>

-----------------------------------------------------------------------------

Prepare(g) ==
    \/ Begin(g) \/ Check(g, "check", "list")
    \/ ListPlugins(g) \/ RenameCatalog(g) \/ ReadCatalog(g) \/ SelectNewest(g) \/ RenameLink(g)
    \/ Revalidate(g) \/ Check(g, "recheck", "failed")
    \/ \E e \in Entries : LookAt(g, e)
    \/ Unlink(g) \/ Link(g) \/ ReadConfig(g) \/ RenameConfig(g)

\* History: g changed a file, or begins.
Mark(actor) ==
    disturbed' = [g \in Preparers |->
                     IF g = actor THEN disturbed[g] /\ pc[g] \in Preparing
                     ELSE disturbed[g] \/ (pc[g] \in Preparing /\ files' # files)]

Next ==
    \/ \E g \in Preparers :
          /\ \/ Prepare(g) /\ UNCHANGED <<changes, kills>>
             \/ Kill(g) /\ UNCHANGED changes
          /\ Mark(g)
    \/ Desktop /\ Mark(None)

\* Preparers are scheduled, and a client whose worker did not start comes again.
Fairness == \A g \in Preparers : WF_vars(Prepare(g) /\ UNCHANGED <<changes, kills>> /\ Mark(g))

Spec == Init /\ [][Next]_vars /\ Fairness

-----------------------------------------------------------------------------

\* What a ready worker may rely on: the plugins listed are there, and the home shares
\* exactly what is shared.
Usable ==
    /\ catalog # None
    /\ \A p \in catalog : Resolves(p)
    /\ config = <<source, links[Required]>>
    /\ \A e \in Entries : IF e \in Private THEN home[e] \in {"none", "file"} ELSE home[e] = "link"

\* What no preparation gets over: the docs ask for a failure instead of a deletion.
LastingCause ==
    \/ cache[Required] = {} \/ ~desktop
    \/ \E e \in SharedEntries : home[e] = "file"
    \/ \E p \in Plugins : links[p] = Own

\* Whatever an earlier preparation that was killed, an update or another release left, a
\* preparation nobody disturbs ends with files a worker can be started on.
UsableWhenUndisturbed ==
    [][\A g \in Preparers : pc[g] # "ready" /\ pc'[g] = "ready" /\ ~disturbed'[g] => Usable']_vars

\* A preparation nobody disturbs fails for a lasting cause or because it is killed, never
\* over what an interrupted one left behind.
FailsForCause ==
    [][\A g \in Preparers :
          pc[g] \in Preparing /\ pc'[g] = "failed" /\ kills' = kills /\ ~disturbed'[g]
          => LastingCause]_vars

\* A preparation nobody disturbs removes no file that is not a link: it fails instead
\* (docs/architecture.md:340).
FilesAreKept ==
    [][\A g \in Preparers :
          pc'[g] # pc[g] /\ ~disturbed[g] =>
              /\ \A e \in Entries : home[e] = "file" => home'[e] = "file"
              /\ \A p \in Plugins : links[p] = Own => links'[p] = Own]_vars

\* Preparations that disturb each other or are killed only delay each other: with no
\* lasting cause every one of them is ready in the end.
ReadyAtLast == <>[]~LastingCause => \A g \in Preparers : <>(pc[g] = "ready")

=============================================================================
