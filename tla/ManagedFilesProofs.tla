-------------------------- MODULE ManagedFilesProofs --------------------------
(****************************************************************************)
(* What a preparation that nobody disturbs does, for any preparers, entries,*)
(* plugins and versions, whatever the others do and whoever is killed.      *)
(****************************************************************************)
EXTENDS ManagedFiles, FiniteSetTheorems, TLAPS

\* Every finite set of numbers has a largest member.
LEMMA MaxIsMember == ASSUME NEW S \in SUBSET Versions, S # {} PROVE Max(S) \in S
<1> DEFINE Bad == {T \in SUBSET Versions : T # {} /\ ~ \E x \in T : \A y \in T : x >= y}
           R == StrictSubsetOrdering(Versions)
<1>1. Versions \subseteq Nat /\ \A T \in SUBSET Versions : IsFiniteSet(T)
  BY FilesAssumption, FS_Subset DEF FilesAssumption
<1>2. IsWellFoundedOn(R, FiniteSubsetsOf(Versions)) /\ Bad \subseteq FiniteSubsetsOf(Versions)
  BY <1>1, FS_StrictSubsetOrderingWellFounded DEF FiniteSubsetsOf
<1>3. ASSUME Bad # {} PROVE FALSE
  <2> HIDE DEF Bad, R
  <2>1. PICK T \in Bad : \A U \in Bad : <<U, T>> \notin R
    BY <1>2, <1>3, WFMin
  <2> USE DEF Bad, R
  <2>3. PICK x \in T : TRUE
    OBVIOUS
  <2>4. T \ {x} \notin Bad
    <3>1. <<T \ {x}, T>> \in R
      BY DEF StrictSubsetOrdering
    <3> QED BY <2>1, <3>1
  <2>6. CASE T \ {x} = {}
    BY <1>1, <2>6
  <2>7. CASE T \ {x} # {}
    <3>1. PICK z \in T \ {x} : \A y \in T \ {x} : z >= y
      BY <2>4, <2>7
    <3>2. IF x >= z THEN \A y \in T : x >= y ELSE \A y \in T : z >= y
      BY <1>1, <3>1
    <3> QED BY <3>1, <3>2
  <2> QED BY <2>6, <2>7
<1>4. \E x \in S : \A y \in S : x >= y
  BY <1>3
<1> QED BY <1>4 DEF Max
----------------------------------------------------------------------------
(* Types.                                                                   *)

HomeValues == {"none", "link", "elsewhere", "file"}

FilesType ==
    /\ home \in [Entries -> HomeValues] /\ source \in Nat
    /\ catalog \in (SUBSET Plugins) \cup {None}
    /\ links \in [Plugins -> Versions \cup {None, Own}]
    /\ cache \in [Plugins -> SUBSET Versions]

LocalsType ==
    /\ pc \in [Preparers -> Preparing \cup {"start", "ready", "failed"}]
    /\ left \in [Preparers -> SUBSET (Plugins \cup Entries)]
    /\ read = [g \in Preparers |-> read[g]]
    /\ disturbed \in [Preparers -> BOOLEAN] /\ kills \in Nat

\* What a preparer remembers depends on where it is.
ReadType(g) ==
    /\ pc[g] \in {"check", "recheck", "newest", "rename"} => left[g] \subseteq Plugins
    /\ pc[g] = "catalog" => left[g] \subseteq Plugins /\ Required \in left[g]
    /\ pc[g] \in {"refresh", "newest", "rename"} => catalog # None
    /\ pc[g] = "rename" => \E p \in Plugins, v \in Versions : read[g] = <<p, v>>
    /\ pc[g] \in {"unlink", "link"} => \E e \in Entries : read[g] = <<e>>

Typed ==
    /\ FilesType /\ LocalsType /\ \A g \in Preparers : ReadType(g)
    /\ catalog # None => Required \in catalog

----------------------------------------------------------------------------
(* The course of an undisturbed preparation.                                *)

AllResolve == catalog # None /\ \A p \in catalog : Resolves(p)

Proper(e) == IF e \in Private THEN home[e] \in {"none", "file"} ELSE home[e] = "link"

\* What g knows of the files while nobody else changes them.
Course(g) ==
    /\ pc[g] \in {"check", "recheck"} =>
          /\ catalog # None /\ left[g] \subseteq catalog
          /\ \A p \in catalog : p \in left[g] \/ Resolves(p)
    /\ pc[g] \in {"revalidate", "recheck"} => AllResolve
    /\ pc[g] = "catalog" => \A p \in left[g] : cache[p] # {}
    /\ pc[g] \in {"refresh", "newest", "rename"} => \A p \in catalog : cache[p] # {}
    /\ pc[g] \in {"newest", "rename"} =>
          left[g] \subseteq catalog /\ \A p \in catalog : p \in left[g] \/ Resolves(p)
    /\ pc[g] = "rename" =>
          \E p \in left[g] \cap catalog : read[g] = <<p, Max(cache[p])>> /\ links[p] # Own
    /\ pc[g] \in {"home", "unlink", "link", "write"} =>
          AllResolve /\ \A e \in Entries : e \in left[g] \/ Proper(e)
    /\ pc[g] \in {"unlink", "link"} => \E e \in Entries \cap left[g] : read[g] = <<e>>
    /\ pc[g] = "unlink" => home[read[g][1]] \in {"link", "elsewhere"}
    /\ pc[g] = "link" => read[g][1] \in SharedEntries /\ home[read[g][1]] = "none"
    /\ pc[g] = "write" => left[g] = {} /\ read[g] = <<source, links[Required]>>

CourseInv == \A g \in Preparers : ~disturbed[g] => Course(g)

Inv == Typed /\ CourseInv

----------------------------------------------------------------------------
(* The steps of one preparer.                                               *)

Places == Preparing \cup {"start", "ready", "failed"}

Local(g) ==
    \A h \in Preparers \ {g} : pc'[h] = pc[h] /\ left'[h] = left[h] /\ read'[h] = read[h]

\* A step of g: the types are kept, the others' locals left alone, and g's course goes on.
Keeps(g) ==
    /\ FilesType'
    /\ pc' \in [Preparers -> Places] /\ left' \in [Preparers -> SUBSET (Plugins \cup Entries)]
    /\ read' = [h \in Preparers |-> read'[h]]
    /\ Local(g) /\ ReadType(g)'
    /\ catalog # None => catalog' # None
    /\ catalog' # None => Required \in catalog'
    /\ Course(g) => Course(g)'

\* What is moved and remembered, by g alone.
LEMMA Moves ==
  ASSUME Typed, NEW g \in Preparers
  PROVE  /\ \A w \in Places : Goto(g, w) =>
               /\ pc' \in [Preparers -> Places] /\ pc'[g] = w
               /\ \A h \in Preparers \ {g} : pc'[h] = pc[h]
         /\ \A w \in Places, S \in SUBSET (Plugins \cup Entries) : GoOver(g, w, S) =>
               /\ pc' \in [Preparers -> Places] /\ pc'[g] = w
               /\ left' \in [Preparers -> SUBSET (Plugins \cup Entries)] /\ left'[g] = S
               /\ \A h \in Preparers \ {g} : pc'[h] = pc[h] /\ left'[h] = left[h]
         /\ \A v : Remember(g, v) =>
               /\ read' = [h \in Preparers |-> read'[h]] /\ read'[g] = v
               /\ \A h \in Preparers \ {g} : read'[h] = read[h]
<1>1. pc \in [Preparers -> Places] /\ left \in [Preparers -> SUBSET (Plugins \cup Entries)]
  BY DEF Typed, LocalsType, Places
<1>2. ASSUME NEW w \in Places, Goto(g, w)
      PROVE  /\ pc' \in [Preparers -> Places] /\ pc'[g] = w
             /\ \A h \in Preparers \ {g} : pc'[h] = pc[h]
  BY <1>1, <1>2 DEF Goto
<1>3. ASSUME NEW w \in Places, NEW S \in SUBSET (Plugins \cup Entries), GoOver(g, w, S)
      PROVE  /\ left' \in [Preparers -> SUBSET (Plugins \cup Entries)] /\ left'[g] = S
             /\ \A h \in Preparers \ {g} : left'[h] = left[h]
  BY <1>1, <1>3 DEF GoOver
<1>4. ASSUME NEW v, Remember(g, v)
      PROVE  /\ read' = [h \in Preparers |-> read'[h]] /\ read'[g] = v
             /\ \A h \in Preparers \ {g} : read'[h] = read[h]
  BY <1>4 DEF Remember, Typed, LocalsType
<1> QED BY <1>2, <1>3, <1>4 DEF GoOver

LEMMA Fails ==
  ASSUME Typed, NEW g \in Preparers, Fail(g), UNCHANGED files
  PROVE  Keeps(g)
<1>1. "failed" \in Places
  BY DEF Places
<1>2. /\ pc' \in [Preparers -> Places] /\ pc'[g] = "failed" /\ Local(g)
      /\ left' \in [Preparers -> SUBSET (Plugins \cup Entries)]
      /\ read' = [h \in Preparers |-> read'[h]]
  BY <1>1, Moves DEF Fail, Local
<1> QED BY <1>2 DEF Keeps, Typed, FilesType, files, ReadType, Course

LEMMA ValidateKeeps ==
  ASSUME Typed, NEW g \in Preparers, NEW each \in {"check", "recheck"}, NEW otherwise \in {"list", "failed"},
         Validate(g, each, otherwise), Course(g) /\ each = "recheck" => AllResolve
  PROVE  Keeps(g)
<1>1. each \in Places /\ otherwise \in Places
  BY DEF Places, Preparing
<1>2. CASE catalog = None
  <2>1. Goto(g, otherwise) /\ UNCHANGED <<files, read, left>>
    BY <1>2 DEF Validate
  <2> QED BY <1>1, <2>1, Moves DEF Keeps, Local, Typed, FilesType, LocalsType, files, ReadType, Course
<1>3. CASE catalog # None
  <2>1. GoOver(g, each, catalog) /\ UNCHANGED <<files, read>> /\ catalog \in SUBSET Plugins
    BY <1>3 DEF Validate, Typed, FilesType
  <2>2. /\ pc'[g] = each /\ left'[g] = catalog
        /\ pc' \in [Preparers -> Places] /\ Local(g)
        /\ left' \in [Preparers -> SUBSET (Plugins \cup Entries)]
    BY <1>1, <2>1, Moves DEF Local
  <2>3. Course(g) => Course(g)'
    BY <1>3, <2>1, <2>2 DEF Course, AllResolve, Resolves, files
  <2>4. ReadType(g)'
    BY <2>1, <2>2 DEF ReadType
  <2> QED BY <2>1, <2>2, <2>3, <2>4 DEF Keeps, Typed, FilesType, LocalsType, files
<1> QED BY <1>2, <1>3

LEMMA CheckKeeps ==
  ASSUME Typed, NEW g \in Preparers, NEW at \in {"check", "recheck"}, NEW otherwise \in {"list", "failed"},
         Check(g, at, otherwise)
  PROVE  Keeps(g)
<1>1. at \in Places /\ otherwise \in Places /\ "home" \in Places
  BY DEF Places, Preparing
<1>2. pc[g] = at /\ UNCHANGED <<files, read>> /\ left[g] \subseteq Plugins
  BY DEF Check, Typed, ReadType
<1>3. CASE left[g] = {} /\ GoOver(g, "home", Entries)
  <2>1. /\ pc'[g] = "home" /\ left'[g] = Entries
        /\ pc' \in [Preparers -> Places] /\ Local(g)
        /\ left' \in [Preparers -> SUBSET (Plugins \cup Entries)]
    BY <1>1, <1>2, <1>3, Moves DEF Local
  <2>2. Course(g) => Course(g)'
    BY <1>2, <1>3, <2>1 DEF Course, AllResolve, Resolves, files
  <2>3. ReadType(g)'
    BY <2>1 DEF ReadType
  <2> QED BY <1>2, <2>1, <2>2, <2>3 DEF Keeps, Typed, FilesType, LocalsType, files
<1>4. ASSUME NEW p \in left[g], Resolves(p), GoOver(g, at, left[g] \ {p}) PROVE Keeps(g)
  <2>1. /\ pc'[g] = at /\ left'[g] = left[g] \ {p}
        /\ pc' \in [Preparers -> Places] /\ Local(g)
        /\ left' \in [Preparers -> SUBSET (Plugins \cup Entries)]
    BY <1>1, <1>2, <1>4, Moves DEF Local
  <2>2. Course(g) => Course(g)'
    BY <1>2, <1>4, <2>1 DEF Course, AllResolve, Resolves, files
  <2>3. ReadType(g)'
    BY <1>2, <2>1 DEF ReadType
  <2> QED BY <1>2, <2>1, <2>2, <2>3 DEF Keeps, Typed, FilesType, LocalsType, files
<1>5. CASE GoOver(g, otherwise, {})
  <2>1. /\ pc'[g] = otherwise
        /\ pc' \in [Preparers -> Places] /\ Local(g)
        /\ left' \in [Preparers -> SUBSET (Plugins \cup Entries)]
    BY <1>1, <1>2, <1>5, Moves DEF Local
  <2> QED BY <1>2, <2>1 DEF Keeps, Typed, FilesType, LocalsType, files, Course, ReadType
<1> QED BY <1>3, <1>4, <1>5 DEF Check

LEMMA MarketplaceKeeps ==
  ASSUME Typed, NEW g \in Preparers,
         ListPlugins(g) \/ RenameCatalog(g) \/ ReadCatalog(g) \/ SelectNewest(g) \/ RenameLink(g)
  PROVE  Keeps(g)
<1>1. {"list", "catalog", "refresh", "newest", "rename", "revalidate"} \subseteq Places
  BY DEF Places, Preparing
<1>2. CASE ListPlugins(g)
  <2> DEFINE installed == {p \in Plugins : cache[p] # {}}
  <2>1. CASE Required \in installed
    <3>1. /\ pc'[g] = "catalog" /\ left'[g] = installed
          /\ pc' \in [Preparers -> Places] /\ Local(g)
          /\ left' \in [Preparers -> SUBSET (Plugins \cup Entries)] /\ UNCHANGED <<files, read>>
      BY <1>1, <1>2, <2>1, Moves DEF ListPlugins, Local
    <3> QED BY <2>1, <3>1 DEF Keeps, Typed, FilesType, LocalsType, files, Course, ReadType
  <2>2. CASE Required \notin installed
    BY <1>2, <2>2, Fails DEF ListPlugins
  <2> QED BY <2>1, <2>2
<1>3. CASE RenameCatalog(g)
  <2>1. /\ pc'[g] = "refresh" /\ catalog' = left[g] /\ pc[g] = "catalog"
        /\ pc' \in [Preparers -> Places] /\ Local(g)
        /\ left' \in [Preparers -> SUBSET (Plugins \cup Entries)]
        /\ UNCHANGED <<home, source, links, cache, read>>
    BY <1>1, <1>3, Moves DEF RenameCatalog, Local
  <2>2. left[g] \in SUBSET Plugins /\ Required \in left[g] /\ left[g] # None
    BY <2>1, FilesAssumption DEF Typed, ReadType, FilesAssumption
  <2>3. Course(g) => Course(g)'
    BY <2>1 DEF Course
  <2>4. FilesType' /\ ReadType(g)'
    BY <2>1, <2>2 DEF Typed, FilesType, ReadType
  <2> QED BY <2>1, <2>2, <2>3, <2>4 DEF Keeps, Typed, LocalsType
<1>4. CASE ReadCatalog(g)
  <2>1. catalog \in SUBSET Plugins /\ catalog # None /\ pc[g] = "refresh"
    BY <1>4 DEF ReadCatalog, Typed, ReadType, FilesType
  <2>2. /\ pc'[g] = "newest" /\ left'[g] = catalog
        /\ pc' \in [Preparers -> Places] /\ Local(g)
        /\ left' \in [Preparers -> SUBSET (Plugins \cup Entries)] /\ UNCHANGED <<files, read>>
    BY <1>1, <1>4, <2>1, Moves DEF ReadCatalog, Local
  <2>3. Course(g) => Course(g)'
    BY <2>1, <2>2 DEF Course, files
  <2>4. FilesType' /\ ReadType(g)'
    BY <2>1, <2>2 DEF Typed, FilesType, ReadType, files
  <2> QED BY <2>1, <2>2, <2>3, <2>4 DEF Keeps, Typed, LocalsType, files
<1>5. CASE SelectNewest(g)
  <2>1. pc[g] = "newest" /\ left[g] \subseteq Plugins /\ catalog # None /\ UNCHANGED files
    BY <1>5 DEF SelectNewest, Typed, ReadType
  <2>2. CASE left[g] = {} /\ Goto(g, "revalidate") /\ UNCHANGED <<left, read>>
    <3>1. pc'[g] = "revalidate" /\ pc' \in [Preparers -> Places] /\ Local(g)
      BY <1>1, <2>2, Moves DEF Local
    <3>2. Course(g) => Course(g)'
      BY <2>1, <2>2, <3>1 DEF Course, AllResolve, Resolves, files
    <3> QED BY <2>1, <2>2, <3>1, <3>2 DEF Keeps, Typed, FilesType, LocalsType, ReadType, files
  <2>3. ASSUME NEW p \in left[g], cache[p] # {}, links[p] # Own,
               Remember(g, <<p, Max(cache[p])>>), Goto(g, "rename"), UNCHANGED left
        PROVE  Keeps(g)
    <3>1. /\ pc'[g] = "rename" /\ pc' \in [Preparers -> Places] /\ Local(g)
          /\ read' = [h \in Preparers |-> read'[h]] /\ read'[g] = <<p, Max(cache[p])>>
      BY <1>1, <2>3, Moves DEF Local
    <3>2. p \in Plugins /\ Max(cache[p]) \in Versions
      BY <2>1, <2>3, MaxIsMember DEF Typed, FilesType
    <3>3. FilesType' /\ ReadType(g)'
      BY <2>1, <2>3, <3>1, <3>2 DEF Typed, FilesType, ReadType, files
    <3>4. Course(g) => Course(g)'
      BY <2>1, <2>3, <3>1 DEF Course, Resolves, files
    <3> QED BY <2>1, <2>3, <3>1, <3>3, <3>4 DEF Keeps, Typed, LocalsType, files
  <2> QED BY <1>5, <2>1, <2>2, <2>3, Fails DEF SelectNewest
<1>6. CASE RenameLink(g)
  <2>1. pc[g] = "rename" /\ left[g] \subseteq Plugins /\ catalog # None
    BY <1>6 DEF RenameLink, Typed, ReadType
  <2>2. PICK p \in Plugins, v \in Versions : read[g] = <<p, v>>
    BY <2>1 DEF Typed, ReadType
  <2>3. /\ pc'[g] = "newest" /\ left'[g] = left[g] \ {p}
        /\ pc' \in [Preparers -> Places] /\ Local(g)
        /\ left' \in [Preparers -> SUBSET (Plugins \cup Entries)]
        /\ read' = [h \in Preparers |-> read'[h]]
    BY <1>1, <1>6, <2>1, <2>2, Moves DEF RenameLink, Local
  <2>4. /\ links' = [links EXCEPT ![p] = v] /\ UNCHANGED <<home, config, source, desktop, catalog, cache>>
    BY <1>6, <2>2 DEF RenameLink
  <2>5. /\ FilesType' /\ links'[p] = v /\ \A o \in Plugins \ {p} : links'[o] = links[o]
    BY <2>4 DEF Typed, FilesType
  <2>6. ReadType(g)'
    BY <2>1, <2>3, <2>4 DEF ReadType
  <2>7. ASSUME Course(g) PROVE Course(g)'
    <3>1. cache[p] # {} /\ v = Max(cache[p]) /\ catalog \subseteq Plugins
      BY <2>1, <2>2, <2>7 DEF Course, Typed, FilesType
    <3>2. v \in cache[p]
      BY <3>1, MaxIsMember DEF Typed, FilesType
    <3>3. \A o \in catalog : o \in left'[g] \/ Resolves(o)'
      BY <2>1, <2>3, <2>4, <2>5, <2>7, <3>1, <3>2 DEF Course, Resolves
    <3> QED BY <2>1, <2>3, <2>4, <2>7, <3>3 DEF Course
  <2> QED BY <2>1, <2>3, <2>4, <2>5, <2>6, <2>7 DEF Keeps, Typed
<1> QED BY <1>2, <1>3, <1>4, <1>5, <1>6

LEMMA Passes ==
  ASSUME Typed, NEW g \in Preparers, NEW e \in Entries, Pass(g, e),
         UNCHANGED <<source, catalog, links, cache>>, FilesType',
         Course(g) => /\ AllResolve /\ Proper(e)'
                      /\ \A o \in Entries : o \in left[g] \/ Proper(o)
                      /\ \A o \in Entries \ {e} : Proper(o) => Proper(o)'
  PROVE  Keeps(g)
<1>1. "home" \in Places /\ left[g] \ {e} \in SUBSET (Plugins \cup Entries)
  BY DEF Places, Preparing, Typed, LocalsType
<1>2. /\ pc'[g] = "home" /\ left'[g] = left[g] \ {e}
      /\ pc' \in [Preparers -> Places] /\ Local(g)
      /\ left' \in [Preparers -> SUBSET (Plugins \cup Entries)]
      /\ read' = [h \in Preparers |-> read'[h]]
  BY <1>1, Moves DEF Pass, Local
<1>3. Course(g) => Course(g)'
  BY <1>2 DEF Course, AllResolve, Resolves
<1>4. ReadType(g)'
  BY <1>2 DEF ReadType
<1> QED BY <1>2, <1>3, <1>4 DEF Keeps, Typed

LEMMA HomeKeeps ==
  ASSUME Typed, NEW g \in Preparers,
         (\E e \in Entries : LookAt(g, e)) \/ Unlink(g) \/ Link(g) \/ ReadConfig(g) \/ RenameConfig(g)
  PROVE  Keeps(g)
<1>1. {"home", "unlink", "link", "write", "ready"} \subseteq Places
  BY DEF Places, Preparing
<1>2. ASSUME NEW e \in Entries, LookAt(g, e) PROVE Keeps(g)
  <2>1. pc[g] = "home" /\ e \in left[g] /\ UNCHANGED files
    BY <1>2 DEF LookAt
  <2>2. CASE Pass(g, e) /\ Proper(e)
    BY <2>1, <2>2, Passes DEF Course, AllResolve, Resolves, Proper, files, Typed, FilesType
  <2>3. ASSUME NEW w \in {"unlink", "link"}, Goto(g, w), Remember(g, <<e>>), UNCHANGED left,
               w = "unlink" => home[e] \in {"link", "elsewhere"},
               w = "link" => e \in SharedEntries /\ home[e] = "none"
        PROVE  Keeps(g)
    <3>1. /\ pc'[g] = w /\ pc' \in [Preparers -> Places] /\ Local(g)
          /\ read' = [h \in Preparers |-> read'[h]] /\ read'[g] = <<e>>
      BY <1>1, <2>3, Moves DEF Local
    <3>2. Course(g) => Course(g)'
      BY <2>1, <2>3, <3>1 DEF Course, AllResolve, Resolves, Proper, files
    <3>3. FilesType' /\ ReadType(g)'
      BY <2>1, <3>1 DEF Typed, FilesType, ReadType, files
    <3> QED BY <2>1, <2>3, <3>1, <3>2, <3>3 DEF Keeps, Typed, LocalsType, files
  <2>4. \/ Pass(g, e) /\ Proper(e)
        \/ Fail(g)
        \/ Goto(g, "unlink") /\ Remember(g, <<e>>) /\ UNCHANGED left /\ home[e] \in {"link", "elsewhere"}
        \/ /\ Goto(g, "link") /\ Remember(g, <<e>>) /\ UNCHANGED left
           /\ e \in SharedEntries /\ home[e] = "none"
    BY <1>2, FilesAssumption DEF LookAt, Proper, FilesAssumption
  <2> QED BY <2>1, <2>2, <2>3, <2>4, Fails
<1>3. CASE Unlink(g)
  <2>1. PICK e \in Entries : read[g] = <<e>>
    BY <1>3 DEF Unlink, Typed, ReadType
  <2>2. pc[g] = "unlink" /\ UNCHANGED <<config, source, desktop, catalog, links, cache>>
    BY <1>3 DEF Unlink
  <2>3. CASE home[e] = "none"
    BY <1>3, <2>1, <2>2, <2>3, Fails DEF Unlink, files
  <2>4. CASE home[e] # "none"
    <3>1. home' = [home EXCEPT ![e] = "none"]
      BY <1>3, <2>1, <2>4 DEF Unlink
    <3>2. FilesType' /\ home'[e] = "none" /\ \A o \in Entries \ {e} : home'[o] = home[o]
      BY <2>2, <3>1 DEF Typed, FilesType, HomeValues
    <3>3. CASE e \in Private /\ Pass(g, e)
      BY <2>2, <3>2, <3>3, Passes DEF Course, Proper
    <3>4. CASE e \notin Private /\ Goto(g, "link") /\ UNCHANGED <<left, read>>
      <4>1. pc'[g] = "link" /\ pc' \in [Preparers -> Places] /\ Local(g)
        BY <1>1, <3>4, Moves DEF Local
      <4>2. Course(g) => Course(g)'
        BY <2>1, <2>2, <3>2, <3>4, <4>1 DEF Course, AllResolve, Resolves, Proper, Entries
      <4>3. ReadType(g)'
        BY <2>1, <3>4, <4>1 DEF ReadType
      <4> QED BY <2>2, <3>2, <3>4, <4>1, <4>2, <4>3 DEF Keeps, Typed, LocalsType
    <3> QED BY <1>3, <2>1, <2>4, <3>3, <3>4 DEF Unlink
  <2> QED BY <2>3, <2>4
<1>4. CASE Link(g)
  <2>1. PICK e \in Entries : read[g] = <<e>>
    BY <1>4 DEF Link, Typed, ReadType
  <2>2. pc[g] = "link" /\ UNCHANGED <<config, source, desktop, catalog, links, cache>>
    BY <1>4 DEF Link
  <2>3. CASE home[e] # "none"
    BY <1>4, <2>1, <2>2, <2>3, Fails DEF Link, files
  <2>4. CASE home[e] = "none"
    <3>1. home' = [home EXCEPT ![e] = "link"] /\ Pass(g, e)
      BY <1>4, <2>1, <2>4 DEF Link
    <3>2. FilesType' /\ home'[e] = "link" /\ \A o \in Entries \ {e} : home'[o] = home[o]
      BY <2>2, <3>1 DEF Typed, FilesType, HomeValues
    <3>3. Course(g) => e \notin Private
      BY <2>1, <2>2, FilesAssumption DEF Course, FilesAssumption
    <3> QED BY <2>2, <3>1, <3>2, <3>3, Passes DEF Course, Proper
  <2> QED BY <2>3, <2>4
<1>5. CASE ReadConfig(g)
  <2>1. pc[g] = "home" /\ left[g] = {} /\ UNCHANGED files
    BY <1>5 DEF ReadConfig
  <2>2. CASE Goto(g, "write") /\ Remember(g, <<source, links[Required]>>) /\ UNCHANGED left
    <3>1. /\ pc'[g] = "write" /\ pc' \in [Preparers -> Places] /\ Local(g)
          /\ read' = [h \in Preparers |-> read'[h]] /\ read'[g] = <<source, links[Required]>>
      BY <1>1, <2>2, Moves DEF Local
    <3>2. Course(g) => Course(g)'
      BY <2>1, <2>2, <3>1 DEF Course, AllResolve, Resolves, Proper, files
    <3> QED BY <2>1, <2>2, <3>1, <3>2 DEF Keeps, Typed, FilesType, LocalsType, ReadType, files
  <2> QED BY <1>5, <2>1, <2>2, Fails DEF ReadConfig
<1>6. CASE RenameConfig(g)
  <2>1. /\ pc'[g] = "ready" /\ pc' \in [Preparers -> Places] /\ Local(g)
        /\ read' = [h \in Preparers |-> read'[h]]
    BY <1>1, <1>6, Moves DEF RenameConfig, Local
  <2> QED BY <1>6, <2>1 DEF RenameConfig, Keeps, Typed, FilesType, LocalsType, ReadType, Course
<1> QED BY <1>2, <1>3, <1>4, <1>5, <1>6

LEMMA PrepareKeeps == ASSUME Typed, NEW g \in Preparers, Prepare(g) PROVE Keeps(g)
<1>1. CASE Begin(g)
  BY <1>1, ValidateKeeps DEF Begin
<1>2. CASE Revalidate(g)
  <2>1. Course(g) => AllResolve
    BY <1>2 DEF Revalidate, Course
  <2> QED BY <1>2, <2>1, ValidateKeeps DEF Revalidate
<1>3. CASE Check(g, "check", "list") \/ Check(g, "recheck", "failed")
  BY <1>3, CheckKeeps
<1> QED BY <1>1, <1>2, <1>3, MarketplaceKeeps, HomeKeeps DEF Prepare

----------------------------------------------------------------------------
(* All of them.                                                             *)

\* A preparer that takes no step goes on undisturbed only if no file has changed.
LEMMA OthersCourse ==
  ASSUME NEW h \in Preparers, pc'[h] = pc[h], left'[h] = left[h], read'[h] = read[h],
         Course(h), pc[h] \notin Preparing \/ files' = files
  PROVE  Course(h)'
<1>1. CASE pc[h] \notin Preparing
  BY <1>1 DEF Course, Preparing
<1>2. CASE files' = files
  BY <1>2 DEF Course, AllResolve, Resolves, Proper, files
<1> QED BY <1>1, <1>2

LEMMA KeepsInv ==
  ASSUME Inv, NEW g \in Preparers, Keeps(g), Mark(g), kills' \in Nat
  PROVE  Inv'
<1>1. disturbed' \in [Preparers -> BOOLEAN]
  BY DEF Mark, Inv, Typed, LocalsType
<1>2. ASSUME NEW h \in Preparers PROVE ReadType(h)'
  <2>1. CASE h = g
    BY <2>1 DEF Keeps
  <2>2. CASE h # g
    BY <2>2 DEF Keeps, Local, Inv, Typed, ReadType
  <2> QED BY <2>1, <2>2
<1>3. Typed'
  BY <1>1, <1>2 DEF Keeps, Typed, LocalsType, Places
<1>4. ASSUME NEW h \in Preparers, ~disturbed'[h] PROVE Course(h)'
  <2>1. CASE h = g
    <3>1. ~disturbed[g] \/ pc[g] \notin Preparing
      BY <1>4, <2>1 DEF Mark
    <3>2. Course(g)
      BY <3>1 DEF Inv, CourseInv, Course, Preparing
    <3> QED BY <2>1, <3>2 DEF Keeps
  <2>2. CASE h # g
    <3>1. ~disturbed[h] /\ (pc[h] \notin Preparing \/ files' = files)
      BY <1>4, <2>2 DEF Mark
    <3> QED BY <2>2, <3>1, OthersCourse DEF Keeps, Local, Inv, CourseInv
  <2> QED BY <2>1, <2>2
<1> QED BY <1>3, <1>4 DEF Inv, CourseInv

LEMMA DesktopInv ==
  ASSUME Inv, Desktop, Mark(None)
  PROVE  Inv'
<1>1. None \notin Preparers
  BY FilesAssumption DEF FilesAssumption
<1>2. UNCHANGED <<config, catalog, links, pc, left, read, kills>>
  BY DEF Desktop, locals
<1>3. home' = home \/ \E e \in Entries : home' = [home EXCEPT ![e] = "file"]
  BY DEF Desktop
<1>4. cache' = cache \/ \E p \in Plugins, v \in Versions :
         cache' = [cache EXCEPT ![p] = @ \cup {v}] \/ cache' = [cache EXCEPT ![p] = @ \ {v}]
  BY DEF Desktop
<1>5. home' \in [Entries -> HomeValues]
  BY <1>3 DEF Inv, Typed, FilesType, HomeValues
<1>6. cache' \in [Plugins -> SUBSET Versions]
  BY <1>4 DEF Inv, Typed, FilesType
<1>7. source' \in Nat
  BY DEF Desktop, Inv, Typed, FilesType
<1>8. disturbed' \in [Preparers -> BOOLEAN]
  BY DEF Mark, Inv, Typed, LocalsType
<1>9. Typed'
  BY <1>2, <1>5, <1>6, <1>7, <1>8 DEF Inv, Typed, FilesType, LocalsType, ReadType
<1>10. ASSUME NEW h \in Preparers, ~disturbed'[h] PROVE Course(h)'
  <2>1. ~disturbed[h] /\ (pc[h] \notin Preparing \/ files' = files)
    BY <1>1, <1>10 DEF Mark
  <2> QED BY <1>2, <2>1, OthersCourse DEF Inv, CourseInv
<1> QED BY <1>9, <1>10 DEF Inv, CourseInv

LEMMA InvStep == Inv /\ [Next]_vars => Inv'
<1> SUFFICES ASSUME Inv, [Next]_vars PROVE Inv'
  OBVIOUS
<1>1. ASSUME NEW g \in Preparers, Prepare(g), UNCHANGED <<changes, kills>>, Mark(g) PROVE Inv'
  BY <1>1, PrepareKeeps, KeepsInv DEF Inv, Typed, LocalsType
<1>2. ASSUME NEW g \in Preparers, Kill(g), Mark(g) PROVE Inv'
  <2>1. kills' \in Nat
    BY <1>2 DEF Kill, Inv, Typed, LocalsType
  <2> QED BY <1>2, <2>1, Fails, KeepsInv DEF Kill, Inv
<1>3. ASSUME Desktop, Mark(None) PROVE Inv'
  BY <1>3, DesktopInv
<1>4. ASSUME UNCHANGED vars PROVE Inv'
  BY <1>4 DEF vars, files, locals, Inv, Typed, FilesType, LocalsType, ReadType, CourseInv, Course,
              AllResolve, Resolves, Proper
<1> QED BY <1>1, <1>2, <1>3, <1>4 DEF Next

LEMMA InvInit == Init => Inv
<1> SUFFICES ASSUME Init PROVE Inv
  OBVIOUS
<1>1. Required \in Plugins /\ catalog \in {None, {Required}, Plugins} /\ MaxKills \in Nat
  BY FilesAssumption DEF FilesAssumption, Init
<1>2. cache \in [Plugins -> SUBSET Versions]
  <2>1. Max(Versions) \in Versions
    BY FilesAssumption, MaxIsMember DEF FilesAssumption
  <2> QED BY <2>1 DEF Init
<1>3. FilesType /\ LocalsType
  BY <1>1, <1>2 DEF Init, FilesType, LocalsType, HomeValues
<1> QED BY <1>1, <1>3 DEF Init, Inv, Typed, ReadType, CourseInv, Course

----------------------------------------------------------------------------
(* The theorems.                                                            *)

\* Who moves to another place is the preparer that takes the step.
LEMMA Mover ==
  ASSUME Inv, [Next]_vars, NEW g \in Preparers, pc'[g] # pc[g]
  PROVE  /\ Mark(g)
         /\ (Prepare(g) /\ kills' = kills) \/ (Kill(g) /\ kills' # kills)
<1>1. PICK h \in Preparers : /\ \/ Prepare(h) /\ kills' = kills
                                \/ Kill(h)
                             /\ Mark(h)
  BY DEF Next, vars, locals, Desktop
<1>2. Keeps(h)
  BY <1>1, PrepareKeeps, Fails DEF Kill, Inv
<1>3. h = g
  BY <1>2 DEF Keeps, Local
<1> QED BY <1>1, <1>3 DEF Kill, Inv, Typed, LocalsType

\* Where a step leads that ends a preparation: to ready by RenameConfig only, to failed for what
\* the step has found.
LEMMA Endings ==
  ASSUME Typed, NEW g \in Preparers, Prepare(g)
  PROVE  /\ pc'[g] = "ready" => RenameConfig(g)
         /\ pc'[g] = "failed" =>
               \/ cache[Required] = {} \/ \E p \in Plugins : links[p] = Own
               \/ pc[g] = "newest" /\ \E p \in left[g] : cache[p] = {}
               \/ \E e \in SharedEntries : home[e] = "file"
               \/ pc[g] = "revalidate" /\ catalog = None
               \/ pc[g] = "recheck" /\ \E p \in left[g] : ~Resolves(p)
               \/ pc[g] = "unlink" /\ home[read[g][1]] = "none"
               \/ pc[g] = "link" /\ home[read[g][1]] # "none"
               \/ pc[g] = "home" /\ ~Injected
<1>1. Preparing \cup {"start", "ready", "failed"} \subseteq Places
  BY DEF Places
<1>2. CASE Begin(g) \/ Revalidate(g)
  <2>1. CASE catalog = None
    BY <1>1, <1>2, <2>1, Moves DEF Begin, Revalidate, Validate, Preparing
  <2>2. CASE catalog # None
    <3>1. catalog \in SUBSET (Plugins \cup Entries)
      BY <2>2 DEF Typed, FilesType
    <3> QED BY <1>1, <1>2, <2>2, <3>1, Moves DEF Begin, Revalidate, Validate, Preparing
  <2> QED BY <2>1, <2>2
<1>3. ASSUME NEW at \in {"check", "recheck"}, NEW otherwise \in {"list", "failed"}, Check(g, at, otherwise)
      PROVE  /\ pc'[g] # "ready" /\ pc[g] = at
             /\ pc'[g] = "failed" => otherwise = "failed" /\ \E p \in left[g] : ~Resolves(p)
  <2>1. /\ pc[g] = at /\ at \in Places /\ otherwise \in Places /\ "home" \in Places
        /\ left[g] \in SUBSET (Plugins \cup Entries) /\ at # "failed" /\ at # "ready" /\ otherwise # "ready"
    BY <1>1, <1>3 DEF Check, Preparing, Typed, LocalsType
  <2>2. ASSUME GoOver(g, "home", Entries) PROVE pc'[g] = "home"
    BY <2>1, <2>2, Moves
  <2>3. ASSUME NEW S \in SUBSET (Plugins \cup Entries), GoOver(g, at, S) PROVE pc'[g] = at
    BY <2>1, <2>3, Moves
  <2>4. ASSUME GoOver(g, otherwise, {}) PROVE pc'[g] = otherwise
    BY <2>1, <2>4, Moves
  <2> QED BY <1>3, <2>1, <2>2, <2>3, <2>4 DEF Check
<1>4. ASSUME Fail(g) PROVE pc'[g] = "failed"
  BY <1>1, <1>4, Moves DEF Fail
<1>5. CASE ListPlugins(g)
  BY <1>1, <1>4, <1>5, Moves, FilesAssumption DEF ListPlugins, Preparing, FilesAssumption
<1>6. CASE RenameCatalog(g) \/ ReadCatalog(g) \/ RenameLink(g)
  <2>1. pc'[g] \in {"refresh", "newest"}
    BY <1>6 DEF RenameCatalog, ReadCatalog, RenameLink, GoOver, Goto, Typed, LocalsType
  <2> QED BY <2>1
<1>7. CASE SelectNewest(g)
  <2>1. pc[g] = "newest" /\ left[g] \subseteq Plugins
    BY <1>7 DEF SelectNewest, Typed, ReadType
  <2>2. \/ pc'[g] \in {"revalidate", "rename"}
        \/ pc'[g] = "failed" /\ \E p \in left[g] : cache[p] = {} \/ links[p] = Own
    BY <1>1, <1>4, <1>7, Moves DEF SelectNewest, Preparing
  <2> QED BY <2>1, <2>2
<1>8. ASSUME NEW e \in Entries, Pass(g, e) PROVE pc'[g] = "home"
  BY <1>8 DEF Pass, GoOver, Goto, Typed, LocalsType
<1>9. ASSUME NEW w \in {"unlink", "link", "write", "ready"}, Goto(g, w) PROVE pc'[g] = w
  BY <1>9 DEF Goto, Typed, LocalsType
<1>10. ASSUME NEW e \in Entries, LookAt(g, e)
       PROVE  pc'[g] \in {"home", "unlink", "link"} \/ (pc'[g] = "failed" /\ e \in SharedEntries /\ home[e] = "file")
  BY <1>4, <1>8, <1>9, <1>10 DEF LookAt
<1>11. CASE Unlink(g)
  <2>1. PICK e \in Entries : read[g] = <<e>>
    BY <1>11 DEF Unlink, Typed, ReadType
  <2> QED BY <1>4, <1>8, <1>9, <1>11, <2>1 DEF Unlink
<1>12. CASE Link(g)
  <2>1. PICK e \in Entries : read[g] = <<e>>
    BY <1>12 DEF Link, Typed, ReadType
  <2> QED BY <1>4, <1>8, <1>12, <2>1 DEF Link
<1>13. CASE ReadConfig(g)
  BY <1>4, <1>9, <1>13 DEF ReadConfig
<1>14. CASE RenameConfig(g)
  BY <1>9, <1>14 DEF RenameConfig
<1> QED
  <2>1. CASE Check(g, "check", "list") \/ Check(g, "recheck", "failed")
    BY <1>3, <2>1
  <2>2. CASE \E e \in Entries : LookAt(g, e)
    BY <1>10, <2>2
  <2> QED BY <1>2, <1>5, <1>6, <1>7, <1>11, <1>12, <1>13, <1>14, <2>1, <2>2 DEF Prepare

\* A preparer that is killed has failed.
LEMMA KilledFail == ASSUME Typed, NEW g \in Preparers, Kill(g) PROVE pc'[g] = "failed"
BY DEF Kill, Fail, GoOver, Goto, Typed, LocalsType

\* A preparation that ends undisturbed was undisturbed before.
LEMMA CourseOfMover ==
  ASSUME Inv, NEW g \in Preparers, Mark(g), pc[g] \in Preparing, ~disturbed'[g]
  PROVE  Course(g)
BY DEF Mark, Inv, CourseInv

\* For any preparers, entries and plugins: a preparation nobody disturbs ends with files a worker
\* can be started on, whatever was left behind before it.
THEOREM UndisturbedIsUsable == Spec => UsableWhenUndisturbed
<1>1. Inv /\ [Next]_vars =>
        [\A g \in Preparers : pc[g] # "ready" /\ pc'[g] = "ready" /\ ~disturbed'[g] => Usable']_vars
  <2> SUFFICES ASSUME Inv, [Next]_vars, NEW g \in Preparers,
                      pc[g] # "ready", pc'[g] = "ready", ~disturbed'[g]
               PROVE  Usable'
    OBVIOUS
  <2>1. Prepare(g) /\ Mark(g)
    BY Mover, KilledFail DEF Inv
  <2>2. RenameConfig(g)
    BY <2>1, Endings DEF Inv
  <2>3. UNCHANGED <<home, source, catalog, links, cache>> /\ config' = read[g] /\ pc[g] = "write"
    BY <2>2 DEF RenameConfig
  <2>4. Course(g)
    BY <2>1, <2>3, CourseOfMover DEF Preparing
  <2> QED BY <2>3, <2>4 DEF Course, AllResolve, Resolves, Proper, Usable
<1> QED BY <1>1, InvInit, InvStep, PTL DEF Spec, UsableWhenUndisturbed

\* For any preparers, entries and plugins: a preparation nobody disturbs or kills fails for a
\* lasting cause only; what interrupted preparations have left makes none fail.
THEOREM FailureHasACause == Spec => FailsForCause
<1>1. Inv /\ [Next]_vars =>
        [\A g \in Preparers :
            pc[g] \in Preparing /\ pc'[g] = "failed" /\ kills' = kills /\ ~disturbed'[g]
            => LastingCause]_vars
  <2> SUFFICES ASSUME Inv, [Next]_vars, NEW g \in Preparers,
                      pc[g] \in Preparing, pc'[g] = "failed", kills' = kills, ~disturbed'[g],
                      ~LastingCause
               PROVE  FALSE
    OBVIOUS
  <2>1. Prepare(g) /\ Mark(g)
    BY Mover DEF Preparing
  <2>2. Course(g)
    BY <2>1, CourseOfMover
  <2>3. pc[g] = "home" => Injected
    <3>1. Required \in Plugins
      BY FilesAssumption DEF FilesAssumption
    <3>2. pc[g] = "home" => Resolves(Required)
      BY <2>2 DEF Course, AllResolve, Inv, Typed
    <3> QED BY <3>2 DEF Injected, LastingCause
  <2>4. pc[g] = "newest" => \A p \in left[g] : cache[p] # {}
    BY <2>2 DEF Course
  <2>5. pc[g] \in {"revalidate", "recheck"} => catalog # None
    BY <2>2 DEF Course, AllResolve
  <2>6. pc[g] = "recheck" => \A p \in left[g] : Resolves(p)
    BY <2>2 DEF Course, AllResolve
  <2>7. /\ pc[g] = "unlink" => home[read[g][1]] # "none"
        /\ pc[g] = "link" => home[read[g][1]] = "none"
    BY <2>2 DEF Course
  <2> QED BY <2>1, <2>3, <2>4, <2>5, <2>6, <2>7, Endings DEF Inv, LastingCause
<1> QED BY <1>1, InvInit, InvStep, PTL DEF Spec, FailsForCause

\* For any preparers, entries and plugins: a preparation nobody disturbs removes or replaces
\* nothing that is not a link.
THEOREM NothingElseIsRemoved == Spec => FilesAreKept
<1>1. Inv /\ [Next]_vars =>
        [\A g \in Preparers :
            pc'[g] # pc[g] /\ ~disturbed[g] =>
                /\ \A e \in Entries : home[e] = "file" => home'[e] = "file"
                /\ \A p \in Plugins : links[p] = Own => links'[p] = Own]_vars
  <2> SUFFICES ASSUME Inv, [Next]_vars, NEW g \in Preparers, pc'[g] # pc[g], ~disturbed[g]
               PROVE  /\ \A e \in Entries : home[e] = "file" => home'[e] = "file"
                      /\ \A p \in Plugins : links[p] = Own => links'[p] = Own
    OBVIOUS
  <2>1. Prepare(g) \/ Kill(g)
    BY Mover
  <2>2. Course(g)
    BY DEF Inv, CourseInv
  <2>3. CASE Unlink(g) \/ Link(g)
    <3>1. pc[g] \in {"unlink", "link"} /\ links' = links
      BY <2>3 DEF Unlink, Link
    <3>2. PICK e \in Entries : read[g] = <<e>>
      BY <3>1 DEF Inv, Typed, ReadType
    <3>3. home[e] # "file"
      BY <2>2, <3>1, <3>2 DEF Course
    <3>4. \A o \in Entries \ {e} : home'[o] = home[o]
      BY <2>3, <3>2 DEF Unlink, Link, Inv, Typed, FilesType
    <3> QED BY <3>1, <3>3, <3>4
  <2>4. CASE RenameLink(g)
    <3>1. pc[g] = "rename" /\ home' = home
      BY <2>4 DEF RenameLink
    <3>2. PICK p \in Plugins, v \in Versions : read[g] = <<p, v>>
      BY <3>1 DEF Inv, Typed, ReadType
    <3>3. links[p] # Own
      BY <2>2, <3>1, <3>2 DEF Course
    <3>4. \A o \in Plugins \ {p} : links'[o] = links[o]
      BY <2>4, <3>2 DEF RenameLink, Inv, Typed, FilesType
    <3> QED BY <3>1, <3>3, <3>4
  <2>5. ASSUME ~(Unlink(g) \/ Link(g)), ~RenameLink(g) PROVE home' = home /\ links' = links
    BY <2>1, <2>5 DEF Prepare, Kill, Begin, Revalidate, Validate, Check, ListPlugins, RenameCatalog, ReadCatalog,
                      SelectNewest, LookAt, ReadConfig, RenameConfig, files
  <2> QED BY <2>3, <2>4, <2>5
<1> QED BY <1>1, InvInit, InvStep, PTL DEF Spec, FilesAreKept

=============================================================================
