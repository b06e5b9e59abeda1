----------------------------- MODULE ModuleLoading ----------------------------
(***************************************************************************)
(* Finding, ordering and loading modules: ModuleDiscoveryService of        *)
(* src/core/discovery.py with its cache, DependencyResolver of             *)
(* src/core/dependency_resolver.py and ModuleOrchestrator of               *)
(* src/core/module_orchestrator.py.                                        *)
(*                                                                         *)
(* A file holds one metadata record, nothing at all, or something that is  *)
(* none.  Others create, change and delete files at any time, also between *)
(* the steps that discovery takes for a file: its time is looked at, then  *)
(* it is read, then its time is looked at again and kept in the cache with *)
(* what was read.  The resolver is called with what was found, or directly *)
(* with a catalogue that may hold several versions of a name.              *)
(***************************************************************************)
EXTENDS Integers, FiniteSets

CONSTANTS Files,       \* the paths of module files
          Metas,       \* metadata: [name, version, needs]
          Catalogues,  \* sets of metadata that the resolver is called with
          Broken,      \* what a file holds that is no metadata
          NoFile,      \* the file is not there
          NoEntry,     \* nothing cached, or found, for a name
          MaxEdits     \* bound: changes of files

ModuleNames == {m.name : m \in Metas}

\* A dependency names a module and the versions that its specifier admits.
ASSUME LoadingAssumption ==
  /\ \A m \in Metas : /\ m.version \in Nat
                      /\ \A d \in m.needs : d.versions \subseteq Nat
  /\ \A S \in Catalogues : S \subseteq Metas /\ IsFiniteSet(S)
  /\ Broken \notin Metas /\ NoFile \notin Metas /\ NoEntry \notin Metas
  /\ Broken # NoFile /\ MaxEdits \in Nat

VARIABLES disk,      \* of each file: [holds, mtime]
          clock,     \* the files' times, one per change
          cache,     \* _cache: of each name [file, meta, mtime, raced]
          step,      \* where the run stands
          scan,      \* the files of the scan not yet dealt with
          file, held,  \* the file at hand, and what was read from it
          found,     \* discovered_modules_this_run
          given,     \* the modules the resolver works on
          ready,     \* the current generation of the topological sort
          sorted,    \* the nodes sorted so far
          tried, loaded  \* the modules whose load was tried, and has succeeded

diskVars == <<disk, clock>>
findVars == <<cache, scan, file, held, found>>
sortVars == <<given, ready, sorted, tried, loaded>>
loadingVars == <<disk, clock, cache, step, scan, file, held, found, given, ready,
                 sorted, tried, loaded>>

NothingFound == [n \in ModuleNames |-> NoEntry]

LoadingInit == /\ disk \in [Files -> [holds : Metas \cup {Broken, NoFile}, mtime : {0}]]
               /\ clock = 0 /\ cache = NothingFound /\ step = "idle"
               /\ scan = {} /\ file = NoFile /\ held = NoEntry /\ found = NothingFound
               /\ given = {} /\ ready = {} /\ sorted = {} /\ tried = {} /\ loaded = {}

\* Somebody writes, creates or deletes a file.  Each change is taken to get a time
\* later than all before it.  discover_modules compares the times with <=, so one
\* that leaves the file its time, or sets an older one, hides the change; that is
\* not modelled.
Edit(f) ==
  /\ clock < MaxEdits /\ clock' = clock + 1
  /\ \E h \in Metas \cup {Broken, NoFile} :
       /\ h # disk[f].holds
       /\ disk' = [disk EXCEPT ![f] = [holds |-> h, mtime |-> clock + 1]]
  /\ UNCHANGED <<step, findVars, sortVars>>
-----------------------------------------------------------------------------
(* discover_modules.                                                       *)

\* The scan lists the files that are there; a run without the cache clears it.
StartDiscovery(useCache) ==
  /\ step = "idle" /\ step' = "scan"
  /\ scan' = {f \in Files : disk[f].holds # NoFile}
  /\ found' = NothingFound
  /\ cache' = IF useCache THEN cache ELSE NothingFound
  /\ UNCHANGED <<diskVars, file, held, sortVars>>

\* Defect: an entry outlives the first change of its file.
ValidLong(entry, f) == disk[f].mtime <= entry.mtime + 1
\* The file has not been changed since the entry was made.
Valid(entry, f) == disk[f].mtime <= entry.mtime

\* The next file, in any order, and its time.  Cached under any name and not
\* changed since: found.  Cached and changed: the entry goes.
Stat(f) ==
  /\ step = "scan" /\ f \in scan /\ scan' = scan \ {f}
  /\ LET cached == {n \in ModuleNames : cache[n] # NoEntry /\ cache[n].file = f}
         valid == {n \in cached : Valid(cache[n], f)}
     IN  \/ /\ disk[f].holds = NoFile
            /\ UNCHANGED <<step, file, found, cache>>
         \/ /\ disk[f].holds # NoFile /\ valid # {}
            /\ found' = [n \in ModuleNames |-> IF n \in valid THEN cache[n].meta ELSE found[n]]
            /\ UNCHANGED <<step, file, cache>>
         \/ /\ disk[f].holds # NoFile /\ valid = {}
            /\ cache' = [n \in ModuleNames |-> IF n \in cached THEN NoEntry ELSE cache[n]]
            /\ step' = "read" /\ file' = f /\ UNCHANGED found
  /\ UNCHANGED <<diskVars, held, sortVars>>

\* The file is read; one that is gone, or holds no metadata, is skipped.
Read ==
  /\ step = "read"
  /\ \/ /\ disk[file].holds \in Metas
        /\ held' = disk[file].holds /\ step' = "store" /\ UNCHANGED file
     \/ /\ disk[file].holds \notin Metas
        /\ step' = "scan" /\ file' = NoFile /\ UNCHANGED held
  /\ UNCHANGED <<diskVars, cache, scan, found, sortVars>>

Entry(f, m, t, r) == [file |-> f, meta |-> m, mtime |-> t, raced |-> r]

\* The time is looked at again; what was read is cached under that time.  raced
\* is history: the file holds something else by now.
Store ==
  /\ step = "store" /\ step' = "scan" /\ file' = NoFile /\ held' = NoEntry
  /\ \/ /\ disk[file].holds = NoFile /\ UNCHANGED <<cache, found>>
     \/ /\ disk[file].holds # NoFile
        /\ cache' = [cache EXCEPT ![held.name] =
                       Entry(file, held, disk[file].mtime, disk[file].holds # held)]
        /\ found' = [found EXCEPT ![held.name] = held]
  /\ UNCHANGED <<diskVars, scan, sortVars>>

Discover == \/ \E useCache \in BOOLEAN : StartDiscovery(useCache)
            \/ \E f \in Files : Stat(f)
            \/ Read \/ Store
-----------------------------------------------------------------------------
(* resolve, and loading in the order it returns.                           *)

\* The highest version in S that the dependency admits, and its module.
Candidates(S, d) == {m \in S : m.name = d.name /\ m.version \in d.versions}
Best(S, d) == CHOOSE m \in Candidates(S, d) :
                \A k \in Candidates(S, d) : k.version <= m.version

Missing(S) == \E m \in S : \E d \in m.needs : Candidates(S, d) = {}

\* The edges into a module: what it depends on, in the versions selected.
Selected(S, m) == {Best(S, d) : d \in m.needs}

\* Defect: the graph is sorted without a look for cycles.
AcyclicAssumed(S) == S # {}
\* Every set of modules has one that depends on none of the others in it.
Acyclic(S) == \A T \in SUBSET S : T # {} => \E m \in T : Selected(S, m) \cap T = {}

\* Defect: a module waits for one of its dependencies only.
UnblockedBySome(S) ==
  {m \in given \ S : Selected(given, m) = {} \/ Selected(given, m) \cap S # {}}
\* The modules outside S all of whose dependencies are in it.
Unblocked(S) == {m \in given \ S : Selected(given, m) \subseteq S}

\* An error, or the first generation of the sort.  Nothing to do ends the run.
Resolve(S) ==
  /\ sorted' = {} /\ tried' = {} /\ loaded' = {}
  /\ given' = S
  /\ IF S = {} THEN step' = "idle" /\ ready' = {}
     ELSE IF Missing(S) \/ ~Acyclic(S) THEN step' = "failed" /\ ready' = {}
     ELSE step' = "load" /\ ready' = {m \in S : m.needs = {}}

ResolveFound ==
  /\ step = "scan" /\ scan = {}
  /\ Resolve({found[n] : n \in ModuleNames} \ {NoEntry})
  /\ UNCHANGED <<diskVars, findVars>>

ResolveGiven(S) ==
  /\ step = "idle" /\ Resolve(S)
  /\ UNCHANGED <<diskVars, findVars>>

\* The next module of the generation, in any order.  A module whose name was
\* sorted before in another version is left out; a module that fails to load is
\* passed over.
Load(m) ==
  /\ step = "load" /\ m \in ready
  /\ sorted' = sorted \cup {m}
  /\ ready' = IF ready = {m} THEN Unblocked(sorted') ELSE ready \ {m}
  /\ \/ /\ \E k \in tried : k.name = m.name
        /\ UNCHANGED <<tried, loaded>>
     \/ /\ \A k \in tried : k.name # m.name
        /\ tried' = tried \cup {m}
        /\ loaded' \in {loaded, loaded \cup {m}}
  /\ UNCHANGED <<diskVars, findVars, step, given>>

\* The run is over.
Finish == /\ step = "failed" \/ (step = "load" /\ ready = {})
          /\ step' = "idle" /\ given' = {}
          /\ ready' = {} /\ sorted' = {} /\ tried' = {} /\ loaded' = {}
          /\ UNCHANGED <<diskVars, findVars>>

LoadingNext == \/ \E f \in Files : Edit(f)
               \/ Discover
               \/ ResolveFound \/ \E S \in Catalogues : ResolveGiven(S)
               \/ \E m \in Metas : Load(m)
               \/ Finish

LoadingSpec == LoadingInit /\ [][LoadingNext]_loadingVars
-----------------------------------------------------------------------------
(* Properties.                                                             *)

Entries == [file : Files, meta : Metas, mtime : 0..MaxEdits, raced : BOOLEAN]

LoadingTypeOK ==
  /\ disk \in [Files -> [holds : Metas \cup {Broken, NoFile}, mtime : 0..MaxEdits]]
  /\ clock \in 0..MaxEdits
  /\ cache \in [ModuleNames -> Entries \cup {NoEntry}]
  /\ step \in {"idle", "scan", "read", "store", "failed", "load"}
  /\ scan \subseteq Files
  /\ file \in Files \cup {NoFile} /\ (step \in {"read", "store"} => file \in Files)
  /\ held \in Metas \cup {NoEntry} /\ (step = "store" => held \in Metas)
  /\ found \in [ModuleNames -> Metas \cup {NoEntry}]
  /\ given \subseteq Metas /\ ready \subseteq given /\ sorted \subseteq given
  /\ tried \subseteq sorted /\ loaded \subseteq tried

\* What the cache would answer for a file is what the file holds, unless the
\* file was changed between the reading and the second look at its time: for
\* changes that give the file a later time (discover_modules,
\* src/src/core/discovery.py:153).
CacheHonest ==
  \A n \in ModuleNames : cache[n] # NoEntry =>
    LET e == cache[n]
    IN  /\ e.meta.name = n
        /\ Valid(e, e.file) /\ ~e.raced => disk[e.file].holds = e.meta

SingleVersion(S) == \A m, k \in S : m.name = k.name => m = k

\* With one version of each name, no module is loaded before a module that it
\* depends on was.
OrderRespected ==
  [][\A m \in tried' \ tried :
       step = "load" /\ SingleVersion(given) =>
         Selected(given, m) \subseteq tried]_loadingVars

\* The positions of an order of S in which every module comes after what it
\* depends on: the definition of a loading order.
LoadingOrder(S, at) ==
  \A m \in S : \A d \in m.needs :
    Candidates(S, d) # {} /\ at[Best(S, d)] < at[m]

HasLoadingOrder(S) == \E at \in [S -> 1..Cardinality(S)] : LoadingOrder(S, at)

\* The resolver refuses exactly the catalogues that have no loading order, and of
\* the others every name is loaded, or tried, in exactly one version.
ResolvesExactly ==
  /\ step = "failed" => ~HasLoadingOrder(given)
  /\ step = "load" /\ ready = {} =>
       /\ HasLoadingOrder(given)
       /\ \A m \in given : Cardinality({k \in tried : k.name = m.name}) = 1
-----------------------------------------------------------------------------
(* What the repository says and the code does not do.                      *)

\* "returns a list of modules in a valid loading order": no module is loaded
\* before what it depends on, with several versions of a name, too.
ValidLoadingOrder ==
  [][\A m \in tried' \ tried :
       step = "load" => Selected(given, m) \subseteq tried]_loadingVars
=============================================================================
