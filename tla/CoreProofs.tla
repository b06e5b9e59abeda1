------------------------------ MODULE CoreProofs -----------------------------
(***************************************************************************)
(* What holds of the registry for all modules, threads and depths of       *)
(* operations within operations; and what holds of finding, ordering and   *)
(* loading modules for all files, metadata and catalogues.                 *)
(***************************************************************************)
EXTENDS ComponentRegistry, ModuleLoading, FiniteSetTheorems,
        WellFoundedInduction, TLAPS

(***************************************************************************)
(* The registry (ComponentRegistry).                                       *)
(***************************************************************************)

\* While no listener has changed the registry there is one operation under way
\* at most, and the mirror lags by what that operation has done.
MirrorLags ==
  ~nested =>
    /\ depth <= 1
    /\ depth = 0 => mirror = modules
    /\ depth = 1 =>
         \/ frames[1].op = "register" /\ modules = mirror \cup {frames[1].module}
         \/ frames[1].op = "deregister" /\ modules = mirror \ {frames[1].module}
         \/ frames[1].op = "deregisterAll" /\ modules = mirror

IInv == TypeOK /\ DefaultRegistered /\ FamiliesNonEmpty /\ MirrorLags

\* Where each kind of operation is on top of the stack, and what its frame is.
LEMMA FrameTypes ==
  ASSUME TypeOK, NEW i \in 1..depth
  PROVE  /\ frames[i] \in Frames
         /\ frames[i].op \in {"register", "deregister"} => frames[i].module \in Modules
         /\ frames[i].op = "deregisterAll" => frames[i].name \in Names
  BY RegistryAssumption, FrameAssumption DEF TypeOK, Frames

\* The initial state is a registry at rest.
LEMMA InitIInv == Init => IInv
<1> SUFFICES ASSUME Init PROVE IInv
  OBVIOUS
<1>1. TypeOK
  <2>1. frames \in [1..MaxDepth -> Frames \cup {NoFrame}] /\ depth \in 0..MaxDepth
    BY RegistryAssumption DEF Init
  <2>2. \A i \in 1..MaxDepth : (i <= depth) <=> (frames[i] # NoFrame)
    BY RegistryAssumption DEF Init
  <2> QED
    BY <2>1, <2>2 DEF Init, TypeOK
<1>2. DefaultRegistered /\ FamiliesNonEmpty
  BY DEF Init, DefaultRegistered, FamiliesNonEmpty
<1>3. MirrorLags
  BY DEF Init, MirrorLags
<1> QED
  BY <1>1, <1>2, <1>3 DEF IInv

\* An operation that begins puts its frame on the stack and disturbs no other.
LEMMA BeginStack ==
  ASSUME TypeOK, NEW t \in Threads, NEW f \in Frames, Enters(t), Begin(t, f)
  PROVE  /\ owner' \in Threads \cup {NoThread} /\ depth' \in 0..MaxDepth
         /\ frames' \in [1..MaxDepth -> Frames \cup {NoFrame}]
         /\ \A i \in 1..MaxDepth : (i <= depth') <=> (frames'[i] # NoFrame)
         /\ (owner' = NoThread) <=> (depth' = 0)
         /\ nested' \in BOOLEAN /\ (~nested' => ~nested /\ depth = 0)
         /\ depth' = depth + 1 /\ frames'[depth + 1] = f
         /\ \A i \in 1..depth : frames'[i] = frames[i]
<1>1. nested' \in BOOLEAN /\ (~nested' => ~nested /\ depth = 0)
  <2>1. depth \in Nat
    BY RegistryAssumption DEF TypeOK
  <2>2. nested' = (nested \/ depth > 0)
    BY DEF Begin
  <2>3. ~(depth > 0) => depth = 0
    BY <2>1
  <2> QED
    BY <2>2, <2>3, Zenon DEF TypeOK
<1> QED
  BY <1>1, RegistryAssumption, FrameAssumption DEF TypeOK, Begin, Enters

\* An operation that ends takes its frame off the stack and disturbs no other.
LEMMA EndStack ==
  ASSUME TypeOK, NEW t \in Threads, owner = t, End
  PROVE  /\ owner' \in Threads \cup {NoThread} /\ depth' \in 0..MaxDepth
         /\ frames' \in [1..MaxDepth -> Frames \cup {NoFrame}]
         /\ \A i \in 1..MaxDepth : (i <= depth') <=> (frames'[i] # NoFrame)
         /\ (owner' = NoThread) <=> (depth' = 0)
         /\ nested' \in BOOLEAN
         /\ depth \in 1..MaxDepth /\ depth' = depth - 1
         /\ \A i \in 1..depth' : frames'[i] = frames[i]
  <1>1. depth \in 1..MaxDepth
    BY RegistryAssumption DEF TypeOK
  <1> QED
    BY <1>1, RegistryAssumption, FrameAssumption DEF TypeOK, End

\* What is being removed stays so while an operation begins.
LEMMA BeginRemoving ==
  ASSUME TypeOK, NEW t \in Threads, NEW f \in Frames, Enters(t), Begin(t, f),
         NEW m, Removing(m)
  PROVE  Removing(m)'
<1>1. PICK i \in 1..depth : frames[i].op = "deregister" /\ frames[i].module = m
  BY DEF Removing
<1>2. frames'[i] = frames[i] /\ i \in 1..depth'
  BY BeginStack, <1>1 DEF TypeOK
<1> QED
  BY <1>1, <1>2 DEF Removing

\* What is being removed stays so while another operation ends.
LEMMA EndRemoving ==
  ASSUME TypeOK, NEW t \in Threads, owner = t, End, NEW m, Removing(m),
         Top.op = "deregister" => Top.module # m
  PROVE  Removing(m)'
<1>1. PICK i \in 1..depth : frames[i].op = "deregister" /\ frames[i].module = m
  BY DEF Removing
<1>2. i # depth
  BY <1>1 DEF Top
<1>3. frames'[i] = frames[i] /\ i \in 1..depth'
  BY EndStack, <1>1, <1>2 DEF TypeOK
<1> QED
  BY <1>1, <1>3 DEF Removing

\* register_module up to its listeners.
LEMMA RegisterStep ==
  ASSUME IInv, NEW t \in Threads, NEW m \in Modules, NEW d \in BOOLEAN, Register(t, m, d)
  PROVE  IInv'
<1> DEFINE f == [op |-> "register", module |-> m, asDefault |-> d]
<1> USE DEF IInv
<1>1. f \in Frames /\ Enters(t) /\ Begin(t, f)
  BY DEF Register, Frames
<1>2. TypeOK'
  BY <1>1, BeginStack DEF Register, TypeOK, Names
<1>3. DefaultRegistered'
  BY <1>1, BeginRemoving DEF Register, DefaultRegistered
<1>4. FamiliesNonEmpty'
  <2>1. ASSUME NEW n \in families' PROVE \/ Family(n) \cap modules' # {}
                                         \/ \E k \in Family(n) : Removing(k)'
    <3>1. CASE n = NameOf(m)
      BY <3>1 DEF Register, Family
    <3>2. CASE n \in families
      BY <3>2, <1>1, BeginRemoving DEF FamiliesNonEmpty, Register
    <3> QED
      BY <3>1, <3>2 DEF Register
  <2> QED
    BY <2>1 DEF FamiliesNonEmpty, Register
<1>5. MirrorLags'
  <2>1. ASSUME ~nested' PROVE depth = 0 /\ ~nested /\ depth' = 1 /\ frames'[1] = f
    BY <1>1, <2>1, BeginStack
  <2> QED
    BY <2>1 DEF MirrorLags, Register
<1> QED
  BY <1>2, <1>3, <1>4, <1>5

\* deregister_module of one version up to its listeners.
LEMMA DeregisterStep ==
  ASSUME IInv, NEW t \in Threads, NEW m \in Modules, Deregister(t, m)
  PROVE  IInv'
<1> DEFINE f == [op |-> "deregister", module |-> m]
<1> USE DEF IInv
<1>1. f \in Frames /\ Enters(t) /\ Begin(t, f)
  BY DEF Deregister, Frames
<1>2. TypeOK'
  BY <1>1, BeginStack DEF Deregister, TypeOK
<1>0. Removing(m)'
  BY <1>1, BeginStack DEF Removing, TypeOK
<1>3. DefaultRegistered'
  BY <1>0, <1>1, BeginRemoving DEF Deregister, DefaultRegistered
<1>4. FamiliesNonEmpty'
  <2>1. ASSUME NEW n \in families' PROVE \/ Family(n) \cap modules' # {}
                                         \/ \E k \in Family(n) : Removing(k)'
    <3>1. n \in families
      BY DEF Deregister
    <3>2. CASE \E k \in Family(n) : Removing(k)
      BY <3>2, <1>1, BeginRemoving
    <3>3. CASE Family(n) \cap modules # {}
      BY <3>3, <1>0 DEF Deregister, Family
    <3> QED
      BY <3>1, <3>2, <3>3 DEF FamiliesNonEmpty
  <2> QED
    BY <2>1 DEF FamiliesNonEmpty, Deregister
<1>5. MirrorLags'
  <2>1. ASSUME ~nested' PROVE depth = 0 /\ ~nested /\ depth' = 1 /\ frames'[1] = f
    BY <1>1, <2>1, BeginStack
  <2> QED
    BY <2>1 DEF MirrorLags, Deregister
<1> QED
  BY <1>2, <1>3, <1>4, <1>5

\* deregister_module of all versions up to its listeners.
LEMMA DeregisterAllStep ==
  ASSUME IInv, NEW t \in Threads, NEW n \in Names, DeregisterAll(t, n)
  PROVE  IInv'
<1> DEFINE f == [op |-> "deregisterAll", name |-> n]
<1> USE DEF IInv
<1>1. f \in Frames /\ Enters(t) /\ Begin(t, f)
  BY DEF DeregisterAll, Frames
<1>2. TypeOK'
  BY <1>1, BeginStack DEF DeregisterAll, TypeOK
<1>3. DefaultRegistered'
  BY <1>1, BeginRemoving DEF DeregisterAll, DefaultRegistered
<1>4. FamiliesNonEmpty'
  BY <1>1, BeginRemoving DEF DeregisterAll, FamiliesNonEmpty
<1>5. MirrorLags'
  <2>1. ASSUME ~nested' PROVE depth = 0 /\ ~nested /\ depth' = 1 /\ frames'[1] = f
    BY <1>1, <2>1, BeginStack
  <2> QED
    BY <2>1 DEF MirrorLags, DeregisterAll
<1> QED
  BY <1>2, <1>3, <1>4, <1>5

\* The operation on top of the stack, and what it is when it is the only one.
LEMMA TopFrame ==
  ASSUME TypeOK, NEW t \in Threads, owner = t
  PROVE  /\ depth \in 1..MaxDepth /\ Top \in Frames
         /\ Top.op \in {"register", "deregister"} => Top.module \in Modules
         /\ Top.op = "deregisterAll" => Top.name \in Names
<1>1. depth \in 1..MaxDepth
  BY RegistryAssumption DEF TypeOK
<1> QED
  BY <1>1, FrameTypes DEF Top

\* When the mirror is told the last of it, it has caught up.
LEMMA EndMirror ==
  ASSUME TypeOK, MirrorLags, NEW t \in Threads, owner = t, End, ~nested'
  PROVE  /\ ~nested /\ depth = 1 /\ depth' = 0 /\ Top = frames[1]
<1>1. ~nested /\ depth \in 1..MaxDepth /\ depth' = depth - 1
  BY EndStack DEF End
<1>2. depth = 1
  BY <1>1, RegistryAssumption DEF MirrorLags
<1> QED
  BY <1>1, <1>2 DEF Top

\* The rest of register_module.
LEMMA RegisteredStep ==
  ASSUME IInv, NEW t \in Threads, Registered(t)
  PROVE  IInv'
<1> USE DEF IInv
<1>1. owner = t /\ End /\ Top.op = "register" /\ Top \in Frames /\ Top.module \in Modules
  BY TopFrame DEF Registered
<1>2. TypeOK'
  BY <1>1, EndStack DEF Registered, TypeOK
<1>3. DefaultRegistered'
  BY <1>1, EndRemoving DEF Registered, DefaultRegistered
<1>4. FamiliesNonEmpty'
  BY <1>1, EndRemoving DEF Registered, FamiliesNonEmpty
<1>5. MirrorLags'
  BY <1>1, EndMirror DEF MirrorLags, Registered
<1> QED
  BY <1>2, <1>3, <1>4, <1>5

\* The rest of deregister_module of one version.
LEMMA DeregisteredStep ==
  ASSUME IInv, NEW t \in Threads, Deregistered(t)
  PROVE  IInv'
<1> USE DEF IInv
<1>1. owner = t /\ End /\ Top.op = "deregister" /\ Top \in Frames /\ Top.module \in Modules
  BY TopFrame DEF Deregistered
<1>2. TypeOK'
  BY <1>1, EndStack DEF Deregistered, TypeOK
<1>3. DefaultRegistered'
  BY <1>1, EndRemoving DEF Deregistered, DefaultRegistered
<1>4. FamiliesNonEmpty'
  <2>1. ASSUME NEW m \in modules' PROVE NameOf(m) \in families'
    BY <2>1 DEF Deregistered, FamiliesNonEmpty, Family, TypeOK
  <2>2. ASSUME NEW n \in families' PROVE \/ Family(n) \cap modules' # {}
                                         \/ \E k \in Family(n) : Removing(k)'
    <3>1. n \in families /\ (n # NameOf(Top.module) \/ Family(n) \cap modules' # {})
      BY DEF Deregistered
    <3>2. ASSUME n # NameOf(Top.module), NEW k \in Family(n), Removing(k) PROVE Removing(k)'
      <4>1. Top.module # k
        BY <3>2 DEF Family
      <4> QED
        BY <4>1, <3>2, <1>1, EndRemoving
    <3> QED
      BY <3>1, <3>2 DEF FamiliesNonEmpty, Deregistered
  <2> QED
    BY <2>1, <2>2 DEF FamiliesNonEmpty
<1>5. MirrorLags'
  BY <1>1, EndMirror DEF MirrorLags, Deregistered
<1> QED
  BY <1>2, <1>3, <1>4, <1>5

\* The rest of deregister_module of all versions.
LEMMA DeregisteredAllStep ==
  ASSUME IInv, NEW t \in Threads, DeregisteredAll(t)
  PROVE  IInv'
<1> USE DEF IInv
<1>1. owner = t /\ End /\ Top.op = "deregisterAll" /\ Top \in Frames /\ Top.name \in Names
  BY TopFrame DEF DeregisteredAll
<1>2. TypeOK'
  BY <1>1, EndStack DEF DeregisteredAll, TypeOK
<1>3. DefaultRegistered'
  <2>1. CASE default \in modules /\ default \notin Family(Top.name)
    BY <2>1 DEF DeregisteredAll, DefaultRegistered
  <2>2. CASE default \in modules /\ default \in Family(Top.name)
    BY <2>2 DEF DeregisteredAll, DefaultRegistered, FamiliesNonEmpty, Family
  <2>3. CASE Removing(default)
    BY <2>3, <1>1, EndRemoving DEF DeregisteredAll, DefaultRegistered
  <2> QED
    BY <2>1, <2>2, <2>3 DEF DeregisteredAll, DefaultRegistered
<1>4. FamiliesNonEmpty'
  <2>1. ASSUME NEW n \in families' PROVE \/ Family(n) \cap modules' # {}
                                         \/ \E k \in Family(n) : Removing(k)'
    <3>1. n \in families /\ n # Top.name
      BY DEF DeregisteredAll
    <3>2. CASE \E k \in Family(n) : Removing(k)
      BY <3>2, <1>1, EndRemoving
    <3>3. CASE Family(n) \cap modules # {}
      BY <3>1, <3>3 DEF DeregisteredAll, Family
    <3> QED
      BY <3>1, <3>2, <3>3 DEF FamiliesNonEmpty
  <2>2. ASSUME NEW m \in modules' PROVE NameOf(m) \in families'
    BY <2>2 DEF DeregisteredAll, FamiliesNonEmpty, Family, TypeOK
  <2> QED
    BY <2>1, <2>2 DEF FamiliesNonEmpty
<1>5. MirrorLags'
  BY <1>1, EndMirror DEF MirrorLags, DeregisteredAll
<1> QED
  BY <1>2, <1>3, <1>4, <1>5

\* Every step of the registry keeps the invariant.
LEMMA NextIInv == IInv /\ [Next]_vars => IInv'
<1> SUFFICES ASSUME IInv, [Next]_vars PROVE IInv'
  OBVIOUS
<1>1. CASE UNCHANGED vars
  BY <1>1 DEF IInv, TypeOK, DefaultRegistered, FamiliesNonEmpty, MirrorLags, Removing, vars
<1>2. ASSUME NEW t \in Threads, NEW m \in Modules, SetDefault(t, m) PROVE IInv'
  BY <1>2 DEF SetDefault, IInv, TypeOK, DefaultRegistered, FamiliesNonEmpty, MirrorLags, Removing
<1> QED
  BY <1>1, <1>2, RegisterStep, DeregisterStep, DeregisterAllStep, RegisteredStep,
     DeregisteredStep, DeregisteredAllStep DEF Next

\* The registry's invariant holds throughout.
THEOREM Invariant == Spec => []IInv
  BY InitIInv, NextIInv, PTL DEF Spec

\* Type correctness, for any number of modules and any depth of operations
\* within operations.
THEOREM TypeCorrect == Spec => []TypeOK
<1>1. IInv => TypeOK
  BY DEF IInv
<1> QED
  BY <1>1, Invariant, PTL

\* Whatever listeners do, the default is a registered module or none, except
\* while its own deregistration is under way.
THEOREM DefaultIsRegistered == Spec => []DefaultRegistered
<1>1. IInv => DefaultRegistered
  BY DEF IInv
<1> QED
  BY <1>1, Invariant, PTL

\* Whatever listeners do, no name is left without a version.
THEOREM NoEmptyFamily == Spec => []FamiliesNonEmpty
<1>1. IInv => FamiliesNonEmpty
  BY DEF IInv
<1> QED
  BY <1>1, Invariant, PTL

\* Listeners that leave the registry alone are told all that happens to it.
THEOREM EventsAreComplete == Spec => []EventsTellAll
<1>1. IInv => EventsTellAll
  BY DEF IInv, MirrorLags, EventsTellAll
<1> QED
  BY <1>1, Invariant, PTL

\* At rest the registry is consistent: what a thread finds that takes the lock.
AtRest == depth = 0 => /\ default = NoModule \/ default \in modules
                       /\ families = {NameOf(m) : m \in modules}

\* A thread that takes the lock finds a default that is registered, if any, and
\* exactly the names that have a version.
THEOREM ConsistentAtRest == Spec => []AtRest
<1>1. IInv => AtRest
  <2> SUFFICES ASSUME IInv, depth = 0 PROVE /\ default = NoModule \/ default \in modules
                                           /\ families = {NameOf(m) : m \in modules}
    BY DEF AtRest
  <2>1. ASSUME NEW m PROVE ~Removing(m)
    BY DEF Removing
  <2> QED
    BY <2>1 DEF IInv, DefaultRegistered, FamiliesNonEmpty, Family
<1> QED
  BY <1>1, Invariant, PTL
-----------------------------------------------------------------------------
(***************************************************************************)
(* Finding, ordering and loading modules (ModuleLoading).                  *)
(***************************************************************************)

\* No time stamp lies in the future: the next change of a file makes every entry
\* for it stale.
TimesPast ==
  /\ \A p \in Files : disk[p].mtime <= clock
  /\ \A n \in ModuleNames : cache[n] # NoEntry => cache[n].mtime <= clock

CacheInv == LoadingTypeOK /\ TimesPast /\ CacheHonest

\* The names under which something is cached, or found.
Entered(map) == {n \in ModuleNames : map[n] # NoEntry}

\* Discovery never holds but finitely many modules.
FiniteFinds == IsFiniteSet(Entered(cache)) /\ IsFiniteSet(Entered(found))

\* The modules of P can be loaded, those that they need in S before them.
InOrder(S, P) ==
  \E at \in [P -> 1..Cardinality(P)] :
    \A m \in P : \A d \in m.needs : Best(S, d) \in P /\ at[Best(S, d)] < at[m]

\* While modules are loaded: the catalogue can be sorted, the generation at hand
\* depends on what is sorted only, and it is empty only if no module is left
\* that does; of each name sorted one version was tried.
SortInv ==
  step = "load" =>
    /\ ~Missing(given) /\ Acyclic(given)
    /\ ready \cap sorted = {}
    /\ \A m \in ready : Selected(given, m) \subseteq sorted
    /\ ready = {} => Unblocked(sorted) = {}
    /\ InOrder(given, sorted)
    /\ \A m \in sorted : \E k \in tried : k.name = m.name
    /\ \A k, l \in tried : k.name = l.name => k = l

\* A catalogue is refused for a dependency it lacks or for a cycle only.
RefusedInv == step = "failed" => Missing(given) \/ ~Acyclic(given)

LoadingInv ==
  LoadingTypeOK /\ FiniteFinds /\ IsFiniteSet(given) /\ SortInv /\ RefusedInv

\* Of finitely many elements one has the greatest value: among the sets of them
\* without such an element a smallest one would have one.
LEMMA HasGreatest ==
  ASSUME NEW S, IsFiniteSet(S), S # {}, NEW val \in [S -> Int]
  PROVE  \E m \in S : \A k \in S : val[k] <= val[m]
<1> DEFINE Greatest(T) == \E m \in T : \A k \in T : val[k] <= val[m]
           Without == {T \in SUBSET S : T # {} /\ ~Greatest(T)}
<1> SUFFICES ASSUME ~Greatest(S) PROVE FALSE
  OBVIOUS
<1>1. Without \subseteq FiniteSubsetsOf(S) /\ Without # {}
  BY FS_Subset DEF FiniteSubsetsOf
<1>2. IsWellFoundedOn(StrictSubsetOrdering(S), FiniteSubsetsOf(S))
  BY FS_StrictSubsetOrderingWellFounded
<1>3. PICK T \in Without : \A U \in Without : <<U, T>> \notin StrictSubsetOrdering(S)
  <2> HIDE DEF Without
  <2> QED
    BY <1>1, <1>2, WFMin
<1>4. PICK x \in T : TRUE
  OBVIOUS
<1>5. T \ {x} \notin Without
  BY <1>3, <1>4 DEF StrictSubsetOrdering
<1>6. CASE T = {x}
  BY <1>3, <1>6
<1>7. CASE T # {x}
  <2>1. PICK y \in T \ {x} : \A k \in T \ {x} : val[k] <= val[y]
    BY <1>3, <1>5, <1>7
  <2>2. CASE val[x] <= val[y]
    BY <1>3, <1>4, <2>1, <2>2
  <2>3. CASE val[y] <= val[x]
    <3>1. \A k \in T : val[k] <= val[x]
      BY <1>3, <1>4, <2>1, <2>3
    <3> QED
      BY <1>3, <1>4, <3>1
  <2> QED
    BY <1>3, <1>4, <2>1, <2>2, <2>3
<1> QED
  BY <1>6, <1>7

\* The choice among finitely many candidates is one of them.
LEMMA BestIsCandidate ==
  ASSUME NEW S \in SUBSET Metas, IsFiniteSet(S), NEW d, Candidates(S, d) # {}
  PROVE  Best(S, d) \in Candidates(S, d) /\ Best(S, d) \in S
<1>1. Candidates(S, d) \in SUBSET S
  BY DEF Candidates
<1>2. IsFiniteSet(Candidates(S, d)) /\ \A m \in Candidates(S, d) : m.version \in Nat
  BY <1>1, FS_Subset, LoadingAssumption
<1>3. \E m \in Candidates(S, d) : \A k \in Candidates(S, d) : k.version <= m.version
  <2> DEFINE val == [m \in Candidates(S, d) |-> m.version]
  <2>1. val \in [Candidates(S, d) -> Int]
    BY <1>2
  <2>2. \E m \in Candidates(S, d) : \A k \in Candidates(S, d) : val[k] <= val[m]
    <3> HIDE DEF val
    <3> QED
      BY <1>2, <2>1, HasGreatest
  <2> QED
    BY <2>2
<1> QED
  BY <1>1, <1>3 DEF Best

\* A catalogue that has a loading order lacks nothing and has no cycle.
LEMMA OrderedIsAcyclic ==
  ASSUME NEW S, IsFiniteSet(S), HasLoadingOrder(S)
  PROVE  ~Missing(S) /\ Acyclic(S)
<1>1. PICK at \in [S -> 1..Cardinality(S)] : LoadingOrder(S, at)
  BY DEF HasLoadingOrder
<1>2. ~Missing(S)
  BY <1>1 DEF LoadingOrder, Missing
<1>3. ASSUME NEW T \in SUBSET S, T # {} PROVE \E m \in T : Selected(S, m) \cap T = {}
  <2> DEFINE val == [m \in T |-> 0 - at[m]]
  <2>1. IsFiniteSet(T) /\ \A m \in T : at[m] \in Nat
    BY <1>1, FS_Subset, FS_CardinalityType
  <2>2. PICK m \in T : \A k \in T : val[k] <= val[m]
    <3>1. val \in [T -> Int]
      BY <2>1
    <3> HIDE DEF val
    <3> QED
      BY <1>3, <2>1, <3>1, HasGreatest
  <2>3. \A k \in T : ~(at[k] < at[m])
    BY <2>1, <2>2
  <2> QED
    BY <1>1, <2>3 DEF LoadingOrder, Selected
<1> QED
  BY <1>2, <1>3 DEF Acyclic

\* Nothing at all is in order.
LEMMA NothingIsInOrder == ASSUME NEW S PROVE InOrder(S, {})
<1>1. [k \in {} |-> 0] \in [{} -> 1..Cardinality({})]
  OBVIOUS
<1> QED
  BY <1>1 DEF InOrder

\* A module that depends on modules in order only can come next.
LEMMA OneMoreInOrder ==
  ASSUME NEW S, NEW P, IsFiniteSet(P), InOrder(S, P),
         NEW m, m \notin P, Selected(S, m) \subseteq P
  PROVE  InOrder(S, P \cup {m})
<1> DEFINE N == Cardinality(P)
           Q == P \cup {m}
<1>1. N \in Nat /\ Cardinality(Q) = N + 1
  BY FS_AddElement, FS_CardinalityType
<1>2. PICK at \in [P -> 1..N] :
        \A k \in P : \A d \in k.needs : Best(S, d) \in P /\ at[Best(S, d)] < at[k]
  BY DEF InOrder
<1> DEFINE at1 == [k \in Q |-> IF k = m THEN N + 1 ELSE at[k]]
<1>3. at1 \in [Q -> 1..Cardinality(Q)]
  BY <1>1, <1>2
<1>4. ASSUME NEW k \in P, NEW d \in k.needs
      PROVE  Best(S, d) \in Q /\ at1[Best(S, d)] < at1[k]
  <2>1. Best(S, d) \in P /\ at[Best(S, d)] < at[k]
    BY <1>2, <1>4
  <2>2. at1[k] = at[k] /\ at1[Best(S, d)] = at[Best(S, d)]
    BY <2>1
  <2> QED
    BY <2>1, <2>2
<1>5. ASSUME NEW d \in m.needs
      PROVE  Best(S, d) \in Q /\ at1[Best(S, d)] < at1[m]
  <2>1. Best(S, d) \in P
    BY <1>5 DEF Selected
  <2>2. at1[m] = N + 1 /\ at1[Best(S, d)] \in 1..N
    BY <1>2, <2>1
  <2> QED
    BY <1>1, <2>1, <2>2
<1>6. \A k \in Q : \A d \in k.needs : Best(S, d) \in Q /\ at1[Best(S, d)] < at1[k]
  BY <1>4, <1>5
<1> HIDE DEF at1, N
<1> QED
  BY <1>3, <1>6 DEF InOrder

\* If all of a catalogue that lacks nothing is in order, it has a loading order.
LEMMA AllInOrder ==
  ASSUME NEW S, InOrder(S, S), ~Missing(S)
  PROVE  HasLoadingOrder(S)
<1>1. PICK at \in [S -> 1..Cardinality(S)] :
        \A m \in S : \A d \in m.needs : Best(S, d) \in S /\ at[Best(S, d)] < at[m]
  BY DEF InOrder
<1>2. LoadingOrder(S, at)
  BY <1>1 DEF LoadingOrder, Missing
<1> QED
  BY <1>2 DEF HasLoadingOrder

\* As long as modules of a catalogue without gaps and cycles are left, one of
\* them depends on none of the others left.
LEMMA OneIsNext ==
  ASSUME NEW S \in SUBSET Metas, IsFiniteSet(S), ~Missing(S), Acyclic(S),
         NEW P \in SUBSET S, P # S
  PROVE  \E m \in S \ P : Selected(S, m) \subseteq P
<1>1. S \ P # {} /\ S \ P \in SUBSET S
  OBVIOUS
<1>2. PICK m \in S \ P : Selected(S, m) \cap (S \ P) = {}
  BY <1>1 DEF Acyclic
<1>3. ASSUME NEW d \in m.needs PROVE Best(S, d) \in S
  BY <1>3, BestIsCandidate DEF Missing
<1>4. Selected(S, m) \subseteq P
  BY <1>2, <1>3 DEF Selected
<1> QED
  BY <1>4

\* For any finite catalogue: the resolver's two checks, that every dependency has
\* a candidate and that the graph of the versions selected has no cycle, accept
\* exactly the catalogues that have a loading order.  Of the parts of a catalogue
\* without gaps and cycles that are in order a largest one is all of it.
THEOREM ChecksAreExact ==
  ASSUME NEW S \in SUBSET Metas, IsFiniteSet(S)
  PROVE  HasLoadingOrder(S) <=> ~Missing(S) /\ Acyclic(S)
<1>1. ASSUME ~Missing(S), Acyclic(S) PROVE HasLoadingOrder(S)
  <2> DEFINE Parts == {P \in SUBSET S : InOrder(S, P)}
             val == [P \in Parts |-> Cardinality(P)]
  <2>1. IsFiniteSet(Parts) /\ Parts # {}
    <3>1. {} \in Parts
      BY NothingIsInOrder
    <3>2. Parts \in SUBSET (SUBSET S) /\ IsFiniteSet(SUBSET S)
      BY FS_SUBSET
    <3> QED
      BY <3>1, <3>2, FS_Subset
  <2>2. \A P \in Parts : IsFiniteSet(P) /\ Cardinality(P) \in Nat
    BY FS_Subset, FS_CardinalityType
  <2>3. val \in [Parts -> Int]
    BY <2>2
  <2>4. PICK P \in Parts : \A Q \in Parts : val[Q] <= val[P]
    <3> HIDE DEF Parts, val
    <3> QED
      BY <2>1, <2>3, HasGreatest
  <2>5. P = S
    <3> SUFFICES ASSUME P # S PROVE FALSE
      OBVIOUS
    <3>1. PICK m \in S \ P : Selected(S, m) \subseteq P
      BY <1>1, OneIsNext
    <3>2. P \cup {m} \in Parts
      BY <2>2, <3>1, OneMoreInOrder
    <3>3. Cardinality(P \cup {m}) = Cardinality(P) + 1
      BY <2>2, <3>1, FS_AddElement
    <3>4. Cardinality(P \cup {m}) <= Cardinality(P)
      BY <2>4, <3>2
    <3> QED
      BY <2>2, <3>3, <3>4
  <2> QED
    BY <1>1, <2>5, AllInOrder
<1> QED
  BY <1>1, OrderedIsAcyclic

LEMMA LoadingInitTyped == LoadingInit => LoadingTypeOK
  BY LoadingAssumption DEF LoadingInit, LoadingTypeOK, NothingFound

\* Changing a file keeps the types.
LEMMA EditTyped ==
  ASSUME LoadingTypeOK, NEW p \in Files, Edit(p)
  PROVE  LoadingTypeOK'
<1>1. clock' \in 0..MaxEdits
  BY LoadingAssumption DEF Edit, LoadingTypeOK
<1>2. disk' \in [Files -> [holds : Metas \cup {Broken, NoFile}, mtime : 0..MaxEdits]]
  BY <1>1 DEF Edit, LoadingTypeOK
<1> QED
  BY <1>1, <1>2 DEF Edit, LoadingTypeOK, findVars, sortVars

\* What is stored in the cache is an entry.
LEMMA StoresEntry ==
  ASSUME LoadingTypeOK, step = "store", disk[file].holds # NoFile
  PROVE  /\ held \in Metas /\ file \in Files /\ held.name \in ModuleNames
         /\ Entry(file, held, disk[file].mtime, disk[file].holds # held) \in Entries
<1>1. held \in Metas /\ file \in Files /\ disk[file].mtime \in 0..MaxEdits
  BY DEF LoadingTypeOK
<1>2. (disk[file].holds # held) \in BOOLEAN
  BY Zenon
<1> DEFINE t == disk[file].mtime
           r == disk[file].holds # held
<1>3. Entry(file, held, t, r) \in Entries
  <2> HIDE DEF t, r
  <2> SUFFICES ASSUME t \in 0..MaxEdits, r \in BOOLEAN PROVE Entry(file, held, t, r) \in Entries
    BY <1>1, <1>2 DEF t, r
  <2> QED
    BY <1>1 DEF Entry, Entries
<1> QED
  BY <1>1, <1>3 DEF ModuleNames

\* Each step of the discovery keeps the types.
LEMMA DiscoverTyped ==
  ASSUME LoadingTypeOK, Discover
  PROVE  LoadingTypeOK'
<1>1. ASSUME NEW u \in BOOLEAN, StartDiscovery(u) PROVE LoadingTypeOK'
  <2>1. NothingFound \in [ModuleNames -> {NoEntry}]
    BY DEF NothingFound
  <2> QED
    BY <1>1, <2>1 DEF StartDiscovery, LoadingTypeOK, diskVars, sortVars
<1>2. ASSUME NEW p \in Files, Stat(p) PROVE LoadingTypeOK'
  <2> DEFINE cached == {n \in ModuleNames : cache[n] # NoEntry /\ cache[n].file = p}
             valid == {n \in cached : Valid(cache[n], p)}
  <2>1. \A n \in valid : cache[n].meta \in Metas
    BY DEF LoadingTypeOK, Entries
  <2>2. [n \in ModuleNames |-> IF n \in valid THEN cache[n].meta ELSE found[n]]
          \in [ModuleNames -> Metas \cup {NoEntry}]
    <3> HIDE DEF valid
    <3> QED
      BY <2>1 DEF LoadingTypeOK
  <2>3. [n \in ModuleNames |-> IF n \in cached THEN NoEntry ELSE cache[n]]
          \in [ModuleNames -> Entries \cup {NoEntry}]
    <3> HIDE DEF cached
    <3> QED
      BY DEF LoadingTypeOK
  <2>4. /\ scan' = scan \ {p} /\ UNCHANGED <<disk, clock, held, given, ready, sorted, tried, loaded>>
        /\ \/ UNCHANGED <<step, file, found, cache>>
           \/ /\ found' = [n \in ModuleNames |-> IF n \in valid THEN cache[n].meta ELSE found[n]]
              /\ UNCHANGED <<step, file, cache>>
           \/ /\ cache' = [n \in ModuleNames |-> IF n \in cached THEN NoEntry ELSE cache[n]]
              /\ step' = "read" /\ file' = p /\ UNCHANGED found
    BY <1>2 DEF Stat, diskVars, sortVars
  <2> HIDE DEF cached, valid
  <2> QED
    BY <2>2, <2>3, <2>4 DEF LoadingTypeOK
<1>3. ASSUME Read PROVE LoadingTypeOK'
  BY <1>3 DEF Read, LoadingTypeOK, diskVars, sortVars
<1>4. ASSUME Store PROVE LoadingTypeOK'
  <2>1. CASE disk[file].holds = NoFile
    BY <1>4, <2>1 DEF Store, LoadingTypeOK, diskVars, sortVars
  <2>2. CASE disk[file].holds # NoFile
    <3> DEFINE e == Entry(file, held, disk[file].mtime, disk[file].holds # held)
    <3>1. e \in Entries /\ held \in Metas /\ held.name \in ModuleNames
      BY <1>4, <2>2, StoresEntry DEF Store
    <3>2. /\ cache' = [cache EXCEPT ![held.name] = e]
          /\ found' = [found EXCEPT ![held.name] = held]
      BY <1>4, <2>2 DEF Store
    <3> HIDE DEF e
    <3>3. /\ cache' \in [ModuleNames -> Entries \cup {NoEntry}]
          /\ found' \in [ModuleNames -> Metas \cup {NoEntry}]
      BY <3>1, <3>2 DEF LoadingTypeOK
    <3> QED
      BY <1>4, <3>3 DEF Store, LoadingTypeOK, diskVars, sortVars
  <2> QED
    BY <2>1, <2>2
<1> QED
  BY <1>1, <1>2, <1>3, <1>4 DEF Discover

\* Resolving a catalogue keeps the types.
LEMMA ResolveTyped ==
  ASSUME LoadingTypeOK, NEW S \in SUBSET Metas, Resolve(S),
         UNCHANGED <<diskVars, findVars>>
  PROVE  LoadingTypeOK'
<1>1. ready' \subseteq S /\ step' \in {"idle", "failed", "load"}
  BY DEF Resolve
<1> QED
  BY <1>1 DEF Resolve, LoadingTypeOK, diskVars, findVars

\* The modules that were found.
FoundMetas == {found[n] : n \in ModuleNames} \ {NoEntry}

LEMMA FoundAreMetas == LoadingTypeOK => FoundMetas \in SUBSET Metas
  BY DEF LoadingTypeOK, FoundMetas

\* Loading a module keeps the types.
LEMMA LoadTyped ==
  ASSUME LoadingTypeOK, NEW m \in Metas, Load(m)
  PROVE  LoadingTypeOK'
<1>1. m \in given /\ Unblocked(sorted') \subseteq given
  BY DEF Load, LoadingTypeOK, Unblocked
<1>2. ready' \subseteq given /\ sorted' = sorted \cup {m}
  BY <1>1 DEF Load, LoadingTypeOK
<1>3. \/ UNCHANGED <<tried, loaded>>
      \/ tried' = tried \cup {m} /\ loaded' \subseteq loaded \cup {m}
  BY DEF Load
<1> QED
  BY <1>1, <1>2, <1>3 DEF Load, LoadingTypeOK, diskVars, findVars

\* Every step of finding and loading keeps the types.
LEMMA LoadingStepTyped == LoadingTypeOK /\ [LoadingNext]_loadingVars => LoadingTypeOK'
<1> SUFFICES ASSUME LoadingTypeOK, [LoadingNext]_loadingVars PROVE LoadingTypeOK'
  OBVIOUS
<1>1. CASE UNCHANGED loadingVars
  BY <1>1 DEF LoadingTypeOK, loadingVars
<1>2. ASSUME ResolveFound PROVE LoadingTypeOK'
  BY <1>2, FoundAreMetas, ResolveTyped DEF ResolveFound, FoundMetas
<1>3. ASSUME NEW S \in Catalogues, ResolveGiven(S) PROVE LoadingTypeOK'
  BY <1>3, LoadingAssumption, ResolveTyped DEF ResolveGiven
<1>4. ASSUME Finish PROVE LoadingTypeOK'
  BY <1>4 DEF Finish, LoadingTypeOK, diskVars, findVars
<1> QED
  BY <1>1, <1>2, <1>3, <1>4, EditTyped, DiscoverTyped, LoadTyped DEF LoadingNext

\* Type correctness of finding and loading, for all files, metadata, catalogues
\* and however often files change.
THEOREM LoadingTyped == LoadingSpec => []LoadingTypeOK
  BY LoadingInitTyped, LoadingStepTyped, PTL DEF LoadingSpec

\* The cache is honest at the start: it is empty.
LEMMA CacheInvInit == LoadingInit => CacheInv
<1> SUFFICES ASSUME LoadingInit PROVE TimesPast /\ CacheHonest
  BY LoadingInitTyped DEF CacheInv
<1>1. \A p \in Files : disk[p].mtime = 0
  BY DEF LoadingInit
<1> QED
  BY <1>1 DEF LoadingInit, TimesPast, CacheHonest, NothingFound

\* A change of a file makes what is cached of it stale.
LEMMA EditCache ==
  ASSUME CacheInv, NEW p \in Files, Edit(p)
  PROVE  TimesPast' /\ CacheHonest'
<1>1. clock' = clock + 1 /\ clock \in Nat /\ UNCHANGED cache
  BY LoadingAssumption DEF Edit, CacheInv, LoadingTypeOK, findVars
<1>2. /\ disk'[p].mtime = clock + 1
      /\ \A q \in Files \ {p} : disk'[q] = disk[q]
  BY DEF Edit, CacheInv, LoadingTypeOK
<1>3. \A q \in Files : disk[q].mtime \in Nat
  BY LoadingAssumption DEF CacheInv, LoadingTypeOK
<1>4. \A n \in ModuleNames : cache[n] # NoEntry => cache[n] \in Entries /\ cache[n].mtime \in Nat
  BY LoadingAssumption DEF CacheInv, LoadingTypeOK, Entries
<1>5. TimesPast'
  BY <1>1, <1>2, <1>3, <1>4 DEF TimesPast, CacheInv
<1>6. ASSUME NEW n \in ModuleNames, cache[n] # NoEntry
      PROVE  /\ cache[n].meta.name = n
             /\ Valid(cache[n], cache[n].file)' /\ ~cache[n].raced
                  => disk'[cache[n].file].holds = cache[n].meta
  <2>1. CASE cache[n].file = p
    <3>1. ~Valid(cache[n], cache[n].file)'
      BY <1>1, <1>2, <1>4, <1>6, <2>1 DEF Valid, TimesPast, CacheInv
    <3> QED
      BY <1>6, <3>1 DEF CacheInv, CacheHonest
  <2>2. CASE cache[n].file # p
    <3>1. cache[n].file \in Files
      BY <1>4, <1>6 DEF Entries
    <3>2. disk'[cache[n].file] = disk[cache[n].file]
      BY <1>2, <2>2, <3>1
    <3> QED
      BY <1>1, <1>6, <3>2 DEF CacheInv, CacheHonest, Valid
  <2> QED
    BY <2>1, <2>2
<1>7. CacheHonest'
  BY <1>1, <1>6 DEF CacheHonest
<1> QED
  BY <1>5, <1>7

\* What is stored is honest: its time is the file's, and if the file still holds
\* what was read the answer is right.
LEMMA StoreCache ==
  ASSUME CacheInv, Store, disk[file].holds # NoFile
  PROVE  TimesPast' /\ CacheHonest'
<1> DEFINE e == Entry(file, held, disk[file].mtime, disk[file].holds # held)
<1>1. /\ held \in Metas /\ file \in Files /\ held.name \in ModuleNames /\ e \in Entries
      /\ cache' = [cache EXCEPT ![held.name] = e] /\ UNCHANGED diskVars
  BY StoresEntry DEF CacheInv, Store
<1>2. /\ e.meta = held /\ e.file = file /\ e.mtime = disk[file].mtime
      /\ ~e.raced => disk[file].holds = held
  BY DEF Entry
<1>3. /\ cache'[held.name] = e
      /\ \A n \in ModuleNames \ {held.name} : cache'[n] = cache[n]
  BY <1>1 DEF CacheInv, LoadingTypeOK
<1>4. disk' = disk /\ clock' = clock
  BY <1>1 DEF diskVars
<1> HIDE DEF e
<1>5. TimesPast'
  BY <1>1, <1>2, <1>3, <1>4 DEF TimesPast, CacheInv
<1>6. CacheHonest'
  BY <1>1, <1>2, <1>3, <1>4 DEF CacheHonest, CacheInv, Valid
<1> QED
  BY <1>5, <1>6

\* Dropping entries, or leaving the cache alone, keeps it honest.
LEMMA FewerEntries ==
  ASSUME CacheInv, UNCHANGED diskVars,
         \A n \in ModuleNames : cache'[n] \in {cache[n], NoEntry}
  PROVE  TimesPast' /\ CacheHonest'
  BY DEF CacheInv, TimesPast, CacheHonest, Valid, diskVars

\* Every step keeps the cache honest.
LEMMA CacheInvStep == CacheInv /\ [LoadingNext]_loadingVars => CacheInv'
<1> SUFFICES ASSUME CacheInv, [LoadingNext]_loadingVars PROVE TimesPast' /\ CacheHonest'
  BY LoadingStepTyped DEF CacheInv
<1>1. CASE UNCHANGED <<disk, clock, cache>>
  BY <1>1, FewerEntries DEF diskVars
<1>2. ASSUME NEW u \in BOOLEAN, StartDiscovery(u) PROVE TimesPast' /\ CacheHonest'
  BY <1>2, FewerEntries DEF StartDiscovery, NothingFound
<1>3. ASSUME NEW p \in Files, Stat(p) PROVE TimesPast' /\ CacheHonest'
  BY <1>3, FewerEntries DEF Stat
<1>4. ASSUME Store PROVE TimesPast' /\ CacheHonest'
  BY <1>1, <1>4, StoreCache DEF Store, diskVars
<1>5. ASSUME \/ Read \/ ResolveFound \/ Finish
             \/ \E S \in Catalogues : ResolveGiven(S)
             \/ \E m \in Metas : Load(m)
      PROVE  UNCHANGED <<disk, clock, cache>>
  BY <1>5 DEF Read, ResolveFound, Finish, ResolveGiven, Load, diskVars, findVars
<1>6. CASE UNCHANGED loadingVars
  BY <1>1, <1>6 DEF loadingVars
<1> QED
  BY <1>1, <1>2, <1>3, <1>4, <1>5, <1>6, EditCache DEF LoadingNext, Discover

\* Whoever changes the files, and whenever, as long as a change gives a file a later
\* time: what the cache would answer for a file is what the file holds, unless it was
\* changed between the reading and the second look at its time (discover_modules,
\* src/src/core/discovery.py:153).
THEOREM CacheIsHonest == LoadingSpec => []CacheHonest
<1>1. CacheInv => CacheHonest
  BY DEF CacheInv
<1> QED
  BY <1>1, CacheInvInit, CacheInvStep, PTL DEF LoadingSpec

\* Nothing is entered in an empty map; a new entry and an entry less leave
\* finitely many.
LEMMA EnterFinitely ==
  ASSUME NEW map, NEW new, NEW names, IsFiniteSet(Entered(map)), IsFiniteSet(names),
         \A n \in ModuleNames : new[n] = NoEntry \/ new[n] = map[n] \/ n \in names
  PROVE  IsFiniteSet(Entered(new))
<1>1. Entered(new) \in SUBSET (Entered(map) \cup names)
  BY DEF Entered
<1> QED
  BY <1>1, FS_Union, FS_Subset

LEMMA NothingEntered == IsFiniteSet(Entered(NothingFound))
<1>1. Entered(NothingFound) = {}
  BY DEF Entered, NothingFound
<1> QED
  BY <1>1, FS_EmptySet

\* Every step of the discovery enters finitely many names.
LEMMA DiscoverFinds ==
  ASSUME LoadingTypeOK, FiniteFinds, Discover
  PROVE  FiniteFinds'
<1>0. IsFiniteSet({}) /\ \A x : IsFiniteSet({x})
  BY FS_EmptySet, FS_Singleton
<1>1. ASSUME NEW u \in BOOLEAN, StartDiscovery(u) PROVE FiniteFinds'
  BY <1>1, NothingEntered DEF StartDiscovery, FiniteFinds, Entered
<1>2. ASSUME NEW p \in Files, Stat(p) PROVE FiniteFinds'
  <2>1. \A n \in ModuleNames : cache'[n] = NoEntry \/ cache'[n] = cache[n]
    BY <1>2 DEF Stat
  <2>2. \A n \in ModuleNames : found'[n] = found[n] \/ n \in Entered(cache)
    BY <1>2 DEF Stat, Entered
  <2>3. IsFiniteSet(Entered(cache'))
    BY <1>0, <2>1, EnterFinitely DEF FiniteFinds
  <2>4. IsFiniteSet(Entered(found'))
    BY <2>2, EnterFinitely DEF FiniteFinds
  <2> QED
    BY <2>3, <2>4 DEF FiniteFinds, Entered
<1>3. ASSUME Read PROVE FiniteFinds'
  BY <1>3 DEF Read, FiniteFinds, Entered
<1>4. ASSUME Store PROVE FiniteFinds'
  <2>1. \A n \in ModuleNames : cache'[n] = cache[n] \/ n \in {held.name}
    BY <1>4 DEF Store, LoadingTypeOK
  <2>2. \A n \in ModuleNames : found'[n] = found[n] \/ n \in {held.name}
    BY <1>4 DEF Store, LoadingTypeOK
  <2>3. IsFiniteSet(Entered(cache'))
    BY <1>0, <2>1, EnterFinitely DEF FiniteFinds
  <2>4. IsFiniteSet(Entered(found'))
    BY <1>0, <2>2, EnterFinitely DEF FiniteFinds
  <2> QED
    BY <2>3, <2>4 DEF FiniteFinds, Entered
<1> QED
  BY <1>1, <1>2, <1>3, <1>4 DEF Discover

\* What was found is a finite set of modules.
LEMMA FoundFinitely == FiniteFinds => IsFiniteSet(FoundMetas)
<1> SUFFICES ASSUME FiniteFinds PROVE IsFiniteSet(FoundMetas)
  OBVIOUS
<1> DEFINE pick == [n \in Entered(found) |-> found[n]]
<1>1. pick \in Surjection(Entered(found), FoundMetas)
  BY DEF Surjection, FoundMetas, Entered
<1> HIDE DEF pick
<1> QED
  BY <1>1, FS_Surjection DEF FiniteFinds

\* A catalogue is refused for a reason, and one that is accepted starts with the
\* modules that need nothing.
LEMMA ResolveSorts ==
  ASSUME LoadingTypeOK, NEW S \in SUBSET Metas, IsFiniteSet(S), Resolve(S)
  PROVE  IsFiniteSet(given') /\ SortInv' /\ RefusedInv'
<1>1. given' = S /\ sorted' = {} /\ tried' = {}
  BY DEF Resolve
<1>2. RefusedInv'
  BY <1>1 DEF Resolve, RefusedInv
<1>3. ASSUME step' = "load"
      PROVE  /\ ~Missing(S) /\ Acyclic(S) /\ ready' = {m \in S : m.needs = {}}
  BY <1>3 DEF Resolve
<1>4. InOrder(given', sorted')
  BY <1>1, NothingIsInOrder
<1>5. ASSUME NEW m \in S, Selected(S, m) \subseteq {} PROVE m.needs = {}
  BY <1>5 DEF Selected
<1>6. \A m : m.needs = {} => Selected(S, m) = {}
  BY DEF Selected
<1>7. SortInv'
  <2> SUFFICES ASSUME step' = "load" PROVE SortInv'
    BY DEF SortInv
  <2>1. \A m \in ready' : Selected(given', m) \subseteq sorted'
    BY <1>1, <1>3, <1>6
  <2>2. ready' = {} => Unblocked(sorted)' = {}
    BY <1>1, <1>3, <1>5 DEF Unblocked
  <2> QED
    BY <1>1, <1>3, <1>4, <2>1, <2>2 DEF SortInv
<1> QED
  BY <1>1, <1>2, <1>7

\* Loading a module of the generation keeps the order.
LEMMA LoadSorts ==
  ASSUME LoadingInv, NEW m \in Metas, Load(m)
  PROVE  SortInv'
<1> USE DEF LoadingInv
<1>1. /\ step = "load" /\ step' = "load" /\ given' = given /\ sorted' = sorted \cup {m}
      /\ m \in ready /\ m \in given
  BY DEF Load, LoadingTypeOK
<1>2. ~Missing(given') /\ Acyclic(given')
  BY <1>1 DEF SortInv
<1>3. /\ m \notin sorted /\ Selected(given, m) \subseteq sorted
      /\ InOrder(given, sorted)
  BY <1>1 DEF SortInv
<1>4. InOrder(given', sorted')
  <2>1. IsFiniteSet(sorted)
    BY FS_Subset DEF LoadingTypeOK
  <2> QED
    BY <1>1, <1>3, <2>1, OneMoreInOrder
<1>5. /\ ready' \cap sorted' = {}
      /\ \A k \in ready' : Selected(given', k) \subseteq sorted'
      /\ ready' = {} => Unblocked(sorted)' = {}
  <2>1. CASE ready = {m}
    BY <1>1, <2>1 DEF Load, Unblocked
  <2>2. CASE ready # {m}
    <3>1. ready' = ready \ {m} /\ ready' # {}
      BY <1>1, <2>2 DEF Load
    <3> QED
      BY <1>1, <3>1 DEF SortInv
  <2> QED
    BY <2>1, <2>2
<1>6. /\ \A k \in sorted' : \E l \in tried' : l.name = k.name
      /\ \A k, l \in tried' : k.name = l.name => k = l
  <2>1. CASE \E k \in tried : k.name = m.name
    BY <1>1, <2>1 DEF Load, SortInv
  <2>2. CASE \A k \in tried : k.name # m.name
    BY <1>1, <2>2 DEF Load, SortInv
  <2> QED
    BY <2>1, <2>2
<1> QED
  BY <1>2, <1>4, <1>5, <1>6 DEF SortInv

\* Every step keeps the order.
LEMMA LoadingInvStep == LoadingInv /\ [LoadingNext]_loadingVars => LoadingInv'
<1> SUFFICES ASSUME LoadingInv, [LoadingNext]_loadingVars
             PROVE  FiniteFinds' /\ IsFiniteSet(given') /\ SortInv' /\ RefusedInv'
  BY LoadingStepTyped DEF LoadingInv
<1> USE DEF LoadingInv
<1>1. ASSUME UNCHANGED <<given, ready, sorted, tried>>, step' # "load", step' # "failed"
      PROVE  IsFiniteSet(given') /\ SortInv' /\ RefusedInv'
  BY <1>1 DEF SortInv, RefusedInv
<1>2. ASSUME UNCHANGED findVars PROVE FiniteFinds'
  BY <1>2 DEF FiniteFinds, Entered, findVars
<1>3. CASE UNCHANGED <<cache, found, step, given, ready, sorted, tried>>
  BY <1>3 DEF FiniteFinds, Entered, SortInv, RefusedInv, Unblocked
<1>4. ASSUME NEW p \in Files, Edit(p)
      PROVE  UNCHANGED <<cache, found, step, given, ready, sorted, tried>>
  BY <1>4 DEF Edit, findVars, sortVars
<1>5. ASSUME Discover
      PROVE  UNCHANGED <<given, ready, sorted, tried>> /\ step' # "load" /\ step' # "failed"
  BY <1>5 DEF Discover, StartDiscovery, Stat, Read, Store, sortVars
<1>6. ASSUME ResolveFound
      PROVE  FiniteFinds' /\ IsFiniteSet(given') /\ SortInv' /\ RefusedInv'
  BY <1>2, <1>6, FoundAreMetas, FoundFinitely, ResolveSorts DEF ResolveFound, FoundMetas
<1>7. ASSUME NEW S \in Catalogues, ResolveGiven(S)
      PROVE  FiniteFinds' /\ IsFiniteSet(given') /\ SortInv' /\ RefusedInv'
  BY <1>2, <1>7, LoadingAssumption, ResolveSorts DEF ResolveGiven
<1>8. ASSUME NEW m \in Metas, Load(m)
      PROVE  FiniteFinds' /\ IsFiniteSet(given') /\ SortInv' /\ RefusedInv'
  BY <1>2, <1>8, LoadSorts DEF Load, RefusedInv
<1>9. ASSUME Finish PROVE FiniteFinds' /\ IsFiniteSet(given') /\ SortInv' /\ RefusedInv'
  BY <1>2, <1>9, FS_EmptySet DEF Finish, SortInv, RefusedInv
<1>10. CASE UNCHANGED loadingVars
  BY <1>3, <1>10 DEF loadingVars
<1> QED
  BY <1>1, <1>3, <1>4, <1>5, <1>6, <1>7, <1>8, <1>9, <1>10, DiscoverFinds DEF LoadingNext

LEMMA LoadingInvInit == LoadingInit => LoadingInv
<1> SUFFICES ASSUME LoadingInit PROVE LoadingInv
  OBVIOUS
<1>1. FiniteFinds
  BY NothingEntered DEF LoadingInit, FiniteFinds
<1> QED
  BY <1>1, LoadingInitTyped, FS_EmptySet DEF LoadingInv, LoadingInit, SortInv, RefusedInv

THEOREM LoadingInvariant == LoadingSpec => []LoadingInv
  BY LoadingInvInit, LoadingInvStep, PTL DEF LoadingSpec

\* When no module is left that can be sorted, all are.
LEMMA AllAreSorted ==
  ASSUME LoadingInv, step = "load", ready = {}
  PROVE  sorted = given
  BY OneIsNext DEF LoadingInv, LoadingTypeOK, SortInv, Unblocked

\* For any catalogue: the resolver refuses it exactly when it has no loading
\* order, and of the others every name is loaded, or tried, in one version.
THEOREM ResolutionIsExact == LoadingSpec => []ResolvesExactly
<1>1. ASSUME LoadingInv PROVE ResolvesExactly
  <2> USE <1>1 DEF LoadingInv
  <2>1. step = "failed" => ~HasLoadingOrder(given)
    BY OrderedIsAcyclic DEF RefusedInv
  <2>2. ASSUME step = "load", ready = {} PROVE HasLoadingOrder(given)
    BY <2>2, AllAreSorted, AllInOrder DEF SortInv
  <2>3. ASSUME step = "load", ready = {}, NEW m \in given
        PROVE  Cardinality({k \in tried : k.name = m.name}) = 1
    <3>1. PICK k \in tried : k.name = m.name
      BY <2>3, AllAreSorted DEF SortInv
    <3>2. {l \in tried : l.name = m.name} = {k}
      BY <2>3, <3>1 DEF SortInv
    <3> QED
      BY <3>2, FS_Singleton
  <2> QED
    BY <2>1, <2>2, <2>3 DEF ResolvesExactly
<1> QED
  BY <1>1, LoadingInvariant, PTL

\* For any catalogue with one version of each name: no module is loaded before a
\* module that it depends on was.
THEOREM OrderIsRespected == LoadingSpec => OrderRespected
<1> DEFINE A == \A m \in tried' \ tried :
                  step = "load" /\ SingleVersion(given) => Selected(given, m) \subseteq tried
<1>1. ASSUME LoadingInv, [LoadingNext]_loadingVars PROVE [A]_loadingVars
  <2> SUFFICES ASSUME NEW m \in tried' \ tried, step = "load", SingleVersion(given), LoadingNext
               PROVE  Selected(given, m) \subseteq tried
    BY <1>1
  <2>1. m \in Metas /\ Load(m)
    BY DEF LoadingNext, Edit, Discover, StartDiscovery, Stat, Read, Store, ResolveFound,
           ResolveGiven, Load, Finish, sortVars
  <2>2. Selected(given, m) \subseteq sorted
    BY <1>1, <2>1 DEF Load, LoadingInv, SortInv
  <2>3. sorted \subseteq tried
    BY <1>1 DEF LoadingInv, LoadingTypeOK, SortInv, SingleVersion
  <2> QED
    BY <2>2, <2>3
<1> QED
  BY <1>1, LoadingInvariant, PTL DEF LoadingSpec, OrderRespected
=============================================================================
