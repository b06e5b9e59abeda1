--------------------------- MODULE ComponentRegistry --------------------------
(***************************************************************************)
(* The component registry of src/core/component_registry.py: versions of   *)
(* modules by name, one default, and listeners that are called while the   *)
(* registry's re-entrant lock is held.  A listener may itself register and *)
(* deregister modules: the thread then works on the registry in the middle *)
(* of its own operation.                                                   *)
(*                                                                         *)
(* An operation is two steps, what it does before its listeners run and    *)
(* what it does after; between them the operations of its listeners may    *)
(* come.  The operations under way form a stack, all of the one thread     *)
(* that holds the lock.  Two listeners are there from the start: one that  *)
(* may act, and after it one that keeps a mirror of the registry from the  *)
(* events it is told of.                                                   *)
(***************************************************************************)
EXTENDS Integers

CONSTANTS Modules,     \* the pairs <<name, version>> that may be registered
          NoModule,    \* the default key None
          Threads,     \* the threads that use the registry
          NoThread,    \* the lock is free
          NoFrame,     \* an unused place of the stack
          MaxDepth     \* bound: operations within operations

NameOf(m) == m[1]
Names == {NameOf(m) : m \in Modules}

ASSUME RegistryAssumption == /\ MaxDepth \in Nat \ {0}
                             /\ NoModule \notin Modules /\ NoThread \notin Threads

VARIABLES modules,   \* the versions registered
          families,  \* the names that have a dictionary of versions, if empty
          default,   \* _default_module_key
          owner,     \* who holds the lock
          depth,     \* how many operations are under way
          frames,    \* the operations under way, outermost first
          mirror,    \* the second listener's picture of modules
          nested,    \* a listener has changed the registry (history)
          escaped    \* an exception has left the outermost operation (history)

vars == <<modules, families, default, owner, depth, frames, mirror, nested, escaped>>

Frames == [op : {"register"}, module : Modules, asDefault : BOOLEAN]
            \cup [op : {"deregister"}, module : Modules]
            \cup [op : {"deregisterAll"}, name : Names]

ASSUME FrameAssumption == NoFrame \notin Frames

Init == /\ modules = {} /\ families = {} /\ default = NoModule
        /\ owner = NoThread /\ depth = 0 /\ frames = [i \in 1..MaxDepth |-> NoFrame]
        /\ mirror = {} /\ nested = FALSE /\ escaped = FALSE

Family(name) == {m \in Modules : NameOf(m) = name}

\* A thread may begin an operation on a free lock; the owner may only from
\* within a listener, that is, within the operation on top of its stack.
Enters(t) == (owner = NoThread \/ owner = t) /\ depth < MaxDepth

Begin(t, frame) == /\ owner' = t /\ depth' = depth + 1
                   /\ frames' = [frames EXCEPT ![depth + 1] = frame]
                   /\ nested' = (nested \/ depth > 0)

\* The operation on top is over, and its lock is released with the last one.
End == /\ depth' = depth - 1
       /\ frames' = [frames EXCEPT ![depth] = NoFrame]
       /\ owner' = IF depth = 1 THEN NoThread ELSE owner
       /\ UNCHANGED nested

Top == frames[depth]
-----------------------------------------------------------------------------
\* register_module up to its listeners: an older registration is overwritten.
Register(t, m, asDefault) ==
  /\ Enters(t)
  /\ modules' = modules \cup {m} /\ families' = families \cup {NameOf(m)}
  /\ Begin(t, [op |-> "register", module |-> m, asDefault |-> asDefault])
  /\ UNCHANGED <<default, mirror, escaped>>

\* Defect: the first module becomes the default without a look whether its
\* listeners have left it registered.
RegisteredUnchecked(t) ==
  /\ owner = t /\ Top.op = "register"
  /\ mirror' = mirror \cup {Top.module}
  /\ default' = IF Top.asDefault \/ default = NoModule THEN Top.module ELSE default
  /\ End /\ UNCHANGED <<modules, families, escaped>>

\* The rest of it: the mirror is told, and the module becomes the default if
\* that is asked for or there is none; set_default_module's ValueError, when a
\* listener has deregistered the module meanwhile, is caught.
Registered(t) ==
  /\ owner = t /\ Top.op = "register"
  /\ mirror' = mirror \cup {Top.module}
  /\ default' = IF (Top.asDefault \/ default = NoModule) /\ Top.module \in modules
                  THEN Top.module ELSE default
  /\ End /\ UNCHANGED <<modules, families, escaped>>

\* deregister_module of one version up to its listeners.
Deregister(t, m) ==
  /\ Enters(t) /\ m \in modules
  /\ modules' = modules \ {m}
  /\ Begin(t, [op |-> "deregister", module |-> m])
  /\ UNCHANGED <<families, default, mirror, escaped>>

\* Defect: the family is left behind when its last version goes.
DeregisteredKeepingFamily(t) ==
  /\ owner = t /\ Top.op = "deregister"
  /\ mirror' = mirror \ {Top.module}
  /\ default' = IF default = Top.module THEN NoModule ELSE default
  /\ End /\ UNCHANGED <<modules, families, escaped>>

\* The rest of it: the default is cleared if it was this one, and an empty
\* family goes.  A family that a listener has removed is a KeyError, which
\* leaves the outermost operation and is caught around a listener.
Deregistered(t) ==
  /\ owner = t /\ Top.op = "deregister"
  /\ mirror' = mirror \ {Top.module}
  /\ default' = IF default = Top.module THEN NoModule ELSE default
  /\ families' = IF Family(NameOf(Top.module)) \cap modules = {}
                   THEN families \ {NameOf(Top.module)} ELSE families
  /\ escaped' = (escaped \/ (depth = 1 /\ NameOf(Top.module) \notin families))
  /\ End /\ UNCHANGED modules

\* deregister_module of all versions: its listeners run before anything goes.
DeregisterAll(t, name) ==
  /\ Enters(t) /\ name \in families
  /\ Begin(t, [op |-> "deregisterAll", name |-> name])
  /\ UNCHANGED <<modules, families, default, mirror, escaped>>

\* Defect: the listeners are not told that a whole family goes.
DeregisteredAllUntold(t) ==
  /\ owner = t /\ Top.op = "deregisterAll"
  /\ modules' = modules \ Family(Top.name) /\ families' = families \ {Top.name}
  /\ default' = IF default \in Family(Top.name) THEN NoModule ELSE default
  /\ End /\ UNCHANGED <<mirror, escaped>>

\* The rest of it: the family goes as it is now, and the default with it; the
\* KeyError of a family that is gone already leaves the default alone.
DeregisteredAll(t) ==
  /\ owner = t /\ Top.op = "deregisterAll"
  /\ mirror' = mirror \ Family(Top.name)
  /\ modules' = modules \ Family(Top.name) /\ families' = families \ {Top.name}
  /\ default' = IF Top.name \in families /\ default \in Family(Top.name)
                  THEN NoModule ELSE default
  /\ escaped' = (escaped \/ (depth = 1 /\ Top.name \notin families))
  /\ End

\* set_default_module, of a module that is registered.
SetDefault(t, m) ==
  /\ owner = NoThread \/ owner = t
  /\ m \in modules /\ default' = m
  /\ UNCHANGED <<modules, families, owner, depth, frames, mirror, nested, escaped>>

Next == \E t \in Threads :
          \/ \E m \in Modules : \E asDefault \in BOOLEAN : Register(t, m, asDefault)
          \/ \E m \in Modules : Deregister(t, m) \/ SetDefault(t, m)
          \/ \E name \in Names : DeregisterAll(t, name)
          \/ Registered(t) \/ Deregistered(t) \/ DeregisteredAll(t)

Spec == Init /\ [][Next]_vars
-----------------------------------------------------------------------------
(* Properties.                                                             *)

TypeOK ==
  /\ modules \subseteq Modules /\ families \subseteq Names
  /\ default \in Modules \cup {NoModule}
  /\ owner \in Threads \cup {NoThread}
  /\ depth \in 0..MaxDepth
  /\ frames \in [1..MaxDepth -> Frames \cup {NoFrame}]
  /\ \A i \in 1..MaxDepth : (i <= depth) <=> (frames[i] # NoFrame)
  /\ (owner = NoThread) <=> (depth = 0)
  /\ mirror \subseteq Modules /\ nested \in BOOLEAN /\ escaped \in BOOLEAN

\* An operation under way that is about to set a version's removal right.
Removing(m) == \E i \in 1..depth : frames[i].op = "deregister" /\ frames[i].module = m

\* Whatever the listeners do in the middle of an operation, and with whichever
\* exception it ends, whoever finds the lock free finds a default that is
\* registered, or none; within an operation the default may be gone only if its
\* own deregistration is under way.
DefaultRegistered ==
  default = NoModule \/ default \in modules \/ Removing(default)

\* Whoever finds the lock free finds no name without a version, and no version
\* without its name.
FamiliesNonEmpty ==
  /\ \A m \in modules : NameOf(m) \in families
  /\ \A name \in families : \/ Family(name) \cap modules # {}
                            \/ \E m \in Family(name) : Removing(m)

\* As long as no listener changes the registry itself, the events tell a
\* listener all there is to know: its mirror is the registry whenever the lock
\* is free, whichever thread did what.
EventsTellAll == depth = 0 /\ ~nested => mirror = modules
-----------------------------------------------------------------------------
(* What the repository says and the code does not do.                      *)

\* "True if any module/version was successfully deregistered, False otherwise":
\* deregister_module answers, whatever its listeners have done.
DeregisterAnswers == ~escaped

\* A listener is told of the changes in their order: its mirror is the registry
\* whenever the lock is free.
MirrorAgrees == depth = 0 => mirror = modules
=============================================================================
