-------------------------- MODULE DebugSessionProofs --------------------------
(***************************************************************************)
(* What holds of a debugging session for all graphs, breakpoints and       *)
(* conditions, and for any number of sessions.                             *)
(***************************************************************************)
EXTENDS DebugSession, TLAPS

\* While the handler is answering, it has been asked.
PausedAsked == pc = "paused" => asked

\* A node about to be executed was asked about, or no breakpoint of it is armed.
NoneArmed == pc = "execute" => asked \/ Armed(at) = {}

IInv == TypeOK /\ PausedAsked /\ NoneArmed /\ OnceEach /\ FileHonest

\* Where a session stands after its variables were set anew.
LEMMA LocalsTyped ==
  ASSUME NEW where \in {"idle", "reached"}, Locals(where)
  PROVE  /\ pc' = where /\ at' \in 1..(N + 1) /\ state' \in [Nodes -> Nat]
         /\ mode' \in {"continue", "step", "run_to"} /\ target' \in Nodes \cup {None}
         /\ back' \in Nat /\ asked' \in BOOLEAN /\ restored' \in BOOLEAN
         /\ PausedAsked' /\ NoneArmed' /\ OnceEach'
<1>1. N \in Nat \ {0}
  BY DebugAssumption
<1>2. \A n \in Nodes : n >= 1 /\ ~(n < 1)
  BY <1>1 DEF Nodes
<1>3. state' = [n \in Nodes |-> 0] /\ at' = 1
  BY DEF Locals, Fresh
<1>4. OnceEach'
  BY <1>2, <1>3 DEF OnceEach
<1>5. at' \in 1..(N + 1) /\ state' \in [Nodes -> Nat] /\ back' \in Nat
  BY <1>1, <1>3 DEF Locals
<1>6. PausedAsked' /\ NoneArmed'
  BY DEF Locals, PausedAsked, NoneArmed
<1> QED
  BY <1>4, <1>5, <1>6 DEF Locals

\* Saving what is typed keeps the file typed and, as the manager's breakpoints
\* are what is saved, honest.
LEMMA SaveTyped ==
  ASSUME TypeOK, NEW b \in Contents, Save(b), bps' = b
  PROVE  /\ bps' \in Contents /\ file' \in Contents \cup {Torn, NoFile}
         /\ stale' \in BOOLEAN /\ FileHonest'
  BY DEF Save, TypeOK, FileHonest

\* Taking breakpoints away leaves breakpoints.
LEMMA ClearTyped ==
  ASSUME TypeOK, NEW S, ClearSome(S)
  PROVE  bps' \in Contents /\ Save(bps')
  BY DEF ClearSome, TypeOK, Contents

\* Looking for a breakpoint counts at most a hit, and nothing when none is armed.
LEMMA CheckTyped ==
  ASSUME TypeOK, FileHonest, Check
  PROVE  /\ bps' \in Contents /\ file' \in Contents \cup {Torn, NoFile}
         /\ stale' \in BOOLEAN /\ FileHonest'
         /\ Armed(at) = {} => bps' = bps
<1>1. Counted \in Contents
  <2> SUFFICES ASSUME NEW i \in Ids
               PROVE  (IF i \in Hit(at) THEN [bps[i] EXCEPT !.hits = @ + 1]
                                        ELSE bps[i]) \in Breakpoint \cup {None}
    BY DEF Counted, Contents
  <2>1. bps[i] \in Breakpoint \cup {None}
    BY DEF TypeOK, Contents
  <2>2. CASE i \in Hit(at)
    <3>1. bps[i] \in Breakpoint
      BY <2>1, <2>2 DEF Hit, Armed, On
    <3>2. [bps[i] EXCEPT !.hits = @ + 1] \in Breakpoint
      BY <3>1 DEF Breakpoint
    <3> QED
      BY <2>2, <3>2
  <2> QED
    BY <2>1, <2>2
<1>2. CASE Armed(at) = {}
  <2>1. Hit(at) = {}
    BY <1>2 DEF Hit
  <2>2. Counted = bps
    BY <2>1 DEF Counted, TypeOK, Contents
  <2> QED
    BY <1>2, <2>2 DEF Check, TypeOK, FileHonest
<1>3. CASE Armed(at) # {}
  BY <1>1, <1>3, SaveTyped DEF Check
<1> QED
  BY <1>2, <1>3

\* No breakpoint has been made and no session has begun.
LEMMA InitIInv == Init => IInv
<1> SUFFICES ASSUME Init PROVE IInv
  OBVIOUS
<1>1. N \in Nat \ {0}
  BY DebugAssumption
<1>2. TypeOK
  <2>1. history \in [Nodes -> [Nodes -> Nat] \cup {None}]
    BY DEF Init
  <2>2. bps \in Contents
    BY DEF Init, NoBreakpoints, Contents
  <2>3. state \in [Nodes -> Nat]
    BY DEF Init, Fresh
  <2>4. at \in 1..(N + 1) /\ pc \notin {"paused", "execute"}
    BY <1>1 DEF Init
  <2>5. file \in Contents \cup {Torn, NoFile} /\ target \in Nodes \cup {None}
    BY DEF Init
  <2> QED
    BY <2>1, <2>2, <2>3, <2>4, <2>5 DEF Init, TypeOK
<1>3. PausedAsked /\ NoneArmed /\ OnceEach
  BY DEF Init, PausedAsked, NoneArmed, OnceEach
<1>4. FileHonest
  BY DEF Init, FileHonest
<1> QED
  BY <1>2, <1>3, <1>4 DEF IInv

\* Breakpoints change where no node is about to be executed.
LEMMA EditKeeps == IInv /\ Edit => IInv'
<1> SUFFICES ASSUME IInv, Edit PROVE IInv'
  OBVIOUS
<1> USE DEF IInv
<1>1. bps' \in Contents /\ Save(bps')
  <2>1. CASE \E i \in Ids, n \in Nodes, c \in Conditions \cup {Always}, on \in BOOLEAN :
               Set(i, n, c, on)
    <3>1. PICK i \in Ids, n \in Nodes, c \in Conditions \cup {Always}, on \in BOOLEAN :
            Set(i, n, c, on)
      BY <2>1
    <3>2. [node |-> n, condition |-> c, enabled |-> on, hits |-> 0] \in Breakpoint
      BY DEF Breakpoint
    <3> QED
      BY <3>1, <3>2 DEF Set, TypeOK, Contents
  <2>2. CASE \E S \in SUBSET Ids : ClearSome(S)
    BY <2>2, ClearTyped
  <2>3. CASE \E i \in Ids, on \in BOOLEAN : Switch(i, on)
    <3>1. PICK i \in Ids, on \in BOOLEAN : Switch(i, on)
      BY <2>3
    <3>2. bps[i] \in Breakpoint
      BY <3>1 DEF Switch, TypeOK, Contents
    <3>3. [bps[i] EXCEPT !.enabled = on] \in Breakpoint
      BY <3>2 DEF Breakpoint
    <3> QED
      BY <3>1, <3>3 DEF Switch, TypeOK, Contents
  <2>4. \A n \in Nodes : On(n) \subseteq Ids
    BY DEF On
  <2> QED
    BY <2>1, <2>2, <2>3, <2>4 DEF Edit
<1>2. /\ bps' \in Contents /\ file' \in Contents \cup {Torn, NoFile}
      /\ stale' \in BOOLEAN /\ FileHonest'
  BY <1>1, SaveTyped
<1>3. TypeOK'
  BY <1>2 DEF Edit, TypeOK, sessionVars
<1>4. PausedAsked' /\ OnceEach'
  BY DEF Edit, PausedAsked, OnceEach, sessionVars
<1>5. NoneArmed'
  BY DEF Edit, NoneArmed, sessionVars
<1> QED
  BY <1>2, <1>3, <1>4, <1>5

\* A new process holds what the file holds.
LEMMA RestartKeeps == IInv /\ Restart => IInv'
<1> SUFFICES ASSUME IInv, Restart PROVE IInv'
  OBVIOUS
<1> USE DEF IInv
<1>1. bps' \in Contents /\ FileHonest'
  <2>1. NoBreakpoints \in Contents
    BY DEF NoBreakpoints, Contents
  <2> QED
    BY <2>1 DEF Restart, TypeOK, FileHonest
<1>2. Locals("idle")
  BY DEF Restart
<1>3. TypeOK'
  BY <1>1, <1>2, LocalsTyped DEF Restart, TypeOK
<1> QED
  BY <1>1, <1>2, <1>3, LocalsTyped

\* What begins, ends or breaks off a session and leaves the breakpoints alone.
LEMMA LocalsKeep ==
  ASSUME IInv, NEW where \in {"idle", "reached"}, Locals(where),
         UNCHANGED <<bpVars, history>>, edits' \in Nat, sessions' \in Nat, backs' \in Nat
  PROVE  IInv'
<1> USE DEF IInv
<1>1. TypeOK'
  BY LocalsTyped DEF TypeOK, bpVars
<1>2. FileHonest'
  BY DEF FileHonest, bpVars
<1> QED
  BY <1>1, <1>2, LocalsTyped

\* The session stops before the node, or no breakpoint is armed there.
LEMMA VisitKeeps == IInv /\ Visit => IInv'
<1> SUFFICES ASSUME IInv, Visit PROVE IInv'
  OBVIOUS
<1> USE DEF IInv
<1>1. /\ bps' \in Contents /\ file' \in Contents \cup {Torn, NoFile}
      /\ stale' \in BOOLEAN /\ FileHonest'
      /\ Armed(at) = {} => bps' = bps
  BY CheckTyped DEF Visit
<1>2. at \in Nodes
  BY DebugAssumption DEF Visit, TypeOK, Nodes
<1>3. TypeOK'
  BY <1>1, <1>2 DEF Visit, TypeOK
<1>4. PausedAsked'
  BY DEF Visit, PausedAsked
<1>5. OnceEach'
  BY DEF Visit, OnceEach
<1>6. NoneArmed'
  <2> SUFFICES ASSUME pc' = "execute" PROVE (Armed(at) = {})'
    BY DEF NoneArmed
  <2>1. Armed(at) = {} /\ at' = at /\ state' = state
    BY DEF Visit
  <2>2. bps' = bps
    BY <1>1, <2>1
  <2> QED
    BY <2>1, <2>2 DEF Armed, On, Holds
<1> QED
  BY <1>1, <1>3, <1>4, <1>5, <1>6

\* Every command but to quit goes on from the node the handler was asked about,
\* or to a node before it.
LEMMA CommandKeeps == IInv /\ Command => IInv'
<1> SUFFICES ASSUME IInv, Command PROVE IInv'
  OBVIOUS
<1> USE DEF IInv
<1>1. asked /\ pc = "paused" /\ at \in Nodes
  BY DEF Command, PausedAsked, TypeOK
<1>2. FileHonest'
  BY DEF Command, FileHonest, bpVars
<1>3. CASE Go
  <2>1. TypeOK'
    BY <1>1, <1>3 DEF Go, Command, TypeOK, bpVars
  <2> QED
    BY <1>1, <1>2, <1>3, <2>1 DEF Go, PausedAsked, NoneArmed, OnceEach
<1>4. CASE Quit
  BY <1>4, LocalsKeep DEF Quit, Command, TypeOK
<1>5. CASE StepBack
  <2> DEFINE to == at - (back + 1)
  <2>1. back \in Nat /\ at \in Nat /\ at >= 1 /\ N \in Nat /\ at <= N
    BY <1>1, DebugAssumption DEF TypeOK, Nodes
  <2>2. CASE to >= 1 /\ history[to] # None
    <3>1. to \in Nodes
      BY <2>1, <2>2 DEF Nodes
    <3>2. history[to] \in [Nodes -> Nat]
      BY <2>2, <3>1 DEF TypeOK
    <3>3. /\ at' = to /\ back' = back + 1 /\ restored' = TRUE /\ state' = history[to]
          /\ asked' = FALSE /\ pc' = "reached"
      BY <1>5, <2>2 DEF StepBack
    <3>4. to \in 1..(N + 1)
      BY <2>1, <3>1 DEF Nodes
    <3>5. backs' \in Nat /\ mode' = mode /\ target' = target
      BY <1>5 DEF StepBack, TypeOK
    <3>6. /\ bps' \in Contents /\ file' \in Contents \cup {Torn, NoFile} /\ stale' \in BOOLEAN
          /\ history' \in [Nodes -> [Nodes -> Nat] \cup {None}]
          /\ edits' \in Nat /\ sessions' \in Nat
          /\ mode' \in {"continue", "step", "run_to"} /\ target' \in Nodes \cup {None}
      BY <3>5 DEF Command, TypeOK, bpVars
    <3>7. back' \in Nat /\ pc' \notin {"paused", "execute"}
      BY <2>1, <3>3
    <3>8. TypeOK'
      BY <3>2, <3>3, <3>4, <3>5, <3>6, <3>7 DEF TypeOK
    <3> QED
      BY <1>2, <3>3, <3>8 DEF PausedAsked, NoneArmed, OnceEach
  <2>3. CASE ~(to >= 1 /\ history[to] # None)
    <3>1. /\ back' = IF back + 1 > at - 1 THEN at - 1 ELSE back + 1
          /\ pc' = "execute" /\ UNCHANGED <<at, state, asked, restored>>
      BY <1>5, <2>3 DEF StepBack
    <3>2. backs' \in Nat /\ mode' = mode /\ target' = target
      BY <1>5 DEF StepBack, TypeOK
    <3>3. back' \in Nat
      BY <2>1, <3>1
    <3>4. TypeOK'
      BY <1>1, <3>1, <3>2, <3>3 DEF Command, TypeOK, bpVars
    <3> QED
      BY <1>1, <1>2, <3>1, <3>4 DEF PausedAsked, NoneArmed, OnceEach
  <2> QED
    BY <2>2, <2>3
<1> QED
  BY <1>3, <1>4, <1>5 DEF Command

\* The node at hand has been applied once more, and the next one is at hand.
LEMMA ExecuteKeeps == IInv /\ Execute => IInv'
<1> SUFFICES ASSUME IInv, Execute PROVE IInv'
  OBVIOUS
<1> USE DEF IInv
<1>1. at \in Nodes /\ N \in Nat /\ at \in 1..N
  BY DebugAssumption DEF Execute, TypeOK, Nodes
<1>2. CASE Locals("idle")
  BY <1>2, LocalsKeep DEF Execute, TypeOK
<1>3. CASE /\ state' = [state EXCEPT ![at] = @ + 1]
           /\ at' = at + 1 /\ back' = 0 /\ pc' = "reached" /\ asked' = FALSE
           /\ UNCHANGED <<mode, target, restored>>
  <2>1. state' \in [Nodes -> Nat]
    BY <1>1, <1>3 DEF TypeOK
  <2>2. TypeOK'
    <3>1. at' \in 1..(N + 1)
      BY <1>1, <1>3
    <3>2. /\ bps' \in Contents /\ file' \in Contents \cup {Torn, NoFile} /\ stale' \in BOOLEAN
          /\ history' \in [Nodes -> [Nodes -> Nat] \cup {None}]
          /\ edits' \in Nat /\ sessions' \in Nat /\ backs' \in Nat
      BY DEF Execute, TypeOK, bpVars
    <3>3. /\ mode' \in {"continue", "step", "run_to"} /\ target' \in Nodes \cup {None}
          /\ restored' \in BOOLEAN
      BY <1>3 DEF TypeOK
    <3> QED
      BY <1>3, <2>1, <3>1, <3>2, <3>3 DEF TypeOK
  <2>3. FileHonest'
    BY DEF Execute, FileHonest, bpVars
  <2>4. OnceEach'
    <3> SUFFICES ASSUME ~restored, NEW n \in Nodes
                 PROVE  state'[n] = IF n < at' THEN 1 ELSE 0
      BY <1>3 DEF OnceEach
    <3>1. state[n] = IF n < at THEN 1 ELSE 0
      BY DEF OnceEach, Execute
    <3>2. n \in Nat /\ at \in Nat /\ at' = at + 1
      BY <1>1, <1>3 DEF Nodes
    <3>3. CASE n = at
      BY <1>1, <1>3, <3>1, <3>2, <3>3 DEF TypeOK
    <3>4. CASE n # at
      <4>1. state'[n] = state[n]
        BY <1>3, <3>4 DEF TypeOK
      <4> QED
        BY <3>1, <3>2, <3>4, <4>1
    <3> QED
      BY <3>3, <3>4
  <2> QED
    BY <1>3, <2>2, <2>3, <2>4 DEF PausedAsked, NoneArmed
<1> QED
  BY <1>2, <1>3 DEF Execute

\* Every step keeps the inductive invariant.
LEMMA NextIInv == IInv /\ [Next]_vars => IInv'
<1> SUFFICES ASSUME IInv, [Next]_vars PROVE IInv'
  OBVIOUS
<1>1. CASE Edit
  BY <1>1, EditKeeps
<1>2. CASE Restart
  BY <1>2, RestartKeeps
<1>3. CASE Start
  BY <1>3, LocalsKeep DEF Start, IInv, TypeOK
<1>4. CASE Visit
  BY <1>4, VisitKeeps
<1>5. CASE Command
  BY <1>5, CommandKeeps
<1>6. CASE Execute
  BY <1>6, ExecuteKeeps
<1>7. CASE Finish
  BY <1>7, LocalsKeep DEF Finish, IInv, TypeOK
<1>8. CASE UNCHANGED vars
  BY <1>8 DEF vars, bpVars, sessionVars, IInv, TypeOK, PausedAsked, NoneArmed, OnceEach,
     FileHonest, Armed, On, Holds, NoBreakpoints
<1> QED
  BY <1>1, <1>2, <1>3, <1>4, <1>5, <1>6, <1>7, <1>8 DEF Next, Quiet

\* The inductive invariant holds in every reachable state.
THEOREM Invariance == Spec => []IInv
  BY InitIInv, NextIInv, PTL DEF Spec

\* Every variable of manager, file and session keeps its type, through torn
\* files, restarts and steps back (BreakpointManager, src/debugging.py:108).
THEOREM TypeCorrect == Spec => []TypeOK
<1>1. IInv => TypeOK
  BY DEF IInv
<1> QED
  BY <1>1, Invariance, PTL

\* No node with an armed breakpoint is executed before the handler was asked,
\* for any breakpoints and conditions (check_breakpoints, src/debugging.py:365).
THEOREM BreakpointsHonoured == Spec => []BreaksHonoured
<1>1. IInv => BreaksHonoured
  BY DEF IInv, NoneArmed, BreaksHonoured, Armed, On
<1> QED
  BY <1>1, Invariance, PTL

\* Until a state is taken from the history each node before the one at hand has
\* been applied once and no other has, whatever the commands
\* (step_through_execution_with_history, src/debugging.py:1449).
THEOREM AppliedOnce == Spec => []OnceEach
<1>1. IInv => OnceEach
  BY DEF IInv
<1> QED
  BY <1>1, Invariance, PTL

\* The file holds the breakpoints unless the last save failed, for any number of
\* changes, hits and restarts (save_breakpoints, src/debugging.py:440).
THEOREM FileIsHonest == Spec => []FileHonest
<1>1. IInv => FileHonest
  BY DEF IInv
<1> QED
  BY <1>1, Invariance, PTL
=============================================================================
