----------------------------- MODULE DebugSession -----------------------------
(***************************************************************************)
(* Debugging a run: BreakpointManager and the interactive stepping of      *)
(* run_with_breakpoints in src/debugging.py, over the state history of     *)
(* src/tracing.py.                                                         *)
(*                                                                         *)
(* One thread steps through the nodes 1..N.  Before a node it looks for a  *)
(* breakpoint and, when one is hit or the session is stepping, asks the    *)
(* step handler for a command; breakpoints are changed between sessions    *)
(* and by the handler.  Each change rewrites one file, which a write that  *)
(* fails may leave torn.  Of the state only how often each node has been   *)
(* applied to it is kept.  Stepping back uses the history, into which only *)
(* runs with recovery write, never a session.                              *)
(***************************************************************************)
EXTENDS Integers

CONSTANTS N,           \* how many nodes the graph has
          Ids,         \* breakpoints, in the order they are made
          Conditions,  \* sets of nodes: the condition that one has been applied
          Always,      \* no condition
          None,        \* no breakpoint, no target, no entry
          Torn, NoFile,  \* the file cannot be read, is not there
          MaxEdits,    \* bound: changes of breakpoints, and restarts
          MaxSessions, \* bound: sessions
          MaxBacks     \* bound: commands to step back

Nodes == 1..N

ASSUME DebugAssumption == /\ N \in Nat \ {0} /\ Ids \subseteq Nat
                          /\ Conditions \subseteq SUBSET Nodes
                          /\ MaxEdits \in Nat /\ MaxSessions \in Nat
                          /\ MaxBacks \in Nat
                          /\ None \notin Nodes

VARIABLES bps,     \* breakpoints: of each id [node, condition, enabled, hits]
          file,    \* breakpoints.json
          stale,   \* the last save failed
          pc,      \* where the session stands
          at,      \* current_node_index, from 1
          state,   \* current_state: how often each node has been applied
          mode,    \* execution_mode
          target,  \* run_to_target
          back,    \* step_backward_count
          asked,   \* the handler has been asked since the node was reached
          history,   \* the last output recorded of each node
          restored,  \* the session has taken a state from the history
          edits, sessions, backs

bpVars == <<bps, file, stale>>
sessionVars == <<pc, at, state, mode, target, back, asked, restored>>
vars == <<bpVars, sessionVars, history, edits, sessions, backs>>

Fresh == [n \in Nodes |-> 0]
NoBreakpoints == [i \in Ids |-> None]

\* An earlier run with recovery may have recorded some nodes.
Init == /\ bps = NoBreakpoints /\ file = NoFile /\ stale = FALSE
        /\ pc = "idle" /\ at = 1 /\ state = Fresh
        /\ mode = "continue" /\ target = None /\ back = 0
        /\ asked = FALSE /\ restored = FALSE
        /\ \E S \in SUBSET Nodes :
             history = [n \in Nodes |-> IF n \in S THEN [m \in Nodes |-> IF m <= n THEN 1 ELSE 0]
                                                   ELSE None]
        /\ edits = 0 /\ sessions = 0 /\ backs = 0

\* A session's variables, as it begins and, forgotten, when it has ended.
Locals(where) == /\ pc' = where /\ at' = 1 /\ state' = Fresh
                 /\ mode' = "continue" /\ target' = None /\ back' = 0
                 /\ asked' = FALSE /\ restored' = FALSE
-----------------------------------------------------------------------------
(* Breakpoints.                                                            *)

\* Opening the file for writing may fail, and so may the writing once the old
\* content is gone; neither is told to the caller.
Save(b) == \/ file' = b /\ stale' = FALSE
           \/ file' \in {file, Torn} /\ stale' = TRUE

Set(i, n, c, on) ==
  /\ bps[i] = None /\ \A j \in Ids : j < i => bps[j] # None
  /\ bps' = [bps EXCEPT ![i] = [node |-> n, condition |-> c, enabled |-> on, hits |-> 0]]
  /\ Save(bps')

ClearSome(S) == /\ \E i \in S : bps[i] # None
                /\ bps' = [i \in Ids |-> IF i \in S THEN None ELSE bps[i]]
                /\ Save(bps')

On(n) == {i \in Ids : bps[i] # None /\ bps[i].node = n}

\* Enabling what is enabled changes nothing, and saves nothing.
Switch(i, on) == /\ bps[i] # None /\ bps[i].enabled # on
                 /\ bps' = [bps EXCEPT ![i].enabled = on]
                 /\ Save(bps')

Edit == /\ pc \in {"idle", "paused"} /\ edits < MaxEdits /\ edits' = edits + 1
        /\ \/ \E i \in Ids, n \in Nodes, c \in Conditions \cup {Always}, on \in BOOLEAN :
                Set(i, n, c, on)
           \/ \E i \in Ids : ClearSome({i})
           \/ \E n \in Nodes : ClearSome(On(n))
           \/ ClearSome(Ids)
           \/ \E i \in Ids, on \in BOOLEAN : Switch(i, on)
        /\ UNCHANGED <<sessionVars, history, sessions, backs>>

\* A new process loads what the file holds, and has none if it is torn.
Restart == /\ edits < MaxEdits /\ edits' = edits + 1
           /\ bps' = IF file \in {Torn, NoFile} THEN NoBreakpoints ELSE file
           /\ history' = [n \in Nodes |-> None] /\ stale' = (file = Torn)
           /\ Locals("idle") /\ UNCHANGED <<file, sessions, backs>>
-----------------------------------------------------------------------------
(* The session.                                                            *)

Start == /\ pc = "idle" /\ sessions < MaxSessions /\ sessions' = sessions + 1
         /\ Locals("reached")
         /\ UNCHANGED <<bpVars, history, edits, backs>>

Holds(c) == c = Always \/ \E n \in c : state[n] > 0

\* Defect: a disabled breakpoint ends the search.
ArmedBeforeDisabled(n) ==
  {i \in On(n) : /\ bps[i].enabled /\ Holds(bps[i].condition)
                 /\ \A j \in On(n) : j < i => bps[j].enabled}
Armed(n) == {i \in On(n) : bps[i].enabled /\ Holds(bps[i].condition)}

\* The first armed breakpoint of the node counts the hit.
Hit(n) == {i \in Armed(n) : \A j \in Armed(n) : i <= j}

Counted == [i \in Ids |-> IF i \in Hit(at) THEN [bps[i] EXCEPT !.hits = @ + 1]
                                           ELSE bps[i]]

\* Defect: hits are counted in memory alone.
CheckUnsaved == /\ bps' = Counted /\ UNCHANGED <<file, stale>>
\* check_breakpoints.
Check == /\ bps' = Counted
         /\ IF Armed(at) = {} THEN UNCHANGED <<file, stale>> ELSE Save(bps')

\* Before a node: stop there, or go on and execute it.
Visit == /\ pc = "reached" /\ at <= N
         /\ Check
         /\ IF Armed(at) # {} \/ mode = "step" \/ (mode = "run_to" /\ target = at)
            THEN pc' = "paused" /\ mode' = "step" /\ asked' = TRUE
            ELSE pc' = "execute" /\ UNCHANGED <<mode, asked>>
         /\ UNCHANGED <<at, state, target, back, restored, history, edits, sessions, backs>>

\* Defect: running to a node goes there at once.
GoAtOnce == /\ pc' = "execute"
            /\ \/ mode' = "continue" /\ UNCHANGED <<target, at>>
               \/ UNCHANGED <<mode, target, at>>
               \/ mode' = "run_to" /\ target' \in Nodes /\ at' = target'
            /\ UNCHANGED <<state, back, asked, restored, backs>>
\* An unknown command, or a target that is no node, leaves the mode as it is.
Go == /\ pc' = "execute"
      /\ \/ mode' = "continue" /\ UNCHANGED target
         \/ UNCHANGED <<mode, target>>
         \/ mode' = "run_to" /\ target' \in Nodes
      /\ UNCHANGED <<at, state, back, asked, restored, backs>>

Quit == Locals("idle") /\ UNCHANGED backs

\* As many nodes back as commands to step back since the last node executed,
\* with what the history holds of that node's output.  Where that is beyond the
\* first node, or not recorded, the node at hand is executed instead.
StepBack ==
  /\ backs < MaxBacks /\ backs' = backs + 1
  /\ LET to == at - (back + 1)
     IN IF to >= 1 /\ history[to] # None
        THEN /\ at' = to /\ back' = back + 1 /\ restored' = TRUE
             /\ state' = history[to] /\ asked' = FALSE /\ pc' = "reached"
        ELSE /\ back' = IF back + 1 > at - 1 THEN at - 1 ELSE back + 1
             /\ pc' = "execute" /\ UNCHANGED <<at, state, asked, restored>>
  /\ UNCHANGED <<mode, target>>

\* The handler's answer.
Command == /\ pc = "paused"
           /\ Go \/ Quit \/ StepBack
           /\ UNCHANGED <<bpVars, history, edits, sessions>>

\* The node returns, or raises and ends the session.
Execute == /\ pc = "execute"
           /\ \/ /\ state' = [state EXCEPT ![at] = @ + 1]
                 /\ at' = at + 1 /\ back' = 0 /\ pc' = "reached" /\ asked' = FALSE
                 /\ UNCHANGED <<mode, target, restored>>
              \/ Locals("idle")
           /\ UNCHANGED <<bpVars, history, edits, sessions, backs>>

Finish == /\ pc = "reached" /\ at > N /\ Locals("idle")
          /\ UNCHANGED <<bpVars, history, edits, sessions, backs>>

\* The sessions that the bound allows are over.
Quiet == pc = "idle" /\ sessions = MaxSessions /\ UNCHANGED vars

Next == Edit \/ Restart \/ Start \/ Visit \/ Command \/ Execute \/ Finish \/ Quiet

Spec == Init /\ [][Next]_vars
-----------------------------------------------------------------------------
(* Properties.                                                             *)

Breakpoint == [node : Nodes, condition : Conditions \cup {Always}, enabled : BOOLEAN,
               hits : Nat]
Contents == [Ids -> Breakpoint \cup {None}]

TypeOK == /\ bps \in Contents /\ file \in Contents \cup {Torn, NoFile}
          /\ stale \in BOOLEAN
          /\ pc \in {"idle", "reached", "paused", "execute"}
          /\ at \in 1..(N + 1) /\ (pc \in {"paused", "execute"} => at \in Nodes)
          /\ state \in [Nodes -> Nat]
          /\ mode \in {"continue", "step", "run_to"} /\ target \in Nodes \cup {None}
          /\ back \in Nat /\ asked \in BOOLEAN /\ restored \in BOOLEAN
          /\ history \in [Nodes -> [Nodes -> Nat] \cup {None}]
          /\ edits \in Nat /\ sessions \in Nat /\ backs \in Nat

\* A node with an armed breakpoint is never executed before the handler was
\* asked, whatever order breakpoints were set, switched and loaded in
\* (check_breakpoints, src/debugging.py:365).
BreaksHonoured ==
  \A n \in Nodes : pc = "execute" /\ at = n =>
    asked \/ \A i \in Ids : ~(/\ bps[i] # None /\ bps[i].node = n /\ bps[i].enabled
                              /\ Holds(bps[i].condition))

\* A session has applied each node before the one at hand once and no other,
\* whatever the commands, until it takes a state from the history
\* (step_through_execution_with_history, src/debugging.py:1449).
OnceEach ==
  pc # "idle" /\ ~restored =>
    \A n \in Nodes : state[n] = IF n < at THEN 1 ELSE 0

\* The file holds the breakpoints, hits included, unless the last save failed
\* (save_breakpoints, src/debugging.py:440).
FileHonest == ~stale => file = bps \/ (file = NoFile /\ bps = NoBreakpoints)

\* "step_back": Go back to the previous node (src/debugging.py:1626).
StepBackGoesBack ==
  [][pc = "paused" /\ backs' > backs /\ at > 1 => at' = at - 1]_vars
=============================================================================
