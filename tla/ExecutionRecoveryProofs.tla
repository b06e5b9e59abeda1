----------------------- MODULE ExecutionRecoveryProofs ------------------------
(***************************************************************************)
(* What holds of a run with recovery for all graphs, policies and          *)
(* checkpoints, and for any number of runs and resumptions.                *)
(***************************************************************************)
EXTENDS ExecutionRecovery, TLAPS

\* The current state is the checkpoint only after a rollback.
AliasIsCheckpoint == alias => ckpt = cur /\ rolled

\* Nothing is known yet of the nodes after the one at hand.
FutureNone == /\ first <= at
              /\ \A m \in Nodes : m > at => handled[m] = "none"

\* A node tried before has an answer to its last failure, and that answer let it
\* be tried again.
TriedAgain == /\ pc = "node" => (tries = 0 <=> handled[at] = "none")
              /\ pc = "failed" => tries >= 1
              /\ pc \in {"node", "failed"} => handled[at] # "rollback"

\* Loop and manager count alike where only the manager answers.
CountsAgree ==
  ~default /\ ~policy[at].categories /\ policy[at].custom = None =>
    /\ pc = "node" => counter[at] = tries
    /\ pc = "failed" => counter[at] + 1 = tries

NoCustom == \A n \in Nodes : policy[n].custom = None

\* LastErrorTold, while the run goes on.
Told ==
  pc \in {"node", "failed", "executed", "complete", "aborted"} /\ NoCustom =>
    \A n \in Nodes :
      /\ first <= n /\ n <= at /\ handled[n] # "none"
      /\ \A m \in Nodes : m > n /\ m <= at => handled[m] = "none"
      => cur.err = n

Kept(n) == \A m \in Nodes : m > n => handled[m] # "rollback"

\* What Accounted says of one node.
Settled(n) ==
  /\ handled[n] # "abort"
  /\ handled[n] = "retry" => policy[n].categories \/ policy[n].custom # None
  /\ handled[n] \in {"none", "recovered"} /\ Kept(n) => cur.made[n] = "full"
  /\ handled[n] = "substitute" /\ Kept(n) => cur.made[n] = "substitute"

\* The nodes behind, and the one at hand once it is done, are accounted for.
SettledSoFar ==
  /\ pc \in {"node", "failed", "executed", "complete"} =>
       \A n \in Nodes : first <= n /\ n < at => Settled(n)
  /\ pc \in {"executed", "complete"} => Settled(at)
  /\ pc = "complete" => at = N

StateInv == AliasIsCheckpoint /\ CheckpointMarks
LoopInv == FutureNone /\ TriedAgain /\ CountsAgree
IInv == TypeOK /\ StateInv /\ LoopInv /\ Told /\ SettledSoFar
-----------------------------------------------------------------------------
(* States.                                                                 *)

\* A node's result is the state with its part done.
LEMMA ResultStates ==
  ASSUME TypeOK, NEW n \in Nodes, NEW c \in Results(n)
  PROVE  /\ c \in States /\ c.made[n] = "full" /\ c.err = cur.err
         /\ \A m \in Nodes : m # n => c.made[m] = cur.made[m]
<1>1. PICK odd \in BOOLEAN : c = [cur EXCEPT !.made[n] = "full", !.raw = odd]
  BY DEF Results, TypeOK, States
<1>2. cur \in States
  BY DEF TypeOK
<1> QED
  BY <1>1, <1>2 DEF States

\* Noting the error changes nothing else.
LEMMA Flagging ==
  ASSUME TypeOK, NEW s \in States
  PROVE  /\ Flagged(s) \in States /\ Flagged(s).made = s.made
         /\ Flagged(s).err = at /\ Flagged(s).raw = s.raw
<1>1. at \in Nodes
  BY DEF TypeOK
<1> QED
  BY <1>1 DEF Flagged, States

\* The empty state.
LEMMA EmptyState == Empty \in States /\ \A n \in Nodes : Empty.made[n] = "nothing"
  BY DEF Empty, States

\* Nobody has left a mark in it.
LEMMA EmptyMarked == Marked(Empty)
<1>1. Empty.err = None /\ \A n \in Nodes : n # None
  BY RecoveryAssumption DEF Empty
<1> QED
  BY <1>1, EmptyState DEF Marked

\* What happens to the checkpoint when the current state is replaced.
LEMMA BecomesKeeps ==
  ASSUME TypeOK, StateInv, NEW c \in States, Becomes(c), rolled' = rolled,
         policy' = policy
  PROVE  /\ cur' = c /\ alias' \in BOOLEAN /\ ckpt' \in States \cup {Missing}
         /\ StateInv'
  BY DEF Becomes, TypeOK, StateInv, AliasIsCheckpoint, CheckpointMarks, Marked

\* What happens to it when the current state is written where it stands: the new
\* marks must be ones that the checkpoint may have.
LEMMA WrittenKeeps ==
  ASSUME TypeOK, StateInv, NEW c \in States, Written(c), rolled' = rolled,
         policy' = policy, Marked(cur) => Marked(c)
  PROVE  /\ cur' = c /\ alias' \in BOOLEAN /\ ckpt' \in States \cup {Missing}
         /\ StateInv'
<1>1. cur # Missing
  BY MissingAssumption DEF TypeOK
<1>2. CASE alias
  <2>1. ckpt = cur /\ rolled /\ ckpt' = c /\ cur' = c /\ alias' = alias
    BY <1>2 DEF Written, StateInv, AliasIsCheckpoint
  <2>2. Marked(c)
    BY <1>1, <2>1 DEF StateInv, CheckpointMarks
  <2> QED
    BY <1>2, <2>1, <2>2 DEF StateInv, AliasIsCheckpoint, CheckpointMarks, Marked
<1>3. CASE ~alias
  BY <1>3 DEF Written, TypeOK, StateInv, AliasIsCheckpoint, CheckpointMarks, Marked
<1> QED
  BY <1>2, <1>3 DEF TypeOK
-----------------------------------------------------------------------------
(* Steps between the tries.                                                *)

\* The nodes are numbers.
LEMMA NodesTyped == N \in Nat /\ 1 \in Nodes /\ N \in Nodes /\ \A n \in Nodes : n \in Nat
  BY RecoveryAssumption DEF Nodes

\* The policy in effect, in a run and in a resumption.
LEMMA PolicyTyped ==
  ASSUME TypeOK
  PROVE  /\ Policy(at) \in PolicyType
         /\ ~default => Policy(at) = policy[at]
         /\ default => /\ Policy(at).mode = "abort" /\ ~Policy(at).categories
                       /\ Policy(at).custom = None
<1>1. AbortPolicy \in PolicyType
  BY DEF AbortPolicy, PolicyType, Modes
<1>2. policy[at] \in PolicyType
  BY RecoveryAssumption DEF TypeOK
<1> QED
  BY <1>1, <1>2 DEF Policy, AbortPolicy

\* The caller's checkpoint is there and no run has begun.
LEMMA InitIInv == Init => IInv
<1> SUFFICES ASSUME Init PROVE IInv
  OBVIOUS
<1>1. TypeOK
  <2>1. handled \in [Nodes -> Handlings] /\ counter \in [Nodes -> Nat]
    BY DEF Init, Handlings
  <2> QED
    BY <2>1, EmptyState, NodesTyped DEF Init, TypeOK
<1>2. StateInv
  BY EmptyMarked DEF Init, StateInv, AliasIsCheckpoint, CheckpointMarks
<1>3. FutureNone
  BY DEF Init, FutureNone
<1>4. TriedAgain /\ CountsAgree /\ Told /\ SettledSoFar
  BY DEF Init, TriedAgain, CountsAgree, Told, SettledSoFar
<1> QED
  BY <1>1, <1>2, <1>3, <1>4 DEF IInv, LoopInv

\* A fresh run has nothing to answer for.
LEMMA StartKeeps == IInv /\ Start => IInv'
<1> SUFFICES ASSUME IInv, Start PROVE IInv'
  OBVIOUS
<1> USE DEF IInv
<1>1. /\ cur' = Empty /\ alias' \in BOOLEAN /\ ckpt' \in States \cup {Missing} /\ StateInv'
  BY BecomesKeeps, EmptyState DEF Start
<1>2. handled' = [n \in Nodes |-> "none"] /\ counter' = [n \in Nodes |-> 0]
  BY DEF Start
<1>3. handled' \in [Nodes -> Handlings] /\ counter' \in [Nodes -> Nat]
  BY <1>2 DEF Handlings
<1>4. TypeOK'
  <2>1. /\ at' \in Nodes /\ first' \in Nodes /\ tries' \in Nat
        /\ default' \in BOOLEAN /\ pc' = "node"
    BY NodesTyped DEF Start
  <2>3. runs' \in Nat
    BY DEF Start, TypeOK
  <2>2. /\ policy' \in [Nodes -> Policies] /\ file' \in {Empty, Missing}
        /\ before' \in States /\ mode' \in Modes \cup {None} /\ rolled' \in BOOLEAN
    BY DEF Start, TypeOK
  <2> QED
    BY <1>1, <1>3, <2>1, <2>2, <2>3, EmptyState DEF TypeOK
<1>5. FutureNone' /\ TriedAgain'
  BY <1>2, NodesTyped DEF Start, FutureNone, TriedAgain
<1>6. CountsAgree'
  BY <1>2, NodesTyped DEF Start, CountsAgree
<1>7. Told'
  BY <1>2 DEF Told
<1>8. SettledSoFar'
  BY NodesTyped DEF Start, SettledSoFar
<1> QED
  BY <1>1, <1>4, <1>5, <1>6, <1>7, <1>8 DEF LoopInv

\* A resumption answers for the nodes from its first on, and retries none.
LEMMA ResumeKeeps == ASSUME IInv, NEW n \in Nodes, Resume(n) PROVE IInv'
<1> USE DEF IInv
<1>1. /\ cur' = cur /\ alias' \in BOOLEAN /\ ckpt' \in States \cup {Missing} /\ StateInv'
  BY BecomesKeeps DEF Resume, TypeOK
<1>2. /\ handled' = [m \in Nodes |-> IF m < n THEN handled[m] ELSE "none"]
      /\ counter' = [m \in Nodes |-> 0]
  BY DEF Resume
<1>3. handled' \in [Nodes -> Handlings] /\ counter' \in [Nodes -> Nat]
  BY <1>2 DEF Handlings, TypeOK
<1>4. pc' \in {"raised", "node"}
  BY DEF Resume, CheckpointThen
<1>5. TypeOK'
  BY <1>1, <1>3, <1>4 DEF Resume, TypeOK
<1>6. \A m \in Nodes : m >= n => handled'[m] = "none"
  BY <1>2, NodesTyped
<1>7. FutureNone' /\ TriedAgain'
  BY <1>4, <1>6, NodesTyped DEF Resume, FutureNone, TriedAgain
<1>8. CountsAgree'
  BY DEF Resume, CountsAgree
<1>9. Told'
  BY <1>6, NodesTyped DEF Resume, Told
<1>10. SettledSoFar'
  BY <1>4, NodesTyped DEF Resume, SettledSoFar
<1> QED
  BY <1>1, <1>5, <1>7, <1>8, <1>9, <1>10 DEF LoopInv

\* The node at hand is settled; the next one has not been tried.
LEMMA AdvanceKeeps == IInv /\ Advance => IInv'
<1> SUFFICES ASSUME IInv, Advance PROVE IInv'
  OBVIOUS
<1> USE DEF IInv
<1>1. pc' \in {"raised", "complete", "node"} /\ (pc' = "complete" => at = N)
      /\ (pc' = "node" => at # N)
  BY DEF Advance, CheckpointThen
<1>2. at \in Nat /\ at <= N /\ N \in Nat
  BY NodesTyped DEF TypeOK, Nodes
<1>3. at' \in Nodes /\ at' = (IF at = N THEN at ELSE at + 1)
  BY <1>2 DEF Advance, TypeOK, Nodes
<1>4. counter' \in [Nodes -> Nat] /\ (at # N /\ ~default => counter'[at'] = 0)
  BY <1>3 DEF Advance, TypeOK
<1>5. TypeOK'
  BY <1>1, <1>3, <1>4 DEF Advance, TypeOK, stateVars
<1>6. StateInv'
  BY DEF Advance, stateVars, StateInv, AliasIsCheckpoint, CheckpointMarks, Marked
<1>7. handled' = handled /\ cur' = cur /\ first' = first /\ policy' = policy
  BY DEF Advance, stateVars
<1>8. FutureNone'
  BY <1>2, <1>3, <1>7, NodesTyped DEF LoopInv, FutureNone, TypeOK
<1>9. TriedAgain'
  <2>1. pc' = "node" => at' > at
    BY <1>1, <1>2, <1>3
  <2>2. pc' = "node" => handled'[at'] = "none" /\ tries' = 0
    BY <1>3, <1>7, <2>1 DEF LoopInv, FutureNone, Advance
  <2> QED
    BY <1>1, <2>2 DEF TriedAgain
<1>10. CountsAgree'
  BY <1>1, <1>3, <1>4 DEF CountsAgree, Advance
<1>11. Told'
  <2> SUFFICES ASSUME NoCustom, NEW n \in Nodes, first <= n, n <= at', handled[n] # "none",
                      \A m \in Nodes : m > n /\ m <= at' => handled[m] = "none"
               PROVE  cur.err = n
    BY <1>7 DEF Told, NoCustom
  <2>1. n <= at
    BY <1>2, NodesTyped DEF LoopInv, FutureNone
  <2>2. \A m \in Nodes : m > n /\ m <= at => handled[m] = "none"
    BY <1>2, <1>3, NodesTyped
  <2> QED
    BY <2>1, <2>2 DEF Told, Advance
<1>12. SettledSoFar'
  <2>1. \A n \in Nodes : Settled(n)' = Settled(n)
    BY <1>7 DEF Settled, Kept
  <2>2. \A n \in Nodes : first <= n /\ n <= at => Settled(n)
    BY <1>2, NodesTyped DEF SettledSoFar, Advance
  <2> QED
    BY <1>1, <1>2, <1>3, <1>7, <2>1, <2>2, NodesTyped DEF SettledSoFar, LoopInv, FutureNone
<1> QED
  BY <1>5, <1>6, <1>8, <1>9, <1>10, <1>11, <1>12 DEF LoopInv

\* A new process remembers no run.
LEMMA RestartKeeps == IInv /\ Restart => IInv'
<1> SUFFICES ASSUME IInv, Restart PROVE IInv'
  OBVIOUS
<1> USE DEF IInv
<1>1. TypeOK'
  BY DEF Restart, TypeOK, runVars, retryVars
<1>2. StateInv'
  BY DEF Restart, StateInv, AliasIsCheckpoint, CheckpointMarks, Marked
<1>3. FutureNone' /\ TriedAgain' /\ CountsAgree' /\ Told' /\ SettledSoFar'
  BY DEF Restart, LoopInv, FutureNone, TriedAgain, CountsAgree, Told, SettledSoFar, runVars
<1> QED
  BY <1>1, <1>2, <1>3 DEF LoopInv
-----------------------------------------------------------------------------
(* A try, and the handling of its failure.                                 *)

\* What a node leaves behind, whether it returns or raises.
LEMMA NodeEffect ==
  ASSUME IInv, NodeReturns(at) \/ NodeRaises(at), rolled' = rolled, policy' = policy
  PROVE  /\ cur' \in States /\ before' \in States /\ alias' \in BOOLEAN
         /\ ckpt' \in States \cup {Missing} /\ StateInv'
         /\ cur'.err = cur.err
         /\ NodeReturns(at) => cur'.made[at] = "full"
         /\ \A m \in Nodes : m # at => cur'.made[m] = cur.made[m]
<1> USE DEF IInv
<1>1. at \in Nodes /\ cur \in States
  BY DEF TypeOK
<1>2. CASE NodeReturns(at)
  <2>1. PICK c \in Results(at) : IF at \in InPlace THEN Written(c) ELSE Becomes(c)
    BY <1>2 DEF NodeReturns
  <2>2. /\ c \in States /\ c.made[at] = "full" /\ c.err = cur.err
        /\ \A m \in Nodes : m # at => c.made[m] = cur.made[m]
    BY <1>1, ResultStates
  <2>3. cur' = c /\ alias' \in BOOLEAN /\ ckpt' \in States \cup {Missing} /\ StateInv'
    <3>1. CASE at \in InPlace
      <4>1. Marked(cur) => Marked(c)
        BY <2>2, <3>1 DEF Marked
      <4> QED
        BY <2>1, <2>2, <3>1, <4>1, WrittenKeeps
    <3>2. CASE at \notin InPlace
      BY <2>1, <2>2, <3>2, BecomesKeeps
    <3> QED
      BY <3>1, <3>2
  <2> QED
    BY <1>1, <1>2, <2>2, <2>3 DEF NodeReturns
<1>3. CASE NodeRaises(at) /\ ~NodeReturns(at)
  <2>1. CASE Written(cur)
    BY <1>1, <1>3, <2>1, WrittenKeeps DEF NodeRaises
  <2>2. CASE at \in InPlace /\ Written([cur EXCEPT !.made[at] = "half"])
    <3> DEFINE c == [cur EXCEPT !.made[at] = "half"]
    <3>1. /\ c \in States /\ c.err = cur.err
          /\ \A m \in Nodes : m # at => c.made[m] = cur.made[m]
      BY <1>1 DEF States
    <3> HIDE DEF c
    <3>2. Written(c) /\ c.made[at] = "half"
      BY <1>1, <2>2 DEF c, States
    <3>4. Marked(cur) => Marked(c)
      BY <2>2, <3>1, <3>2 DEF Marked
    <3>3. cur' = c /\ alias' \in BOOLEAN /\ ckpt' \in States \cup {Missing} /\ StateInv'
      BY <3>1, <3>2, <3>4, WrittenKeeps
    <3> QED
      BY <1>1, <1>3, <3>1, <3>3 DEF NodeRaises
  <2> QED
    BY <1>3, <2>1, <2>2 DEF NodeRaises
<1> QED
  BY <1>2, <1>3

\* A result is kept, or the failure is on its way to the handler.
LEMMA TryKeeps == IInv /\ Try => IInv'
<1> SUFFICES ASSUME IInv, Try PROVE IInv'
  OBVIOUS
<1> USE DEF IInv
<1>1. /\ cur' \in States /\ before' \in States /\ alias' \in BOOLEAN
      /\ ckpt' \in States \cup {Missing} /\ StateInv'
      /\ cur'.err = cur.err
      /\ NodeReturns(at) => cur'.made[at] = "full"
      /\ \A m \in Nodes : m # at => cur'.made[m] = cur.made[m]
  BY NodeEffect DEF Try
<1>2. /\ at \in Nodes /\ tries \in Nat /\ pc = "node"
      /\ handled \in [Nodes -> Handlings]
  BY DEF Try, TypeOK
<1>3. UNCHANGED <<policy, default, at, first, file, counter, mode, rolled, runs>>
  BY DEF Try
<1>4. CASE NodeReturns(at) /\ Succeeded
  <2>1. pc' = "executed" /\ tries' = tries
    BY <1>4 DEF Succeeded
  <2>2. handled' = [handled EXCEPT ![at] = IF tries = 0 THEN "none" ELSE "recovered"]
    BY <1>4 DEF Succeeded
  <2>3. /\ handled' \in [Nodes -> Handlings]
        /\ handled'[at] = (IF tries = 0 THEN "none" ELSE "recovered")
        /\ \A m \in Nodes : m # at => handled'[m] = handled[m]
    BY <1>2, <2>2 DEF Handlings
  <2>4. TypeOK'
    BY <1>1, <1>3, <2>1, <2>3 DEF TypeOK
  <2>5. FutureNone'
    BY <1>2, <1>3, <2>3, NodesTyped DEF LoopInv, FutureNone
  <2>6. TriedAgain' /\ CountsAgree'
    BY <2>1 DEF TriedAgain, CountsAgree
  <2>7. Told'
    <3> SUFFICES ASSUME NoCustom, NEW n \in Nodes, first <= n, n <= at, handled'[n] # "none",
                        \A m \in Nodes : m > n /\ m <= at => handled'[m] = "none"
                 PROVE  cur'.err = n
      BY <1>3 DEF Told, NoCustom
    <3>1. handled[n] # "none"
      BY <1>2, <2>3 DEF LoopInv, TriedAgain
    <3>2. \A m \in Nodes : m > n /\ m <= at => handled[m] = "none"
      BY <1>2, <2>3 DEF LoopInv, TriedAgain
    <3> QED
      BY <1>1, <1>2, <3>1, <3>2 DEF Told
  <2>8. SettledSoFar'
    <3>1. \A n \in Nodes : Kept(n)' => Kept(n)
      BY <1>2, <2>3 DEF Kept, LoopInv, TriedAgain
    <3>2. \A n \in Nodes : n < at /\ Settled(n) => Settled(n)'
      BY <1>1, <1>2, <1>3, <2>3, <3>1, NodesTyped DEF Settled
    <3>3. Settled(at)'
      BY <1>1, <1>3, <1>4, <2>3 DEF Settled
    <3> QED
      BY <1>2, <1>3, <2>1, <3>2, <3>3 DEF SettledSoFar
  <2> QED
    BY <1>1, <2>4, <2>5, <2>6, <2>7, <2>8 DEF LoopInv
<1>5. CASE Failed /\ tries' = tries + 1 /\ UNCHANGED handled
  <2>1. pc' \in {"raised", "failed"}
    BY <1>5 DEF Failed
  <2>2. TypeOK'
    BY <1>1, <1>2, <1>3, <1>5, <2>1 DEF TypeOK
  <2>3. FutureNone'
    BY <1>3, <1>5 DEF LoopInv, FutureNone
  <2>4. TriedAgain'
    BY <1>2, <1>3, <1>5, <2>1 DEF LoopInv, TriedAgain
  <2>5. CountsAgree'
    BY <1>2, <1>3, <1>5, <2>1 DEF LoopInv, CountsAgree
  <2>6. Told'
    BY <1>1, <1>2, <1>3, <1>5 DEF Told, NoCustom
  <2>7. SettledSoFar'
    <3>1. \A n \in Nodes : n < at /\ Settled(n) => Settled(n)'
      BY <1>1, <1>2, <1>3, <1>5, NodesTyped DEF Settled, Kept
    <3> QED
      BY <1>2, <1>3, <2>1, <3>1 DEF SettledSoFar
  <2> QED
    BY <1>1, <2>2, <2>3, <2>4, <2>5, <2>6, <2>7 DEF LoopInv
<1> QED
  BY <1>4, <1>5 DEF Try

\* An answer of handle_error, as far as the invariant is about it.
Answered(what) ==
  /\ cur' \in States /\ alias' \in BOOLEAN /\ ckpt' \in States \cup {Missing}
  /\ StateInv' /\ counter' \in [Nodes -> Nat] /\ rolled' \in BOOLEAN
  /\ mode' \in Modes \cup {None}
  /\ pc' \in {"node", "aborted", "executed"}
  /\ handled' = [handled EXCEPT ![at] = what]
  /\ NoCustom => cur'.err = at
  /\ what # "rollback" => \A m \in Nodes : m # at => cur'.made[m] = cur.made[m]
  /\ what = "substitute" => cur'.made[at] = "substitute"
  /\ what = "abort" => pc' = "aborted"
  /\ what = "rollback" => pc' # "node"
  /\ what = "retry" /\ ~policy[at].categories /\ policy[at].custom = None => pc' = "node"
  /\ ~default /\ ~policy[at].categories /\ policy[at].custom = None /\ pc' = "node" =>
       counter'[at] = tries

Answers == Handlings \ {"none", "recovered"}

\* Which answers let the node be tried again.
LEMMA AnswerEffect ==
  ASSUME TypeOK, NEW m \in Modes, NEW what \in Answers, Answer(m, what)
  PROVE  /\ mode' \in Modes \cup {None} /\ pc' \in {"node", "aborted", "executed"}
         /\ handled' = [handled EXCEPT ![at] = what]
         /\ m = "abort" => pc' = "aborted"
         /\ pc' = "node" <=> m = "retry" /\ tries <= Policy(at).max
  BY DEF Answer, Modes

\* Noting the error leaves a mark that the checkpoint may have, if the node's policy
\* may answer with the checkpoint.
LEMMA FlaggedMarked ==
  ASSUME TypeOK, NEW s \in States, Marked(s), HoldsCheckpoint(policy[at])
  PROVE  Marked(Flagged(s))
  BY Flagging DEF Marked

\* A handler that answers with a copy of the state, its error noted.
LEMMA CopyAnswered ==
  ASSUME IInv, NEW m \in Modes, NEW what \in Answers, Answer(m, what),
         NEW c \in States, Becomes(Flagged(c)), rolled' = rolled, policy' = policy,
         counter' \in [Nodes -> Nat],
         \A n \in Nodes : n # at => c.made[n] = cur.made[n],
         what = "substitute" => c.made[at] = "substitute",
         what = "abort" => m = "abort", what # "rollback",
         what = "retry" /\ ~policy[at].categories /\ policy[at].custom = None =>
           m = "retry" /\ tries <= Policy(at).max,
         ~default /\ ~policy[at].categories /\ policy[at].custom = None /\ pc' = "node" =>
           counter'[at] = tries
  PROVE  Answered(what)
<1>1. /\ Flagged(c) \in States /\ Flagged(c).made = c.made /\ Flagged(c).err = at
  BY Flagging DEF IInv
<1>2. /\ cur' = Flagged(c) /\ alias' \in BOOLEAN /\ ckpt' \in States \cup {Missing}
      /\ StateInv'
  BY <1>1, BecomesKeeps DEF IInv
<1>3. rolled' \in BOOLEAN
  BY DEF IInv, TypeOK
<1>4. /\ mode' \in Modes \cup {None} /\ pc' \in {"node", "aborted", "executed"}
      /\ handled' = [handled EXCEPT ![at] = what]
      /\ m = "abort" => pc' = "aborted"
      /\ pc' = "node" <=> m = "retry" /\ tries <= Policy(at).max
  BY AnswerEffect DEF IInv
<1>5. /\ what # "rollback" => \A n \in Nodes : n # at => cur'.made[n] = cur.made[n]
      /\ what = "substitute" => cur'.made[at] = "substitute"
      /\ NoCustom => cur'.err = at
  BY <1>1, <1>2
<1> QED
  BY <1>1, <1>2, <1>3, <1>4, <1>5 DEF Answered

\* handle_error answers every failure.
LEMMA HandleAnswers ==
  ASSUME IInv, Handle
  PROVE  \E what \in Answers : Answered(what)
<1>1. /\ pc = "failed" /\ at \in Nodes /\ cur \in States /\ tries \in Nat
      /\ policy' = policy /\ counter \in [Nodes -> Nat] /\ Policy(at) \in PolicyType
      /\ ~default => Policy(at) = policy[at]
      /\ default => /\ Policy(at).mode = "abort" /\ ~Policy(at).categories
                    /\ Policy(at).custom = None
  BY PolicyTyped DEF Handle, IInv, TypeOK
<1>2. /\ Policy(at).mode \in Modes /\ Policy(at).max \in Nat
      /\ Policy(at).custom \in Modes \cup {None}
  BY <1>1 DEF PolicyType
<1>3. ~default /\ ~policy[at].categories /\ policy[at].custom = None =>
        counter[at] + 1 = tries
  BY <1>1 DEF IInv, LoopInv, CountsAgree
<1>4. Modes \cup {"custom", "category"} \subseteq Answers
  BY DEF Answers, Handlings, Modes
<1>5. CASE CustomAnswers
  <2> DEFINE c == IF cur.err = None THEN Flagged(cur) ELSE cur
  <2>1. /\ Policy(at).custom # None /\ Written(c)
        /\ Answer(Policy(at).custom, "custom") /\ UNCHANGED <<counter, rolled>>
    BY <1>5 DEF CustomAnswers
  <2>2. c \in States /\ c.made = cur.made
    BY <1>1, Flagging DEF IInv
  <2>4. ~default /\ policy[at].custom # None /\ ~NoCustom
    BY <1>1, <2>1 DEF NoCustom
  <2>9. Marked(cur) => Marked(c)
    BY <1>1, <2>4, FlaggedMarked DEF IInv, HoldsCheckpoint
  <2> HIDE DEF c
  <2>3. /\ cur' = c /\ alias' \in BOOLEAN /\ ckpt' \in States \cup {Missing} /\ StateInv'
    BY <1>1, <2>1, <2>2, <2>9, WrittenKeeps DEF IInv
  <2>5. Policy(at).custom \in Modes /\ "custom" \in Answers
    BY <1>2, <1>4, <2>1
  <2>6. /\ mode' \in Modes \cup {None} /\ pc' \in {"node", "aborted", "executed"}
        /\ handled' = [handled EXCEPT ![at] = "custom"]
    BY <2>1, <2>5, AnswerEffect DEF IInv
  <2>7. counter' \in [Nodes -> Nat] /\ rolled' \in BOOLEAN
    BY <2>1 DEF IInv, TypeOK
  <2>8. Answered("custom")
    BY <2>2, <2>3, <2>4, <2>6, <2>7 DEF Answered
  <2> QED
    BY <2>5, <2>8
<1>6. CASE CategoryMatches
  <2>1. /\ Policy(at).categories /\ Becomes(Flagged(cur))
        /\ Answer(Policy(at).mode, "category") /\ UNCHANGED <<counter, rolled>>
    BY <1>6 DEF CategoryMatches
  <2>2. ~default /\ policy[at].categories
    BY <1>1, <2>1
  <2>3. "category" \in Answers
    BY <1>4
  <2>4. Answered("category")
    BY <1>1, <1>2, <2>1, <2>2, <2>3, CopyAnswered
  <2> QED
    BY <2>3, <2>4
<1>7. CASE Retried
  <2>1. /\ Policy(at).mode = "retry" /\ counter[at] < Policy(at).max
        /\ counter' = [counter EXCEPT ![at] = @ + 1]
        /\ Becomes(Flagged(cur)) /\ Answer("retry", "retry") /\ rolled' = rolled
    BY <1>7 DEF Retried, CanRetry
  <2>2. ~default
    BY <1>1, <2>1
  <2>3. counter' \in [Nodes -> Nat] /\ counter'[at] = counter[at] + 1 /\ counter[at] \in Nat
    BY <1>1, <2>1
  <2>4. ~policy[at].categories /\ policy[at].custom = None =>
          tries <= Policy(at).max /\ counter'[at] = tries
    BY <1>1, <1>2, <1>3, <2>1, <2>2, <2>3
  <2>5. "retry" \in Answers /\ "retry" \in Modes
    BY <1>4 DEF Modes
  <2>6. Answered("retry")
    BY <1>1, <2>1, <2>3, <2>4, <2>5, CopyAnswered
  <2> QED
    BY <2>5, <2>6
<1>8. CASE RolledBack
  <2>1. /\ Stored # Missing /\ cur' = Flagged(Stored) /\ ckpt' = cur' /\ alias' = TRUE
        /\ Answer("rollback", "rollback") /\ rolled' = TRUE /\ counter' = counter
    BY <1>8 DEF RolledBack
  <2>2. Stored \in States
    BY <2>1, EmptyState DEF Stored, IInv, TypeOK
  <2>3. Marked(Stored)
    BY <2>1, EmptyMarked DEF Stored, IInv, TypeOK, StateInv, CheckpointMarks
  <2>4. cur' \in States /\ cur'.made = Stored.made /\ cur'.err = at
    BY <2>1, <2>2, Flagging DEF IInv
  <2>9. HoldsCheckpoint(policy[at])
    BY <1>1, <1>8 DEF RolledBack, HoldsCheckpoint, Rollback
  <2>10. Marked(cur')
    BY <2>1, <2>2, <2>3, <2>9, FlaggedMarked DEF IInv
  <2>5. StateInv'
    BY <1>1, <2>1, <2>10 DEF StateInv, AliasIsCheckpoint, CheckpointMarks, Marked
  <2>6. "rollback" \in Answers /\ "rollback" \in Modes
    BY <1>4 DEF Modes
  <2>7. /\ mode' \in Modes \cup {None} /\ pc' \in {"node", "aborted", "executed"}
        /\ pc' # "node" /\ handled' = [handled EXCEPT ![at] = "rollback"]
    BY <2>1, <2>6, AnswerEffect DEF IInv
  <2>8. Answered("rollback")
    BY <1>1, <2>1, <2>4, <2>5, <2>7 DEF Answered
  <2> QED
    BY <2>6, <2>8
<1>9. CASE Substituted
  <2> DEFINE c == [cur EXCEPT !.made[at] = "substitute"]
  <2>1. /\ Becomes(Flagged(c)) \/ (Policy(at).fallback /\ Written(Flagged(c)))
        /\ Policy(at).mode = "substitute"
        /\ Answer("substitute", "substitute") /\ UNCHANGED <<counter, rolled>>
    BY <1>9 DEF Substituted
  <2>2. /\ c \in States /\ c.made[at] = "substitute" /\ c.err = cur.err
        /\ \A n \in Nodes : n # at => c.made[n] = cur.made[n]
    BY <1>1 DEF States
  <2> HIDE DEF c
  <2>3. "substitute" \in Answers /\ "substitute" \in Modes
    BY <1>4 DEF Modes
  <2>4. pc' # "node"
    BY <2>1, <2>3, AnswerEffect DEF IInv
  <2>5. CASE Becomes(Flagged(c))
    BY <1>1, <2>1, <2>2, <2>3, <2>4, <2>5, CopyAnswered
  <2>6. CASE Policy(at).fallback /\ Written(Flagged(c))
    <3>1. OwnFallback(policy[at])
      BY <1>1, <2>1, <2>6 DEF OwnFallback
    <3>2. Marked(cur) => Marked(c)
      BY <2>2, <3>1 DEF Marked
    <3>3. Marked(cur) => Marked(Flagged(c))
      BY <2>2, <3>1, <3>2, FlaggedMarked DEF IInv, HoldsCheckpoint
    <3>4. Flagged(c) \in States /\ Flagged(c).made = c.made /\ Flagged(c).err = at
      BY <2>2, Flagging DEF IInv
    <3>5. /\ cur' = Flagged(c) /\ alias' \in BOOLEAN /\ ckpt' \in States \cup {Missing}
          /\ StateInv'
      BY <1>1, <2>1, <2>6, <3>3, <3>4, WrittenKeeps DEF IInv
    <3>6. /\ mode' \in Modes \cup {None} /\ pc' \in {"node", "aborted", "executed"}
          /\ handled' = [handled EXCEPT ![at] = "substitute"]
      BY <2>1, <2>3, AnswerEffect DEF IInv
    <3>7. counter' \in [Nodes -> Nat] /\ rolled' \in BOOLEAN
      BY <2>1 DEF IInv, TypeOK
    <3>8. cur'.made[at] = "substitute" /\ \A n \in Nodes : n # at => cur'.made[n] = cur.made[n]
      BY <2>2, <3>4, <3>5
    <3>9. Answered("substitute")
      BY <2>4, <3>4, <3>5, <3>6, <3>7, <3>8 DEF Answered
    <3> QED
      BY <2>3, <3>9
  <2> QED
    BY <2>1, <2>3, <2>5, <2>6
<1>10. CASE PassedOver
  <2>1. PICK m \in {"skip", "partial"} :
          /\ Becomes(Flagged(cur)) /\ Answer(m, m) /\ UNCHANGED <<counter, rolled>>
    BY <1>10 DEF PassedOver
  <2>2. m \in Answers /\ m \in Modes
    BY <1>4 DEF Modes
  <2>3. pc' # "node"
    BY <2>1, <2>2, AnswerEffect DEF IInv
  <2>4. Answered(m)
    BY <1>1, <2>1, <2>2, <2>3, CopyAnswered
  <2> QED
    BY <2>2, <2>4
<1>11. CASE GivenUp
  <2>1. Becomes(Flagged(cur)) /\ Answer("abort", "abort") /\ UNCHANGED <<counter, rolled>>
    BY <1>11 DEF GivenUp
  <2>2. "abort" \in Answers /\ "abort" \in Modes
    BY <1>4 DEF Modes
  <2>3. pc' # "node"
    BY <2>1, <2>2, AnswerEffect DEF IInv
  <2>4. Answered("abort")
    BY <1>1, <2>1, <2>2, <2>3, CopyAnswered
  <2> QED
    BY <2>2, <2>4
<1> QED
  BY <1>5, <1>6, <1>7, <1>8, <1>9, <1>10, <1>11 DEF Handle

\* The answer is one the invariant allows.
LEMMA HandleKeeps == IInv /\ Handle => IInv'
<1> SUFFICES ASSUME IInv, Handle PROVE IInv'
  OBVIOUS
<1> USE DEF IInv
<1>1. PICK what \in Answers : Answered(what)
  BY HandleAnswers
<1>2. UNCHANGED <<policy, runVars, before, file, tries, runs>> /\ pc = "failed"
  BY DEF Handle
<1>3. /\ at \in Nodes /\ handled \in [Nodes -> Handlings]
      /\ at' = at /\ first' = first /\ default' = default /\ policy' = policy
      /\ tries' = tries
  BY <1>2 DEF TypeOK, runVars
<1>4. /\ handled' \in [Nodes -> Handlings] /\ handled'[at] = what
      /\ \A m \in Nodes : m # at => handled'[m] = handled[m]
      /\ what # "none" /\ what # "recovered"
  BY <1>1, <1>3 DEF Answered, Answers
<1>5. TypeOK'
  BY <1>1, <1>2, <1>3, <1>4 DEF Answered, TypeOK
<1>6. FutureNone'
  BY <1>3, <1>4, NodesTyped DEF LoopInv, FutureNone
<1>7. TriedAgain'
  BY <1>1, <1>2, <1>3, <1>4 DEF Answered, LoopInv, TriedAgain, TypeOK
<1>8. CountsAgree'
  BY <1>1, <1>3 DEF Answered, CountsAgree
<1>9. Told'
  <2> SUFFICES ASSUME NoCustom, NEW n \in Nodes, first <= n, n <= at, handled'[n] # "none",
                      \A m \in Nodes : m > n /\ m <= at => handled'[m] = "none"
               PROVE  cur'.err = n
    BY <1>3 DEF Told, NoCustom
  <2>1. n = at
    BY <1>3, <1>4, NodesTyped
  <2> QED
    BY <1>1, <2>1 DEF Answered
<1>10. SettledSoFar'
  <2>1. \A n \in Nodes : n < at /\ Kept(n)' => Kept(n) /\ what # "rollback"
    BY <1>2, <1>3, <1>4, NodesTyped DEF Kept, LoopInv, TriedAgain
  <2>2. \A n \in Nodes : n < at /\ Settled(n) => Settled(n)'
    BY <1>1, <1>3, <1>4, <2>1, NodesTyped DEF Answered, Settled
  <2>3. pc' = "executed" => Settled(at)'
    BY <1>1, <1>3, <1>4 DEF Answered, Settled
  <2> QED
    BY <1>1, <1>2, <1>3, <2>2, <2>3 DEF Answered, SettledSoFar
<1> QED
  BY <1>1, <1>5, <1>6, <1>7, <1>8, <1>9, <1>10 DEF Answered, LoopInv
-----------------------------------------------------------------------------
(* The theorems.                                                           *)

\* Every step keeps the inductive invariant.
LEMMA NextIInv == IInv /\ [Next]_vars => IInv'
<1> SUFFICES ASSUME IInv, [Next]_vars PROVE IInv'
  OBVIOUS
<1>1. CASE Start
  BY <1>1, StartKeeps
<1>2. CASE \E n \in Nodes : Resume(n)
  BY <1>2, ResumeKeeps
<1>3. CASE Advance
  BY <1>3, AdvanceKeeps
<1>4. CASE Try
  BY <1>4, TryKeeps
<1>5. CASE Handle
  BY <1>5, HandleKeeps
<1>6. CASE Restart
  BY <1>6, RestartKeeps
<1>7. CASE UNCHANGED vars
  <2>1. TypeOK'
    BY <1>7 DEF IInv, TypeOK, vars
  <2>2. StateInv'
    BY <1>7 DEF IInv, StateInv, AliasIsCheckpoint, CheckpointMarks, Marked, vars
  <2>3. LoopInv'
    BY <1>7 DEF IInv, LoopInv, FutureNone, TriedAgain, CountsAgree, vars
  <2>4. Told' /\ SettledSoFar'
    BY <1>7 DEF IInv, Told, NoCustom, SettledSoFar, Settled, Kept, vars
  <2> QED
    BY <2>1, <2>2, <2>3, <2>4 DEF IInv
<1> QED
  BY <1>1, <1>2, <1>3, <1>4, <1>5, <1>6, <1>7 DEF Next, Run, Quiet

\* The inductive invariant holds in every reachable state.
THEOREM Invariance == Spec => []IInv
  BY InitIInv, NextIInv, PTL DEF Spec

\* Every variable of run, manager and tracker keeps its type (with_recovery,
\* src/recovery.py:744).
THEOREM TypeCorrect == Spec => []TypeOK
<1>1. IInv => TypeOK
  BY DEF IInv
<1> QED
  BY <1>1, Invariance, PTL

\* A checkpoint is as it was made until it is handed out; afterwards it holds the
\* work only of nodes that write in place and of the caller's own fallback functions,
\* and the error only of nodes whose policy may answer with it, for all policies
\* (rollback_to_checkpoint and handle_error, src/recovery.py:198 and 430).
THEOREM CheckpointsMarked == Spec => []CheckpointMarks
<1>1. IInv => CheckpointMarks
  BY DEF IInv, StateInv
<1> QED
  BY <1>1, Invariance, PTL

\* What a run returns names the node that failed last, for all policies without
\* custom handlers (handle_error, src/recovery.py:430).
THEOREM LastErrorIsTold == Spec => []LastErrorTold
<1>1. IInv => LastErrorTold
  <2> SUFFICES ASSUME IInv, pc \in {"complete", "aborted"}, NoCustom, NEW n \in first..at,
                      handled[n] # "none",
                      \A m \in Nodes : m > n /\ m <= at => handled[m] = "none"
               PROVE  cur.err = n
    BY DEF LastErrorTold, NoCustom
  <2>1. n \in Nodes /\ first <= n /\ n <= at
    BY NodesTyped DEF IInv, TypeOK, Nodes
  <2> QED
    BY <2>1 DEF IInv, Told
<1> QED
  BY <1>1, Invariance, PTL

\* A completed run has an answer for every node: a result, or what its policy
\* gave in its place, and never a retry that ran out (with_recovery and can_retry,
\* src/recovery.py:746 and 274).
THEOREM NodesAccounted == Spec => []Accounted
<1>1. IInv => Accounted
  <2> SUFFICES ASSUME IInv, pc = "complete", NEW n \in first..N
               PROVE  Settled(n)
    BY DEF Accounted, Settled, Kept
  <2>1. n \in Nodes /\ first <= n /\ (n < at \/ n = at)
    BY NodesTyped DEF IInv, TypeOK, Nodes, SettledSoFar
  <2> QED
    BY <2>1 DEF IInv, SettledSoFar
<1> QED
  BY <1>1, Invariance, PTL
=============================================================================
