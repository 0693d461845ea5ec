------------------------- MODULE FlowExecutorProofs -------------------------
(***************************************************************************)
(* Safety of a Flow run for every set of nodes, DAGs and other callers,    *)
(* and every Flow over them.                                               *)
(***************************************************************************)
EXTENDS FlowExecutor, TLAPS

LEMMA InitTypes == Init => TypeOK
BY FlowsAssumption DEF Init, TypeOK, FlowType, TaskStates, RunStates, RunType, NoRun, Actors

(* Registering a run keeps the type of the runs.                           *)
LEMMA TriggeredTypes ==
    ASSUME TypeOK, NEW a \in Actors, NEW d \in DAGs, NEW forced \in BOOLEAN
    PROVE  Triggered(a, d, forced) \in [Actors -> RunType]
BY DEF TypeOK, Triggered, RunType, RunStates

LEMMA ExecutorTypes == TypeOK /\ (Executor \/ Cancel) => TypeOK'
<1>. SUFFICES ASSUME TypeOK, Executor \/ Cancel PROVE TypeOK'
  OBVIOUS
<1>. USE DEF TypeOK, RunStates
<1>1. CASE Start
  BY <1>1 DEF Start
<1>2. CASE StartReady
  BY <1>2 DEF StartReady, TaskStates
<1>3. CASE WaitAgain
  BY <1>3 DEF WaitAgain
<1>4. CASE Collect
  <2>1. \A n \in Nodes : Outcome(n) \in TaskStates
    BY DEF Outcome, RunType, TaskStates, Actors
  <2>. QED
    BY <1>4, <2>1 DEF Collect, Completed
<1>5. CASE Block
  BY <1>5 DEF Block, TaskStates
<1>6. CASE Finish
  BY <1>6 DEF Finish, Verdict
<1>7. CASE SaveFlowRun
  BY <1>7 DEF SaveFlowRun
<1>8. CASE Cancel
  BY <1>8 DEF Cancel
<1>. QED
  BY <1>1, <1>2, <1>3, <1>4, <1>5, <1>6, <1>7, <1>8 DEF Executor

LEMMA RunTypes ==
    ASSUME TypeOK,
           \/ \E n \in Nodes : Asks(n)
           \/ \E a \in Others : TriggerOther(a)
           \/ \E a \in Actors : RunMoves(a)
    PROVE  TypeOK'
<1>. USE DEF TypeOK
<1>1. ASSUME NEW n \in Nodes, TriggerNode(n) PROVE TypeOK'
  <2>1. flow.dag[n] \in DAGs /\ n \in Actors
    BY DEF FlowType, Actors
  <2>. QED
    BY <1>1, <2>1, TriggeredTypes DEF TriggerNode
<1>2. ASSUME NEW n \in Nodes, Refused(n) PROVE TypeOK'
  BY <1>2 DEF Refused
<1>3. ASSUME NEW a \in Others, TriggerOther(a) PROVE TypeOK'
  BY <1>3, TriggeredTypes DEF TriggerOther, Actors
<1>4. ASSUME NEW a \in Actors, TakeLock(a) PROVE TypeOK'
  BY <1>4 DEF TakeLock, RunType
<1>5. ASSUME NEW a \in Actors, EndRun(a) PROVE TypeOK'
  <2>1. PICK r \in {"success", "failed"} :
            run' = [run EXCEPT ![a].pc = "saving", ![a].result = r]
    BY <1>5 DEF EndRun, Results
  <2>2. [[run[a] EXCEPT !.pc = "saving"] EXCEPT !.result = r] \in RunType
    BY DEF RunType, RunStates
  <2>3. run' \in [Actors -> RunType]
    BY <2>1, <2>2
  <2>. QED
    BY <1>5, <2>3 DEF EndRun
<1>6. ASSUME NEW a \in Actors, SaveRun(a) PROVE TypeOK'
  BY <1>6 DEF SaveRun, Savings, RunType
<1>. QED
  BY <1>1, <1>2, <1>3, <1>4, <1>5, <1>6 DEF Asks, RunMoves

LEMMA NextTypes == TypeOK /\ [Next]_vars => TypeOK'
<1>. SUFFICES ASSUME TypeOK, [Next]_vars PROVE TypeOK'
  OBVIOUS
<1>1. CASE UNCHANGED vars
  BY <1>1 DEF vars, TypeOK
<1>. QED
  BY <1>1, ExecutorTypes, RunTypes DEF Next, Over

(* The variables have their types, whatever the Flow.                      *)
THEOREM TypeCorrect == Spec => []TypeOK
BY InitTypes, NextTypes, PTL DEF Spec

-----------------------------------------------------------------------------
(* The registry and the lock keep unforced runs of a DAG apart.            *)

(* A newly registered run shares neither the registry nor the lock with    *)
(* another unforced run.                                                   *)
LEMMA TriggeredExcludes ==
    ASSUME TypeOK, RunsExclude, NEW x \in Actors, NEW d \in DAGs, NEW forced \in BOOLEAN,
           Admits(d, forced), run' = Triggered(x, d, forced)
    PROVE  RunsExclude'
<1>. SUFFICES ASSUME NEW a \in Actors, NEW b \in Actors, a # b, run'[a].dag = run'[b].dag,
                     ~run'[a].forced, ~run'[b].forced
              PROVE  /\ ~(/\ run'[a].pc \in {"waiting", "executing"}
                          /\ run'[b].pc \in {"waiting", "executing"})
                     /\ ~(/\ run'[a].pc \in {"executing", "saving"}
                          /\ run'[b].pc \in {"executing", "saving"})
  BY DEF RunsExclude
<1>. USE DEF TypeOK, Triggered, RunsExclude, Admits, IsRunning, LockHeld
<1>1. CASE a = x
  BY <1>1
<1>2. CASE b = x
  BY <1>2
<1>3. CASE a # x /\ b # x
  BY <1>3
<1>. QED
  BY <1>1, <1>2, <1>3

LEMMA InitExcludes == Init => RunsExclude
BY DEF Init, RunsExclude, NoRun

LEMMA NextExcludes == TypeOK /\ RunsExclude /\ [Next]_vars => RunsExclude'
<1>. SUFFICES ASSUME TypeOK, RunsExclude, [Next]_vars PROVE RunsExclude'
  OBVIOUS
<1>1. ASSUME run' = run PROVE RunsExclude'
  BY <1>1 DEF RunsExclude
<1>2. ASSUME NEW n \in Nodes, TriggerNode(n) PROVE RunsExclude'
  <2>1. flow.dag[n] \in DAGs /\ n \in Actors
    BY DEF TypeOK, FlowType, Actors
  <2>. QED
    BY <1>2, <2>1, TriggeredExcludes DEF TriggerNode
<1>3. ASSUME NEW a \in Others, TriggerOther(a) PROVE RunsExclude'
  BY <1>3, TriggeredExcludes DEF TriggerOther, Actors
<1>4. ASSUME NEW a \in Actors, TakeLock(a) PROVE RunsExclude'
  <2>1. /\ run[a].pc = "waiting" /\ ~LockHeld(run[a].dag)
        /\ \A x \in Actors : run'[x] = IF x = a THEN [run[a] EXCEPT !.pc = "executing"]
                                               ELSE run[x]
    BY <1>4 DEF TakeLock, TypeOK
  <2>. QED
    BY <2>1 DEF RunsExclude, LockHeld, TypeOK, RunType
<1>5. ASSUME NEW a \in Actors, EndRun(a) PROVE RunsExclude'
  <2>1. run[a].pc = "executing"
    BY <1>5 DEF EndRun
  <2>2. \A x \in Actors : /\ run'[x].dag = run[x].dag /\ run'[x].forced = run[x].forced
                          /\ run'[x].pc = IF x = a THEN "saving" ELSE run[x].pc
    BY <1>5 DEF EndRun, TypeOK, RunType
  <2>. QED
    BY <2>1, <2>2 DEF RunsExclude
<1>6. ASSUME NEW a \in Actors, SaveRun(a) PROVE RunsExclude'
  <2>1. \A x \in Actors : /\ run'[x].dag = run[x].dag /\ run'[x].forced = run[x].forced
                          /\ run'[x].pc = run[x].pc \/ run'[x].pc \in {"saved", "lost"}
    BY <1>6 DEF SaveRun, Savings, TypeOK, RunType
  <2>. QED
    BY <2>1 DEF RunsExclude
<1>. QED
  BY <1>1, <1>2, <1>3, <1>4, <1>5, <1>6
     DEF Next, Executor, Start, StartReady, WaitAgain, Collect, Block, Finish, SaveFlowRun,
         Cancel, Asks, Refused, RunMoves, Over, vars

(* Unforced runs of a DAG are registered one at a time and execute one     *)
(* after the other, up to the writing of their rows.                       *)
THEOREM RunsAreExcluded == Spec => []RunsExclude
BY InitTypes, NextTypes, InitExcludes, NextExcludes, PTL DEF Spec

-----------------------------------------------------------------------------
(* The record and the runs.                                                *)

(* What the executor, the coroutine of a node and the run of the node know *)
(* of each other.                                                          *)
NodeMatches(n) ==
    /\ node[n] = "idle" <=> states[n] \in {"none", "skipped", "upstream_failed"}
    /\ node[n] \in {"created", "asleep", "triggered", "done"} => states[n] = "running"
    /\ node[n] = "gone" => states[n] = Outcome(n)
    /\ n \in runIds <=> node[n] = "gone" /\ run[n].pc = "saved"
    /\ node[n] \in {"idle", "created", "asleep"} => run[n] = NoRun
    /\ node[n] = "triggered" => run[n].pc \in {"waiting", "executing", "saving"}
    /\ node[n] \in {"done", "gone"} => \/ run[n].pc \in {"saved", "lost"}
                                       \/ run[n] = NoRun /\ flow.policy[n] = "reject"
    /\ run[n].pc \in {"saving", "saved", "lost"} => run[n].result \in {"success", "failed"}

(* A blamed upstream failed itself or blames another one.                  *)
Blamed == (\E n \in Nodes : states[n] = "upstream_failed") => \E n \in Nodes : states[n] = "failed"

(* Until it is decided the run has neither a verdict nor a row.            *)
PhaseMatches ==
    /\ pc \in {"registered", "looking", "waiting", "saving"} => row = "none"
    /\ pc \in {"registered", "looking", "waiting"} => verdict = "running"
    /\ pc = "waiting" => Running # {}
    /\ pc \in {"saving", "over"} => VerdictFits
    /\ row \in {"none", verdict}

IInv == TypeOK /\ (\A n \in Nodes : NodeMatches(n)) /\ Blamed /\ PhaseMatches

LEMMA InitIInv == Init => IInv
BY InitTypes DEF Init, IInv, NodeMatches, Blamed, PhaseMatches, NoRun, Actors

(* The steps of the executor.                                              *)
LEMMA ExecutorNodes ==
    ASSUME IInv, Executor \/ Cancel, NEW n \in Nodes
    PROVE  NodeMatches(n)'
<1>. USE DEF IInv, TypeOK
<1>1. CASE StartReady
  BY <1>1 DEF StartReady, ReadyNodes, Unresolved, NodeMatches, Outcome
<1>2. CASE Collect
  <2>1. n \in Completed <=> node[n] = "done"
    BY DEF Completed
  <2>2. /\ states'[n] = IF node[n] = "done" THEN Outcome(n) ELSE states[n]
        /\ node'[n] = IF node[n] = "done" THEN "gone" ELSE node[n]
        /\ n \in runIds' <=> n \in runIds \/ (node[n] = "done" /\ run[n].pc = "saved")
        /\ run' = run /\ flow' = flow
    BY <1>2, <2>1 DEF Collect
  <2>3. CASE node[n] = "done"
    BY <2>2, <2>3 DEF NodeMatches, Outcome, NoRun
  <2>4. CASE node[n] # "done"
    BY <2>2, <2>4 DEF NodeMatches, Outcome
  <2>. QED
    BY <2>3, <2>4
<1>3. CASE Block
  BY <1>3 DEF Block, BlockedNodes, Unresolved, NodeMatches, Outcome
<1>4. CASE Start \/ WaitAgain \/ Finish \/ SaveFlowRun \/ Cancel
  BY <1>4 DEF Start, WaitAgain, Finish, SaveFlowRun, Cancel, NodeMatches, Outcome
<1>. QED
  BY <1>1, <1>2, <1>3, <1>4 DEF Executor

(* Among the nodes a collected run leaves behind, only the upstreams of a  *)
(* blocked node can make it UPSTREAM_FAILED.                               *)
LEMMA ExecutorBlamed == IInv /\ (Executor \/ Cancel) => Blamed'
<1>. SUFFICES ASSUME IInv, Executor \/ Cancel, NEW n \in Nodes, states'[n] = "upstream_failed"
              PROVE  \E m \in Nodes : states'[m] = "failed"
  BY DEF Blamed
<1>. USE DEF IInv, TypeOK
<1>1. CASE StartReady
  <2>1. states[n] = "upstream_failed"
    BY <1>1 DEF StartReady
  <2>2. PICK m \in Nodes : states[m] = "failed"
    BY <2>1 DEF Blamed
  <2>. QED
    BY <1>1, <2>2 DEF StartReady, ReadyNodes, Unresolved
<1>2. CASE Collect
  <2>1. states[n] = "upstream_failed"
    BY <1>2 DEF Collect, Completed, Outcome, NodeMatches
  <2>2. PICK m \in Nodes : states[m] = "failed"
    BY <2>1 DEF Blamed
  <2>. QED
    BY <1>2, <2>2 DEF Collect, Completed, NodeMatches
<1>3. CASE Block
  <2>1. ASSUME NEW m \in Nodes, states[m] = "failed" PROVE states'[m] = "failed"
    BY <1>3, <2>1 DEF Block, BlockedNodes, Unresolved
  <2>2. \E m \in Nodes : states[m] \in {"failed", "upstream_failed"}
    <3>1. CASE states[n] = "upstream_failed"
      BY <3>1
    <3>2. CASE states[n] # "upstream_failed"
      <4>1. UpstreamStates(n) \cap FailedStates # {}
        BY <1>3, <3>2 DEF Block
      <4>2. PICK u \in flow.up[n] : states[u] \in FailedStates
        BY <4>1 DEF UpstreamStates
      <4>3. u \in Nodes
        BY DEF FlowType
      <4>4. states[u] # "timeout"
        BY <4>3 DEF NodeMatches, Outcome
      <4>. QED
        BY <4>2, <4>3, <4>4 DEF FailedStates
    <3>. QED
      BY <3>1, <3>2
  <2>. QED
    BY <2>1, <2>2 DEF Blamed
<1>4. CASE Start \/ WaitAgain \/ Finish \/ SaveFlowRun \/ Cancel
  BY <1>4 DEF Start, WaitAgain, Finish, SaveFlowRun, Cancel, Blamed
<1>. QED
  BY <1>1, <1>2, <1>3, <1>4 DEF Executor

LEMMA ExecutorPhase == IInv /\ (Executor \/ Cancel) => PhaseMatches'
<1>. SUFFICES ASSUME IInv, Executor \/ Cancel PROVE PhaseMatches'
  OBVIOUS
<1>. USE DEF IInv, TypeOK
<1>1. CASE Start
  BY <1>1 DEF Start, PhaseMatches, VerdictFits, Acyclic
<1>2. CASE StartReady
  <2>1. Running' # {}
    BY <1>2 DEF StartReady, ReadyNodes, Unresolved, Running
  <2>. QED
    BY <1>2, <2>1 DEF StartReady, PhaseMatches
<1>3. CASE WaitAgain
  BY <1>3 DEF WaitAgain, PhaseMatches, Running
<1>4. CASE Collect \/ Block
  BY <1>4 DEF Collect, Block, PhaseMatches
<1>5. CASE Finish
  <2>1. ASSUME NEW n \in Nodes
        PROVE  states[n] \in {"success", "failed", "skipped", "upstream_failed"}
    <3>1. node[n] \in {"idle", "gone"} /\ states[n] # "none"
      BY <1>5 DEF Finish, Running, Unresolved
    <3>. QED
      BY <3>1 DEF NodeMatches, Outcome
  <2>2. VerdictFits'
    <3>1. CASE \E n \in Nodes : states[n] \in FailedStates
      <4>1. verdict' = "failed" /\ states' = states /\ flow' = flow
        BY <1>5, <3>1 DEF Finish, Verdict
      <4>2. \E n \in Nodes : states[n] = "failed"
        BY <2>1, <3>1 DEF Blamed, FailedStates
      <4>. QED
        BY <2>1, <4>1, <4>2 DEF VerdictFits, Terminal
    <3>2. CASE ~\E n \in Nodes : states[n] \in FailedStates
      <4>1. verdict' = "success" /\ states' = states
        BY <1>5, <3>2 DEF Finish, Verdict
      <4>. QED
        BY <2>1, <3>2, <4>1 DEF VerdictFits, FailedStates
    <3>. QED
      BY <3>1, <3>2
  <2>. QED
    BY <1>5, <2>2 DEF Finish, PhaseMatches
<1>6. CASE SaveFlowRun
  BY <1>6 DEF SaveFlowRun, PhaseMatches, VerdictFits, Acyclic
<1>7. CASE Cancel
  <2>1. PICK n \in Nodes : states[n] = "running"
    BY <1>7 DEF Cancel, PhaseMatches, Running, NodeMatches
  <2>2. VerdictFits'
    BY <1>7, <2>1 DEF Cancel, PhaseMatches, VerdictFits
  <2>. QED
    BY <1>7, <2>2 DEF Cancel, PhaseMatches
<1>. QED
  BY <1>1, <1>2, <1>3, <1>4, <1>5, <1>6, <1>7 DEF Executor

(* The steps of a run touch its own node only, and only one that has       *)
(* triggered it.                                                           *)
LEMMA RunsNodes ==
    ASSUME IInv,
           \/ \E m \in Nodes : Asks(m)
           \/ \E a \in Others : TriggerOther(a)
           \/ \E a \in Actors : RunMoves(a),
           NEW n \in Nodes
    PROVE  NodeMatches(n)'
<1>. USE DEF IInv, TypeOK
<1>0. n \in Actors
  BY DEF Actors
<1>1. ASSUME NEW m \in Nodes, TriggerNode(m) PROVE NodeMatches(n)'
  BY <1>0, <1>1 DEF TriggerNode, Triggered, NodeMatches, Outcome
<1>2. ASSUME NEW m \in Nodes, Refused(m) PROVE NodeMatches(n)'
  BY <1>0, <1>2 DEF Refused, Admits, FlowType, Policies, NodeMatches, Outcome
<1>3. ASSUME NEW a \in Others, TriggerOther(a) PROVE NodeMatches(n)'
  <2>1. n # a
    BY FlowsAssumption
  <2>2. run'[n] = run[n]
    BY <1>0, <1>3, <2>1 DEF TriggerOther, Triggered
  <2>. QED
    BY <1>3, <2>2 DEF TriggerOther, NodeMatches, Outcome
<1>4. ASSUME NEW a \in Actors, TakeLock(a) PROVE NodeMatches(n)'
  <2>1. CASE n = a
    BY <1>0, <1>4, <2>1 DEF TakeLock, NodeMatches, Outcome, RunType, NoRun
  <2>2. CASE n # a
    BY <1>0, <1>4, <2>2 DEF TakeLock, NodeMatches, Outcome
  <2>. QED
    BY <2>1, <2>2
<1>5. ASSUME NEW a \in Actors, EndRun(a) PROVE NodeMatches(n)'
  <2>1. PICK r \in {"success", "failed"} :
            run' = [run EXCEPT ![a].pc = "saving", ![a].result = r]
    BY <1>5 DEF EndRun, Results
  <2>2. /\ run[a].pc = "executing"
        /\ states' = states /\ node' = node /\ runIds' = runIds /\ flow' = flow
    BY <1>5 DEF EndRun
  <2>3. CASE n = a
    <3>1. node[n] = "triggered"
      BY <2>2, <2>3 DEF NodeMatches, NoRun
    <3>2. run'[n].pc = "saving" /\ run'[n].result = r
      BY <1>0, <2>1, <2>3 DEF RunType
    <3>. QED
      BY <2>2, <3>1, <3>2 DEF NodeMatches
  <2>4. CASE n # a
    BY <1>0, <2>1, <2>2, <2>4 DEF NodeMatches, Outcome
  <2>. QED
    BY <2>3, <2>4
<1>6. ASSUME NEW a \in Actors, SaveRun(a) PROVE NodeMatches(n)'
  <2>1. CASE n = a
    <3>1. node[n] = "triggered" /\ run[n].result \in {"success", "failed"}
      BY <1>6, <2>1 DEF SaveRun, NodeMatches, NoRun
    <3>2. /\ run'[n].pc \in {"saved", "lost"} /\ run'[n].result = run[n].result
          /\ node'[n] = "done"
      BY <1>0, <1>6, <2>1 DEF SaveRun, Savings, RunType
    <3>. QED
      BY <1>6, <3>1, <3>2 DEF SaveRun, NodeMatches
  <2>2. CASE n # a
    BY <1>0, <1>6, <2>2 DEF SaveRun, NodeMatches, Outcome
  <2>. QED
    BY <2>1, <2>2
<1>. QED
  BY <1>1, <1>2, <1>3, <1>4, <1>5, <1>6 DEF Asks, RunMoves

(* They leave the executor's data alone, and no started node becomes idle  *)
(* or is collected behind its back.                                        *)
LEMMA RunsPhase ==
    ASSUME IInv,
           \/ \E m \in Nodes : Asks(m)
           \/ \E a \in Others : TriggerOther(a)
           \/ \E a \in Actors : RunMoves(a)
    PROVE  Blamed' /\ PhaseMatches'
<1>. USE DEF IInv, TypeOK
<1>1. /\ pc' = pc /\ states' = states /\ flow' = flow /\ verdict' = verdict /\ row' = row
  BY DEF Asks, TriggerNode, Refused, TriggerOther, RunMoves, TakeLock, EndRun, SaveRun
<1>2. ASSUME NEW n \in Nodes, n \in Running PROVE n \in Running'
  <2>1. NodeMatches(n)' /\ states[n] = "running"
    BY <1>2, RunsNodes DEF Running, NodeMatches
  <2>2. Outcome(n)' # "running"
    BY <2>1, <1>1 DEF NodeMatches, Outcome
  <2>. QED
    BY <1>1, <2>1, <2>2 DEF Running, NodeMatches
<1>3. pc = "waiting" => Running' # {}
  BY <1>2 DEF PhaseMatches, Running
<1>. QED
  BY <1>1, <1>3 DEF Blamed, PhaseMatches, VerdictFits, Acyclic

LEMMA NextIInv == IInv /\ [Next]_vars => IInv'
<1>. SUFFICES ASSUME IInv, [Next]_vars PROVE IInv'
  OBVIOUS
<1>0. TypeOK'
  BY NextTypes DEF IInv
<1>1. CASE Executor \/ Cancel
  BY <1>0, <1>1, ExecutorNodes, ExecutorBlamed, ExecutorPhase DEF IInv
<1>2. CASE \/ \E n \in Nodes : Asks(n)
           \/ \E a \in Others : TriggerOther(a)
           \/ \E a \in Actors : RunMoves(a)
  BY <1>0, <1>2, RunsNodes, RunsPhase DEF IInv
<1>3. CASE UNCHANGED vars
  <2>1. \A n \in Nodes : NodeMatches(n)'
    BY <1>3 DEF IInv, vars, NodeMatches, Outcome
  <2>2. Blamed'
    BY <1>3 DEF IInv, vars, Blamed
  <2>3. Running' = Running /\ (Acyclic' <=> Acyclic)
    BY <1>3 DEF vars, Running, Acyclic
  <2>4. PhaseMatches'
    BY <1>3, <2>3 DEF IInv, vars, PhaseMatches, VerdictFits
  <2>. QED
    BY <1>0, <2>1, <2>2, <2>4 DEF IInv
<1>. QED
  BY <1>1, <1>2, <1>3 DEF Next, Over

LEMMA IInvRecord == IInv => RecordAgrees
<1>. SUFFICES ASSUME IInv PROVE RecordAgrees
  OBVIOUS
<1>. USE DEF IInv, TypeOK
<1>1. ASSUME NEW n \in Nodes
      PROVE  /\ n \in runIds => run[n].pc = "saved" /\ states[n] = run[n].result
             /\ states[n] = "success" => n \in runIds
             /\ states[n] = "failed" /\ n \notin runIds =>
                    run[n].pc = "lost" \/ (run[n] = NoRun /\ flow.policy[n] = "reject")
             /\ states[n] \in {"none", "skipped", "upstream_failed"} => run[n] = NoRun
  BY <1>1 DEF NodeMatches, Outcome
<1>. QED
  BY <1>1 DEF RecordAgrees, PhaseMatches

(* The record of a Flow run, in memory and in the database, is true to     *)
(* the runs of its nodes.                                                  *)
THEOREM RecordIsTrue == Spec => []RecordAgrees
BY InitIInv, NextIInv, IInvRecord, PTL DEF Spec

-----------------------------------------------------------------------------
(* The refinement of GraphRun.  Graph has its own copy of the operators of *)
(* TriggerRules.                                                           *)

LEMMA SameRules ==
    /\ Graph!TaskStates = TaskStates /\ Graph!Rules = Rules
    /\ Graph!Terminal = Terminal /\ Graph!FailedStates = FailedStates
    /\ \A r, S : Graph!ShouldRun(r, S) <=> ShouldRun(r, S)
<1>1. /\ Graph!TaskStates = TaskStates /\ Graph!Rules = Rules
      /\ Graph!Terminal = Terminal /\ Graph!FailedStates = FailedStates
  BY DEF TaskStates, Graph!TaskStates, Rules, Graph!Rules, Terminal, Graph!Terminal,
         FailedStates, Graph!FailedStates
<1>2. \A r, S : Graph!ShouldRun(r, S) <=> ShouldRun(r, S)
  BY <1>1 DEF ShouldRun, Graph!ShouldRun
<1>. QED
  BY <1>1, <1>2

LEMMA SameQueries ==
    ASSUME NEW n \in Nodes
    PROVE  /\ Graph!UpstreamsTerminal(n) <=> UpstreamsTerminal(n)
           /\ Graph!RuleHolds(n) <=> ShouldRun(flow.rule[n], UpstreamStates(n))
           /\ Graph!UpstreamFailure(n) <=> UpstreamStates(n) \cap FailedStates # {}
<1>1. Graph!UpstreamStates(n) = UpstreamStates(n)
  BY DEF UpstreamStates, Graph!UpstreamStates
<1>. QED
  BY <1>1, SameRules DEF UpstreamsTerminal, Graph!UpstreamsTerminal, Graph!RuleHolds,
                         Graph!UpstreamFailure

LEMMA InitRefines == Init => Graph!Init
BY FlowsAssumption, SameRules DEF Init, Graph!Init, FlowType

(* Starting, collecting and blocking are each one abstract step for all    *)
(* the nodes concerned; nothing else changes the state of a node.          *)
LEMMA NextRefines == IInv /\ [Next]_vars => [Graph!Next]_(Graph!vars)
<1>. SUFFICES ASSUME IInv, [Next]_vars PROVE [Graph!Next]_(Graph!vars)
  OBVIOUS
<1>. USE DEF IInv, TypeOK
<1>0. states' \in [Nodes -> TaskStates] /\ flow' = flow
  BY NextTypes DEF Next, Executor, Start, StartReady, WaitAgain, Collect, Block, Finish,
     SaveFlowRun, Cancel, Asks, TriggerNode, Refused, TriggerOther, RunMoves, TakeLock,
     EndRun, SaveRun, Over, vars
<1>. SUFFICES ASSUME states' # states, NEW n \in Nodes, states'[n] # states[n]
              PROVE  Graph!Starts(n) \/ Graph!Ends(n) \/ Graph!Blocks(n)
  BY <1>0, SameRules DEF Graph!Next, Graph!vars
<1>1. CASE StartReady
  <2>1. n \in ReadyNodes /\ states'[n] = "running"
    BY <1>1 DEF StartReady
  <2>. QED
    BY <2>1, SameQueries DEF ReadyNodes, Unresolved, Graph!Starts
<1>2. CASE Collect
  <2>1. n \in Completed /\ states'[n] = Outcome(n)
    BY <1>2 DEF Collect
  <2>. QED
    BY <2>1 DEF Completed, Outcome, NodeMatches, Graph!Ends
<1>3. CASE Block
  <2>1. /\ n \in BlockedNodes /\ n \notin ReadyNodes
        /\ states'[n] = IF UpstreamStates(n) \cap FailedStates # {} THEN "upstream_failed"
                                                                  ELSE "skipped"
    BY <1>3 DEF Block
  <2>. QED
    BY <2>1, SameQueries DEF BlockedNodes, ReadyNodes, Unresolved, Graph!Blocks
<1>. QED
  BY <1>1, <1>2, <1>3
     DEF Next, Executor, Start, WaitAgain, Finish, SaveFlowRun, Cancel, Asks, TriggerNode,
         Refused, TriggerOther, RunMoves, TakeLock, EndRun, SaveRun, Over, vars

(* A Flow run implements the abstract run of a graph, whatever its DAG     *)
(* runs and the other callers do.                                          *)
THEOREM FlowRefinesGraphRun == Spec => ImplementsGraphRun
BY InitIInv, NextIInv, InitRefines, NextRefines, PTL
   DEF Spec, ImplementsGraphRun, Graph!Spec

=============================================================================
