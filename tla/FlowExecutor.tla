---------------------------- MODULE FlowExecutor ----------------------------
(***************************************************************************)
(* One run of a Flow: FlowExecutor.run, which decides the nodes, a         *)
(* coroutine _run_node per node, which triggers a run of the node's DAG    *)
(* under its concurrency policy and waits for it, and _execute_flow, which *)
(* records the result (core/flow_executor.py, core/riverflow.py).  Other   *)
(* callers trigger the same DAGs meanwhile.                                *)
(*                                                                         *)
(* What a node, or another caller, gets from Riverflow.trigger is here a   *)
(* run with its place in the registry and at the lock of its DAG; what     *)
(* happens inside a run is the subject of DAGExecutor, and what clearing,  *)
(* restarts and cancelled DAG runs do to the registry that of RunRegistry. *)
(*                                                                         *)
(* Everything runs on one event loop: between two awaits of the executor   *)
(* nobody else moves (Suspended).                                          *)
(***************************************************************************)
EXTENDS TriggerRules

CONSTANTS
    Nodes,
    DAGs,
    Others,     \* other callers of trigger; each makes at most one run
    Flows       \* the Flows that may be run

Actors == Nodes \cup Others

Policies == {"queue", "reject", "force"}

(* up and rule as in GraphRun; each node names a DAG and a policy.         *)
FlowType == [up : [Nodes -> SUBSET Nodes], rule : [Nodes -> Rules],
             dag : [Nodes -> DAGs], policy : [Nodes -> Policies]]

ASSUME FlowsAssumption ==
    /\ Flows \subseteq FlowType
    /\ Nodes \cap Others = {}
    /\ "nothing" \notin DAGs

RunStates == {"running", "success", "failed"}

(* A run of a DAG: registered while it waits for the lock or executes;     *)
(* then its row is being written, was written, or could not be written.    *)
RunType == [dag : DAGs \cup {"nothing"}, forced : BOOLEAN, result : RunStates,
            pc : {"none", "waiting", "executing", "saving", "saved", "lost"}]

NoRun == [dag |-> "nothing", forced |-> FALSE, result |-> "running", pc |-> "none"]

VARIABLES
    flow,       \* the Flow, with the dependencies it had when it was started
    pc,         \* where _execute_flow and FlowExecutor.run are
    states,     \* states of run(); FlowRunHistory.node_states follows at once
    runIds,     \* the nodes in FlowRunHistory.dag_run_ids
    verdict,    \* FlowRunHistory.state
    row,        \* the state in the database, or "none"
    node,       \* where the coroutine _run_node of each node is
    run         \* the run that each actor's call of trigger created

vars == <<flow, pc, states, runIds, verdict, row, node, run>>

(* _check_cycles: every set of nodes has a member that depends on none of  *)
(* the others.                                                             *)
Acyclic == \A S \in (SUBSET Nodes) \ {{}} : \E n \in S : flow.up[n] \cap S = {}

Suspended == pc \in {"registered", "waiting", "saving", "over"}

-----------------------------------------------------------------------------
(* The registry and the locks.                                             *)

IsRunning(d) == \E a \in Actors : run[a].dag = d /\ run[a].pc \in {"waiting", "executing"}

(* A variant of LockHeld: the lock is left with the registry.              *)
LockHeldWhileExecuting(d) ==
    \E a \in Actors : run[a].dag = d /\ ~run[a].forced /\ run[a].pc = "executing"

(* A run that did not force its way in holds the lock until its row is     *)
(* written.                                                                *)
LockHeld(d) ==
    \E a \in Actors : run[a].dag = d /\ ~run[a].forced /\ run[a].pc \in {"executing", "saving"}

Admits(d, forced) == forced \/ ~IsRunning(d)

(* trigger, up to its first await: the run is registered, and executes     *)
(* unless the lock is taken.                                               *)
Triggered(a, d, forced) ==
    [run EXCEPT ![a] = [dag |-> d, forced |-> forced, result |-> "running",
                        pc |-> IF ~forced /\ LockHeld(d) THEN "waiting" ELSE "executing"]]

-----------------------------------------------------------------------------
(* The decisions of FlowExecutor.run.                                      *)

UpstreamStates(n) == {states[u] : u \in flow.up[n]}

UpstreamsTerminal(n) == UpstreamStates(n) \subseteq Terminal

Unresolved == {n \in Nodes : states[n] = "none"}

(* A variant of ReadyNodes: only the rule is asked.                        *)
ReadyNodesByRuleOnly == {n \in Unresolved : ShouldRun(flow.rule[n], UpstreamStates(n))}

ReadyNodes == {n \in Unresolved : /\ UpstreamsTerminal(n)
                                  /\ ShouldRun(flow.rule[n], UpstreamStates(n))}

BlockedNodes == {n \in Unresolved : UpstreamsTerminal(n)}

(* The keys of `running`.                                                  *)
Running == {n \in Nodes : node[n] \notin {"idle", "gone"}}

(* What asyncio.wait returns once it is not empty.                         *)
Completed == {n \in Nodes : node[n] = "done"}

(* A variant of Outcome: a run that could not be saved counts as it ended. *)
OutcomeOfRun(n) == IF run[n].pc = "none" THEN "failed" ELSE run[n].result

(* future.result(): a run that could not be saved raises out of trigger    *)
(* although it ended, and a refused REJECT node raises FlowNodeBusyError.  *)
Outcome(n) == IF run[n].pc = "saved" THEN run[n].result ELSE "failed"

(* A variant of Verdict: a Flow with skipped nodes counts as skipped.      *)
VerdictWithSkipped ==
    IF \E n \in Nodes : states[n] \in FailedStates THEN "failed"
    ELSE IF \E n \in Nodes : states[n] = "skipped" THEN "skipped" ELSE "success"

Verdict == IF \E n \in Nodes : states[n] \in FailedStates THEN "failed" ELSE "success"

-----------------------------------------------------------------------------
(* The coroutine _execute_flow with FlowExecutor.run.                      *)

Init ==
    /\ flow \in Flows
    /\ pc = "registered"
    /\ states = [n \in Nodes |-> "none"]
    /\ runIds = {}
    /\ verdict = "running"
    /\ row = "none"
    /\ node = [n \in Nodes |-> "idle"]
    /\ run = [a \in Actors |-> NoRun]

(* run() validates again: `>>` may have closed a cycle since registration. *)
Start ==
    /\ pc = "registered"
    /\ \/ Acyclic /\ pc' = "looking" /\ UNCHANGED verdict
       \/ ~Acyclic /\ pc' = "saving" /\ verdict' = "failed"
    /\ UNCHANGED <<flow, states, runIds, row, node, run>>

StartReady ==
    /\ pc = "looking"
    /\ ReadyNodes # {}
    /\ pc' = "waiting"
    /\ states' = [n \in Nodes |-> IF n \in ReadyNodes THEN "running" ELSE states[n]]
    /\ node' = [n \in Nodes |-> IF n \in ReadyNodes THEN "created" ELSE node[n]]
    /\ UNCHANGED <<flow, runIds, verdict, row, run>>

WaitAgain ==
    /\ pc = "looking"
    /\ ReadyNodes = {} /\ Running # {}
    /\ pc' = "waiting"
    /\ UNCHANGED <<flow, states, runIds, verdict, row, node, run>>

(* asyncio.wait returned: every coroutine that is done by now is collected. *)
Collect ==
    /\ pc = "waiting"
    /\ Completed # {}
    /\ pc' = "looking"
    /\ states' = [n \in Nodes |-> IF n \in Completed THEN Outcome(n) ELSE states[n]]
    /\ runIds' = runIds \cup {n \in Completed : run[n].pc = "saved"}
    /\ node' = [n \in Nodes |-> IF n \in Completed THEN "gone" ELSE node[n]]
    /\ UNCHANGED <<flow, verdict, row, run>>

(* Nothing is ready and nothing runs: the nodes whose upstreams are        *)
(* decided will not run.  Unlike in DAGExecutor there is no await between  *)
(* two of them.  There always is one: the graph was checked by Start.      *)
Block ==
    /\ pc = "looking"
    /\ ReadyNodes = {} /\ Running = {} /\ BlockedNodes # {}
    /\ states' = [n \in Nodes |->
           IF n \notin BlockedNodes THEN states[n]
           ELSE IF UpstreamStates(n) \cap FailedStates # {} THEN "upstream_failed"
           ELSE "skipped"]
    /\ UNCHANGED <<flow, pc, runIds, verdict, row, node, run>>

(* Every node is resolved: the verdict, and the run leaves the registry.   *)
Finish ==
    /\ pc = "looking"
    /\ Running = {} /\ Unresolved = {}
    /\ pc' = "saving"
    /\ verdict' = Verdict
    /\ UNCHANGED <<flow, states, runIds, row, node, run>>

(* The caller that awaits trigger_flow is cancelled: `finally` still saves *)
(* the run as it is, and the coroutines of its nodes go on without it.     *)
Cancel ==
    /\ pc = "waiting"
    /\ pc' = "saving"
    /\ UNCHANGED <<flow, states, runIds, verdict, row, node, run>>

(* The thread has written the row, or save_flow_run raised.                *)
SaveFlowRun ==
    /\ pc = "saving"
    /\ pc' = "over"
    /\ row' \in {row, verdict}
    /\ UNCHANGED <<flow, states, runIds, verdict, node, run>>

-----------------------------------------------------------------------------
(* The coroutine _run_node: trigger, and what follows if it is refused.    *)

(* A variant of TriggerNode: a queued node asks only once.                 *)
TriggerNodeOnce(n) ==
    /\ Suspended
    /\ node[n] = "created"
    /\ Admits(flow.dag[n], flow.policy[n] = "force")
    /\ node' = [node EXCEPT ![n] = "triggered"]
    /\ run' = Triggered(n, flow.dag[n], flow.policy[n] = "force")
    /\ UNCHANGED <<flow, pc, states, runIds, verdict, row>>

TriggerNode(n) ==
    /\ Suspended
    /\ node[n] \in {"created", "asleep"}
    /\ Admits(flow.dag[n], flow.policy[n] = "force")
    /\ node' = [node EXCEPT ![n] = "triggered"]
    /\ run' = Triggered(n, flow.dag[n], flow.policy[n] = "force")
    /\ UNCHANGED <<flow, pc, states, runIds, verdict, row>>

(* The DAG is running: a REJECT node raises, a QUEUE node asks again later *)
(* and, when it is refused again, goes on sleeping.                        *)
Refused(n) ==
    /\ Suspended
    /\ node[n] = "created"
    /\ ~Admits(flow.dag[n], flow.policy[n] = "force")
    /\ node' = [node EXCEPT ![n] = IF flow.policy[n] = "reject" THEN "done" ELSE "asleep"]
    /\ UNCHANGED <<flow, pc, states, runIds, verdict, row, run>>

(* Another caller's trigger that is admitted.                              *)
TriggerOther(a) ==
    /\ Suspended
    /\ run[a] = NoRun
    /\ \E d \in DAGs, forced \in BOOLEAN :
           /\ Admits(d, forced)
           /\ run' = Triggered(a, d, forced)
    /\ UNCHANGED <<flow, pc, states, runIds, verdict, row, node>>

(* A waiting run takes the lock.                                           *)
TakeLock(a) ==
    /\ Suspended
    /\ run[a].pc = "waiting" /\ ~LockHeld(run[a].dag)
    /\ run' = [run EXCEPT ![a].pc = "executing"]
    /\ UNCHANGED <<flow, pc, states, runIds, verdict, row, node>>

(* A DAG run ends and leaves the registry.  Only the result of the run of  *)
(* a node matters here, and whether it can be saved.                       *)
Results(a) == IF a \in Nodes THEN {"success", "failed"} ELSE {"success"}

EndRun(a) ==
    /\ Suspended
    /\ run[a].pc = "executing"
    /\ \E r \in Results(a) : run' = [run EXCEPT ![a].pc = "saving", ![a].result = r]
    /\ UNCHANGED <<flow, pc, states, runIds, verdict, row, node>>

(* Its row is written, or save_run raised: either way the lock is free and *)
(* the call of trigger is over, and with it the coroutine of a node.       *)
Savings(a) == IF a \in Nodes THEN {"saved", "lost"} ELSE {"saved"}

SaveRun(a) ==
    /\ Suspended
    /\ run[a].pc = "saving"
    /\ \E p \in Savings(a) : run' = [run EXCEPT ![a].pc = p]
    /\ node' = [n \in Nodes |-> IF n = a THEN "done" ELSE node[n]]
    /\ UNCHANGED <<flow, pc, states, runIds, verdict, row>>

-----------------------------------------------------------------------------

Executor == Start \/ StartReady \/ WaitAgain \/ Collect \/ Block \/ Finish \/ SaveFlowRun

Asks(n) == TriggerNode(n) \/ Refused(n)

RunMoves(a) == TakeLock(a) \/ EndRun(a) \/ SaveRun(a)

(* The Flow run is over; what it left behind may still move.               *)
Over == pc = "over" /\ UNCHANGED vars

Next == \/ Executor
        \/ Cancel
        \/ \E n \in Nodes : Asks(n)
        \/ \E a \in Others : TriggerOther(a)
        \/ \E a \in Actors : RunMoves(a)
        \/ Over

(* The event loop resumes every coroutine that can run, DAG runs end and   *)
(* saves return.  Other callers and cancellations are bound to nothing.    *)
Fairness == /\ WF_vars(Executor)
            /\ \A n \in Nodes : WF_vars(Asks(n))
            /\ \A a \in Actors : WF_vars(RunMoves(a))

Spec == Init /\ [][Next]_vars

FairSpec == Spec /\ Fairness

-----------------------------------------------------------------------------
(* Properties.                                                             *)

TypeOK ==
    /\ flow \in FlowType
    /\ pc \in {"registered", "looking", "waiting", "saving", "over"}
    /\ states \in [Nodes -> TaskStates]
    /\ runIds \subseteq Nodes
    /\ verdict \in RunStates
    /\ row \in RunStates \cup {"none"}
    /\ node \in [Nodes -> {"idle", "created", "asleep", "triggered", "done", "gone"}]
    /\ run \in [Actors -> RunType]

(* Unforced runs of a DAG, whoever asked for them - two nodes of this      *)
(* Flow, a node and another caller -, are registered one at a time, and    *)
(* one executes only after the row of the one before it is written.        *)
RunsExclude ==
    \A a, b \in Actors :
        a # b /\ run[a].dag = run[b].dag /\ ~run[a].forced /\ ~run[b].forced =>
            /\ ~(run[a].pc \in {"waiting", "executing"} /\ run[b].pc \in {"waiting", "executing"})
            /\ ~(run[a].pc \in {"executing", "saving"} /\ run[b].pc \in {"executing", "saving"})

(* What became of the nodes when the run was given its verdict.            *)
VerdictFits ==
    CASE verdict = "success" -> \A n \in Nodes : states[n] \in {"success", "skipped"}
      [] verdict = "failed" -> ~Acyclic \/ (/\ \A n \in Nodes : states[n] \in Terminal
                                           /\ \E n \in Nodes : states[n] = "failed")
      [] verdict = "running" -> \E n \in Nodes : states[n] = "running"

(* What the record of a Flow run says of its nodes is what became of their *)
(* runs, though nodes end in any order, are refused, or lose their rows: a *)
(* node whose run is named ended as that run did, a node FAILED without a  *)
(* run was refused under REJECT or its run could not be saved, a node that *)
(* was not to run has no run, and the verdict that is stored is that of    *)
(* the nodes - unless the caller was cancelled, when it says RUNNING.      *)
RecordAgrees ==
    /\ \A n \in Nodes :
          /\ n \in runIds => run[n].pc = "saved" /\ states[n] = run[n].result
          /\ states[n] = "success" => n \in runIds
          /\ states[n] = "failed" /\ n \notin runIds =>
                 run[n].pc = "lost" \/ (run[n] = NoRun /\ flow.policy[n] = "reject")
          /\ states[n] \in {"none", "skipped", "upstream_failed"} => run[n] = NoRun
    /\ row \in {"none", verdict}
    /\ pc \in {"saving", "over"} => VerdictFits

Graph == INSTANCE GraphRun WITH up <- flow.up, rule <- flow.rule

(* The nodes of a Flow are decided as the tasks of a DAG are, whatever     *)
(* their runs and the other callers do: once, after their upstreams, by    *)
(* their rules.                                                            *)
ImplementsGraphRun == Graph!Spec

(* A Flow run ends, and the runs of its nodes with it or after it, even if *)
(* QUEUE nodes compete for a DAG among themselves and with other callers,  *)
(* rows cannot be written or the caller is cancelled.                      *)
Settled == /\ pc = "over"
           /\ \A n \in Nodes : node[n] \in {"idle", "done", "gone"}

FlowRunEnds == <>[]Settled

=============================================================================
