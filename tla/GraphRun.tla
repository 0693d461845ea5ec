------------------------------ MODULE GraphRun ------------------------------
(***************************************************************************)
(* What one run of a dependency graph promises, whoever executes it: a     *)
(* node is decided exactly once, after all of its upstream nodes, by its   *)
(* trigger rule.  DAGExecutor (tasks of a DAG) implements this             *)
(* specification, and so does FlowExecutor (DAG nodes of a Flow).          *)
(*                                                                         *)
(* up[n] is the set of upstream nodes of n and rule[n] its trigger rule;   *)
(* both are fixed for a run.  Acyclicity is not needed for safety.         *)
(***************************************************************************)
EXTENDS TriggerRules

CONSTANT Nodes

VARIABLES up, rule, states

vars == <<up, rule, states>>

UpstreamStates(n) == {states[u] : u \in up[n]}

UpstreamsTerminal(n) == UpstreamStates(n) \subseteq Terminal

RuleHolds(n) == ShouldRun(rule[n], UpstreamStates(n))

UpstreamFailure(n) == UpstreamStates(n) \cap FailedStates # {}

Init == /\ up \in [Nodes -> SUBSET Nodes]
        /\ rule \in [Nodes -> Rules]
        /\ states = [n \in Nodes |-> "none"]

(* The three ways a node may change its state.                             *)
Starts(n) == /\ states[n] = "none" /\ states'[n] = "running"
             /\ UpstreamsTerminal(n) /\ RuleHolds(n)

Ends(n) == states[n] = "running" /\ states'[n] \in {"success", "failed"}

Blocks(n) ==
    /\ states[n] = "none"
    /\ UpstreamsTerminal(n) /\ ~RuleHolds(n)
    /\ states'[n] = IF UpstreamFailure(n) THEN "upstream_failed" ELSE "skipped"

Next == /\ states' \in [Nodes -> TaskStates]
        /\ \A n \in Nodes : states'[n] = states[n] \/ Starts(n) \/ Ends(n) \/ Blocks(n)
        /\ UNCHANGED <<up, rule>>

Spec == Init /\ [][Next]_vars

-----------------------------------------------------------------------------

TypeOK == /\ up \in [Nodes -> SUBSET Nodes]
          /\ rule \in [Nodes -> Rules]
          /\ states \in [Nodes -> TaskStates]

(* Every decision is justified by the states the upstream nodes have now:  *)
(* a node that was started had only terminal upstreams that satisfy its    *)
(* rule, a node that was not run had only terminal upstreams that do not,  *)
(* and it says UPSTREAM_FAILED exactly when one of them failed.            *)
Justified ==
    \A n \in Nodes :
        /\ states[n] \in {"running", "success", "failed"} =>
               UpstreamsTerminal(n) /\ RuleHolds(n)
        /\ states[n] \in {"skipped", "upstream_failed"} =>
               /\ UpstreamsTerminal(n) /\ ~RuleHolds(n)
               /\ states[n] = "upstream_failed" <=> UpstreamFailure(n)

(* A run is never FAILED by UPSTREAM_FAILED nodes alone: some node really  *)
(* failed.                                                                 *)
FailureHasCause ==
    (\E n \in Nodes : states[n] = "upstream_failed") => \E n \in Nodes : states[n] = "failed"

=============================================================================
